------------------------------ MODULE Arguments ------------------------------
(***************************************************************************)
(* The words behind a reference.  Four scanners read them one after the    *)
(* other, each with its own idea of which word is a flag and which is the  *)
(* value of the flag before it: the framework's check of what an action    *)
(* declares, the option parsers of observe and of plan, and the connector. *)
(* A scanner is described by the flags that take the next word; Heads then *)
(* gives the places at which it looks at a word instead of skipping it.    *)
(*                                                                         *)
(* A word is a member of small sets: flags begin with a dash, Inline ones  *)
(* carry their value (--flag=value), some are numerals.  Words are not     *)
(* blank.  An option has one flag, which also stands for its destination   *)
(* and for the argument its adapter expects.                               *)
(*                                                                         *)
(* Sources: libs/xctx/domain/actions.py, domain/planning_intent.py,        *)
(* protocol/option_specs.py, protocol/option_encoding.py,                  *)
(* commands/observe.py, libs/xctx_connectors/runtime.py.                   *)
(***************************************************************************)
EXTENDS Routing, Integers, SequencesExt

CONSTANTS
    Unset,      \* a key the configuration does not have
    Dash,       \* words that begin with "-"
    Long,       \* words that begin with "--"
    Inline,     \* words of the form flag=value, with their two parts
    Numeral     \* words that int() accepts, with their value

ASSUME WordAssumption ==
    /\ Long \subseteq Dash /\ DOMAIN Inline \subseteq Dash
    /\ {"--", "--shape", "--id", "--limit", "--cursor", "--projection"}
          \subseteq Long \ DOMAIN Inline
    /\ \A w \in DOMAIN Numeral : Numeral[w] \in Int
    /\ DOMAIN Numeral \cap Long = {}

Heads(args, takes) ==
    LET head[i \in 0..Len(args)] ==
            i > 0 /\ (i = 1 \/ ~(head[i - 1] /\ args[i - 1] \in takes))
    IN  {i \in DOMAIN args : head[i]}

\* The words at the given places, in their order.
WordsAt(args, places) ==
    LET upTo[i \in 0..Len(args)] ==
            IF i = 0 THEN <<>>
            ELSE IF i \in places THEN Append(upTo[i - 1], args[i])
            ELSE upTo[i - 1]
    IN  upTo[Len(args)]

-----------------------------------------------------------------------------
(* What an action declares, and validate_declared_action_args.             *)
Controls == {"--limit", "--cursor", "--projection"}

DeclaredFlags(x) ==
    Controls \cup x.declares \cup ({o.flag : o \in x.options} \cap Long)

ArbitraryWords(x) ==
    IF x.arbitrary # Unset THEN x.arbitrary = "yes" ELSE x.query # "no"

LimitAllowed(x, word) ==
    /\ x.collection # Unset
    /\ word \in DOMAIN Numeral /\ Numeral[word] >= 1
    /\ x.collection.max # Unset => Numeral[word] <= x.collection.max

DeclaredArgs(x, args) ==
    LET flags == DeclaredFlags(x) IN
    \A i \in Heads(args, flags) :
        /\ args[i] # "--shape"
        /\ args[i] \in Long => args[i] \in flags
        /\ args[i] \in flags => i < Len(args)
        /\ args[i] \notin flags => ArbitraryWords(x) \/ args[i] \in x.prefixed
        /\ args[i] = "--cursor" =>
              x.collection # Unset /\ x.collection.cursor
        /\ args[i] = "--projection" => args[i + 1] \in x.projections
        /\ args[i] = "--limit" => LimitAllowed(x, args[i + 1])

\* Mutation check of SelectedProjection: the first --projection counts.
SelectedProjectionFirst(x, args) ==
    LET given == {i \in Heads(args, {"--projection"}) :
                    args[i] = "--projection" /\ i < Len(args)} IN
    IF given = {} THEN x.projection ELSE args[Min(given) + 1]

(* selected_action_projection.                                             *)
SelectedProjection(x, args) ==
    LET given == {i \in Heads(args, {"--projection"}) :
                    args[i] = "--projection" /\ i < Len(args)} IN
    IF given = {} THEN x.projection ELSE args[Max(given) + 1]

-----------------------------------------------------------------------------
(* The options of a target: those of its subdomain and those of its action *)
(* that are declared for the command.  A bad declaration or a collision    *)
(* refuses the call, also if the option would not apply.                   *)
Boolean(o) == o.kind \in {"bool", "store_false"}

WellDeclared(o) ==
    /\ o.min # Unset \/ o.max # Unset => o.kind = "int"
    /\ o.min # Unset /\ o.max # Unset => o.min <= o.max
    /\ o.choices # {} => ~Boolean(o)

OwnOptions(acts, command) ==
    UNION {{o \in x.options : IF o.commands # {} THEN command \in o.commands
                              ELSE x.id = command} : x \in acts}

SubdomainOptions(store, d, s, command) ==
    {o \in store.options[<<d, s>>] : command \in o.commands}

TargetOptions(store, d, s, acts, command) ==
    SubdomainOptions(store, d, s, command) \cup OwnOptions(acts, command)

OptionsUsable(store, d, s, acts, command) ==
    LET options == TargetOptions(store, d, s, acts, command) IN
    /\ \A o \in store.options[<<d, s>>] \cup UNION {x.options : x \in acts} :
          WellDeclared(o)
    /\ \A o, p \in options : o.flag = p.flag => o = p
    /\ SubdomainOptions(store, d, s, command)
          \cap OwnOptions(acts, command) = {}

(* _coerce_cli_value, coerce_plan_option.                                  *)
Coerces(o, word) == o.kind = "int" => word \in DOMAIN Numeral

Valued(options) == {o.flag : o \in {o \in options : ~Boolean(o)}}

(* parse_target_cli_options (observing) and the loop of                    *)
(* parse_planned_action_args, which knows neither "--" nor inline values.  *)
(* No reading at all stands for a refusal.                                 *)
Readings(options, args, observing) ==
    LET heads   == Heads(args, Valued(options))
        ends    == {i \in heads : observing /\ args[i] = "--"}
        stop    == IF ends = {} THEN Len(args) + 1 ELSE Min(ends)
        flags   == {i \in heads : i < stop /\ args[i] \in Dash}
        inline  == {i \in flags : observing /\ args[i] \in DOMAIN Inline}
        flag(i) == IF i \in inline THEN Inline[args[i]].flag ELSE args[i]
        text(i) == IF i \in inline THEN Inline[args[i]].value ELSE args[i + 1]
        fits(i, o) ==
            /\ o.flag = flag(i)
            /\ IF Boolean(o) THEN i \notin inline
               ELSE (i \in inline \/ i < Len(args)) /\ Coerces(o, text(i))
        read(o, i) == IF Boolean(o) THEN (IF o.kind = "bool" THEN "on" ELSE "off")
                      ELSE text(i)
        given(o) == {i \in flags : flag(i) = o.flag}
    IN  IF \E i \in flags : \A o \in options : ~fits(i, o) THEN {}
        ELSE {[words  |-> WordsAt(args, {i \in heads : i < stop} \ flags)
                            \o SubSeq(args, stop + 1, Len(args)),
               values |-> [f \in {flag(i) : i \in flags} |->
                             LET o == CHOOSE o \in options : o.flag = f
                             IN  read(o, Max(given(o)))]]}

(* encode_cli_options_for_target: what a target's declaration allows.      *)
Exclusive(options, values) ==
    \A o, p \in options :
        /\ {o.flag, p.flag} \subseteq DOMAIN values
        /\ o.group # Unset /\ o.group = p.group
        => o = p

WithinBounds(o, word) ==
    /\ o.min # Unset => Numeral[word] >= o.min
    /\ o.max # Unset => Numeral[word] <= o.max
    /\ o.choices # {} => word \in o.choices

\* Mutation check of Allowed: one option of each group is not looked for.
AllowedBeside(options, values) ==
    \A o \in options :
        o.flag \in DOMAIN values => WithinBounds(o, values[o.flag])

Allowed(options, values) ==
    /\ \A o \in options :
          o.flag \in DOMAIN values => WithinBounds(o, values[o.flag])
    /\ Exclusive(options, values)

Encoded(options, values) ==
    {[flag |-> o.flag, value |-> values[o.flag]] :
        o \in {o \in options :
                 /\ o.flag \in DOMAIN values
                 /\ o.kind = "bool" => values[o.flag] = "on"
                 /\ o.kind = "store_false" => values[o.flag] = "off"}}

RequiredGiven(options, values) ==
    \A o \in options : o.required => o.flag \in DOMAIN values

\* Options the caller did not give take their defaults.
WithDefaults(options, values) ==
    [f \in DOMAIN values \cup {o.flag : o \in {o \in options : o.default # Unset}}
        |-> IF f \in DOMAIN values THEN values[f]
            ELSE (CHOOSE o \in options : o.flag = f).default]

-----------------------------------------------------------------------------
(* observe: _split_observe_args takes --id and its value out of the words, *)
(* wherever they stand, before anything else is read.                      *)
InlineId(word) == word \in DOMAIN Inline /\ Inline[word].flag = "--id"

IdPlaces(args) ==
    {i \in Heads(args, {"--id"}) : args[i] = "--id" \/ InlineId(args[i])}

SplitFits(args) ==
    /\ \A i \in IdPlaces(args) : i < Len(args) \/ InlineId(args[i])
    /\ \A i, j \in IdPlaces(args) : i = j

Ids(args) ==
    {IF InlineId(args[i]) THEN Inline[args[i]].value ELSE args[i + 1] :
        i \in IdPlaces(args)}

WithoutId(args) ==
    WordsAt(args, Heads(args, {"--id"}) \ IdPlaces(args))

ObservedArgs(store, d, s, args) ==
    LET acts    == ActionsAt(store, d, s, "observe")
        options == TargetOptions(store, d, s, acts, "observe")
    IN  {r \in Readings(options, args, TRUE) :
            /\ OptionsUsable(store, d, s, acts, "observe")
            /\ RequiredGiven(options, r.values)}

(* plan: parse_planned_action_args.                                        *)
PlanOptions(store, x) ==
    TargetOptions(store, x.domain, x.subdomain, {x}, "plan")

PlannedArgs(store, x, args) ==
    LET options == PlanOptions(store, x)
        complete(r) == [r EXCEPT !.values = WithDefaults(options, r.values)]
    IN  {complete(r) : r \in
            {r \in Readings(options, args, FALSE) :
                /\ DeclaredArgs(x, args)
                /\ OptionsUsable(store, x.domain, x.subdomain, {x}, "plan")
                /\ \A o \in options :
                      o.default # Unset /\ o.flag \notin DOMAIN r.values
                         => Coerces(o, o.default)
                /\ RequiredGiven(options, complete(r).values)
                /\ Allowed(options, complete(r).values)}}

-----------------------------------------------------------------------------
(* parse_controls: what a connector takes the words for.                   *)
ReadControls(args, limit, maxLimit) ==
    LET at(c) == {i \in Heads(args, Controls) : args[i] = c}
        value(c, default) == IF at(c) = {} THEN default ELSE args[Max(at(c)) + 1]
        number(i) == args[i + 1] \in DOMAIN Numeral
        refused ==
            \/ \E i \in Heads(args, Controls) : args[i] = "--shape"
            \/ \E c \in Controls : \E i \in at(c) : i = Len(args)
            \/ \E i \in at("--limit") :
                  ~number(i) \/ Numeral[args[i + 1]] \notin 1..maxLimit
            \/ \E i \in at("--cursor") :
                  ~number(i) \/ Numeral[args[i + 1]] < 0
            \/ \E i \in at("--projection") : args[i + 1] \notin {"compact", "full"}
    IN  IF refused THEN {}
        ELSE {[words |-> WordsAt(args, {i \in Heads(args, Controls) :
                                          args[i] \notin Controls}),
               limit |-> IF at("--limit") = {} THEN limit
                         ELSE Numeral[value("--limit", "")],
               cursor |-> IF at("--cursor") = {} THEN 0
                          ELSE Numeral[value("--cursor", "")],
               projection |-> value("--projection", "compact")]}

=============================================================================
