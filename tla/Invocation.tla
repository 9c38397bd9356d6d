------------------------------ MODULE Invocation ------------------------------
(***************************************************************************)
(* One invocation of xctx that reads: the global flags before the command, *)
(* the choice of a format and a detail level, the admission of the command *)
(* and the three commands whose answer depends on how a reference and the  *)
(* words behind it are read: discover, observe and plan.  The agent that   *)
(* gets an answer may follow one of the commands it offers, or put the     *)
(* same request in other words; both start another invocation.             *)
(*                                                                         *)
(* What execute, audit and repair do is modelled elsewhere or not at all;  *)
(* a connector is called here, and what comes back is ConnectorCall's.     *)
(* The texts of answers are left out.  At least one domain is configured,  *)
(* and what stands in the place of a reference is not a flag.              *)
(*                                                                         *)
(* Sources: libs/xctx/process/argv.py, process/runtime.py,                 *)
(* process/parser.py, protocol/detail.py, protocol/command_policy.py,      *)
(* commands/discover.py, commands/observe.py, commands/plan.py,            *)
(* domain/discovery.py, domain/observation.py, domain/planning.py,         *)
(* domain/planning_intent.py.                                              *)
(***************************************************************************)
EXTENDS Arguments

CONSTANTS
    Artifact,   \* a handle of a plan, manifest or commit
    Result,     \* a handle of a result
    ConnectorMax,   \* the largest page a connector gives
    Cases       \* bound of the model: configurations, flags and requests

VARIABLES
    store,      \* the loaded configuration
    prefix,     \* the words before the command (history)
    argv,       \* the words not yet consumed
    sel,        \* ArgvSelection: format, detail level, output_error
    request,    \* the command with its reference, --id and arguments
    pc,         \* which part of the program runs
    answer,     \* what is emitted
    previous    \* the request and answer this invocation follows up

vars == <<store, prefix, argv, sel, request, pc, answer, previous>>

Core == {"discover", "observe", "plan", "execute", "audit", "repair"}

NoSelection == [format |-> Unset, level |-> Unset, error |-> FALSE]

NoAnswer == [kind |-> "none", why |-> Unset, moves |-> {}, call |-> Unset,
             projection |-> Unset]

\* The argument vector of a request.  No word of it tells a reference from
\* another word that is not a flag.
Written(r) ==
    IF r.command = Unset THEN <<>>
    ELSE <<r.command>>
         \o (IF r.id # Unset THEN <<"--id", r.id>> ELSE <<>>)
         \o (IF r.ref # Unset THEN <<"target">> ELSE <<>>)
         \o r.args

Init ==
    \E c \in Cases :
        /\ store \in c.stores /\ prefix \in c.prefixes
        /\ request \in c.requests
        /\ argv = prefix \o Written(request)
        /\ sel = NoSelection /\ pc = "flags"
        /\ answer = NoAnswer /\ previous = Unset

-----------------------------------------------------------------------------
(* extract_global_options.                                                 *)
FormatOf ==
    [flag \in {"--json", "--yaml"} |-> IF flag = "--json" THEN "jsonl" ELSE "yaml"]

LevelOf ==
    [flag \in {"--basic", "--more", "--max"} |->
        CASE flag = "--basic" -> "basic"
          [] flag = "--more"  -> "more"
          [] flag = "--max"   -> "max"]

Levels == Range(LevelOf)

GlobalFlags ==
    DOMAIN FormatOf \cup DOMAIN LevelOf
        \cup {"--", "--detail", "--shape", "--detail-level"}

(* A store the loader lets through: its actions have keys of their own,    *)
(* query_required is true, false or not given (it is only tested), and of  *)
(* what an action declares as a flag only words with two dashes count.     *)
IsConfiguration(s) ==
    /\ IsStore(s)
    /\ \A x \in s.actions :
          x.query \in {"yes", "no", Unset} /\ x.declares \subseteq Long

\* The words before a command: flags with their values, "--" only at the end.
IsFlagPrefix(p) ==
    /\ p \in Seq(Range(p))
    /\ \A i \in DOMAIN p :
          /\ p[i] = "--" => i = Len(p)
          /\ p[i] \notin GlobalFlags =>
                i > 1 /\ p[i - 1] \in {"--detail-level", "--shape"}

\* The command is neither a global flag nor a word that one takes for its value.
IsRequest(r) ==
    /\ r = [command |-> r.command, ref |-> r.ref, id |-> r.id, args |-> r.args]
    /\ r.command \notin GlobalFlags \cup Levels
    /\ r.ref # Unset => r.ref # <<>> /\ r.ref \in Seq(Range(r.ref))
    /\ r.args \in Seq(Range(r.args))

ASSUME CasesAssumption ==
    \A c \in Cases :
        /\ \A s \in c.stores : IsConfiguration(s)
        /\ \A p \in c.prefixes : IsFlagPrefix(p)
        /\ \A r \in c.requests : IsRequest(r)

\* What is not given is told apart from everything that can be given.
ASSUME UnsetAssumption ==
    /\ Unset \notin Core \cup Levels \cup Range(FormatOf) \cup {"yes", "no"}
    /\ Unset \notin {"configuration", "format", "flags", "command", "arguments",
                     "handle", "ambiguous", "duplicate", "noncanonical",
                     "unscoped", "unknown", "operation", "preflight"}
    /\ \A d \in Domain, s, a \in Name : Unset \notin {<<d, s>>, <<d, s, a>>}

Looking(flags) == pc = "flags" /\ argv # <<>> /\ argv[1] \in flags

Consume(n) ==
    /\ argv' = SubSeq(argv, n + 1, Len(argv))
    /\ UNCHANGED <<store, prefix, request, pc, answer, previous>>

EndOfFlags ==
    /\ pc = "flags"
    /\ argv # <<>> => argv[1] \notin GlobalFlags
    /\ pc' = "prepare"
    /\ UNCHANGED <<store, prefix, argv, sel, request, answer, previous>>

DoubleDash ==
    /\ Looking({"--"})
    /\ argv' = Tail(argv) /\ pc' = "prepare"
    /\ UNCHANGED <<store, prefix, sel, request, answer, previous>>

UnsupportedFlag ==
    /\ Looking({"--detail", "--shape"})
    /\ sel' = [sel EXCEPT !.error = TRUE]
    /\ Consume(IF argv[1] = "--shape" /\ Len(argv) > 1 /\ argv[2] \notin Long
               THEN 2 ELSE 1)

\* Mutation check of WithLevel: the last of two levels counts.
WithLevelLast(level) == [sel EXCEPT !.level = level]

WithLevel(level) ==
    [sel EXCEPT !.error = @ \/ sel.level \notin {Unset, level},
                !.level = IF @ = Unset THEN level ELSE @]

DetailFlag ==
    /\ Looking(DOMAIN LevelOf)
    /\ sel' = WithLevel(LevelOf[argv[1]])
    /\ Consume(1)

DetailLevel ==
    /\ Looking({"--detail-level"})
    /\ sel' = IF Len(argv) > 1 /\ argv[2] \in Levels THEN WithLevel(argv[2])
              ELSE [sel EXCEPT !.error = TRUE]
    /\ Consume(IF Len(argv) > 1 THEN 2 ELSE 1)

FormatFlag ==
    /\ Looking(DOMAIN FormatOf)
    /\ LET format == FormatOf[argv[1]]
           failed == sel.error \/ sel.format \notin {Unset, format}
       IN  sel' = [sel EXCEPT !.error = failed,
                              !.format = IF failed THEN Unset ELSE format]
    /\ Consume(1)

-----------------------------------------------------------------------------
Give(a) ==
    /\ answer' = a /\ pc' = "done"
    /\ UNCHANGED <<store, prefix, argv, request, previous>>

Show(kind) == Give([NoAnswer EXCEPT !.kind = kind])

(* A refusal and the commands it offers.  What it gives as a template, with *)
(* TARGET or <id> in the place of a word, is not a command to follow.      *)
Refuse(why, moves) ==
    Give([NoAnswer EXCEPT !.kind = "refused", !.why = why, !.moves = moves])

Move(command, ref, args) ==
    [command |-> command, ref |-> ref, id |-> Unset, args |-> args]

Root == Move("discover", Unset, <<>>)

(* select_output_format, select_detail_level and the first refusals of run.*)
DefaultLevel ==
    IF \/ argv = <<>> \/ argv[1] = "--version"
       \/ argv = <<"discover">>
    THEN "more" ELSE "basic"

LoadFails ==
    pc = "prepare" /\ Refuse("configuration", {}) /\ UNCHANGED sel

Formats ==
    IF sel.format = Unset THEN {"yaml", store.format} ELSE {sel.format}

RefuseFormat ==
    /\ pc = "prepare" /\ \E f \in Formats : f \notin store.formats
    /\ Refuse("format", {}) /\ UNCHANGED sel

Prepare ==
    /\ pc = "prepare"
    /\ \E f \in Formats \cap store.formats :
          sel' = [sel EXCEPT !.format = f,
                             !.level = IF @ # Unset THEN @
                                       ELSE IF sel.error THEN "basic"
                                       ELSE DefaultLevel]
    /\ \/ sel.error /\ Refuse("flags", {})
       \/ /\ ~sel.error /\ pc' = "admit"
          /\ UNCHANGED <<store, prefix, argv, request, answer, previous>>

(* resolve_command_surface.                                                *)
Accepted ==
    (store.main \cap store.mapped \cap Core)
        \cup (store.other \cap store.mappedOther \cap {"other"})

Orient ==
    /\ pc = "admit" /\ (argv # <<>> => argv[1] = "--version")
    /\ Show("listing") /\ UNCHANGED sel

RefuseCommand ==
    /\ pc = "admit" /\ argv # <<>>
    /\ argv[1] \notin Accepted \cup {"--version"}
    /\ Refuse("command", {Root}) /\ UNCHANGED sel

Admit ==
    /\ pc = "admit" /\ argv # <<>> /\ argv[1] \in Accepted
    /\ pc' = IF argv[1] \in {"discover", "observe", "plan"} THEN argv[1]
             ELSE "elsewhere"
    /\ UNCHANGED <<store, prefix, argv, sel, request, answer, previous>>

-----------------------------------------------------------------------------
ref == request.ref
args == request.args

\* parse_ref and parse_scoped_subdomain_mode_ref look at the parts.
Parts(n) == ref # Unset /\ Len(ref) = n /\ ref[1] \in Domain

Shortcut == Parts(2) /\ Matches(store, ref[1], ref[2]) # {}

InSubdomain == Parts(2) /\ ref[2] \in store.subdomains[ref[1]]

InAction == Parts(3) /\ ref[2] \in store.subdomains[ref[1]]

Online(d, s) == <<d, s>> \in store.online

Called(via, d, s, verb, words, values) ==
    [NoAnswer EXCEPT !.kind = "called",
        !.call = [via |-> via, domain |-> d, subdomain |-> s, verb |-> verb,
                  words |-> words, values |-> values]]

Discovering ==
    pc = "discover" /\ request.id = Unset /\ "--id" \notin Range(args)

(* commands/discover.py: --id names an artifact and stands alone.          *)
DiscoverById ==
    /\ pc = "discover" /\ ~Discovering
    /\ \/ /\ "--id" \in Range(args) \/ ref # Unset
          /\ Refuse("arguments", {})
       \/ /\ "--id" \notin Range(args) /\ ref = Unset
          /\ \/ request.id = Artifact /\ Show("artifact")
             \/ /\ request.id = Result
                /\ Refuse("handle", {Move("observe", <<Result>>, <<>>)})
             \/ request.id \notin {Artifact, Result} /\ Refuse("handle", {})
    /\ UNCHANGED sel

(* domain_action_config: what discover and plan do with a name that is not *)
(* one shortcut only.                                                      *)
RefuseAmbiguous ==
    /\ Discovering \/ pc = "plan"
    /\ Parts(2)
    /\ LET moves == {Move("discover", m.ref, m.args) :
                        m \in DisambiguationMoves(store, ref[1], ref[2], args)}
       IN  \/ /\ Ambiguous(store, ref[1], ref[2])
              /\ Refuse("ambiguous", moves)
           \/ /\ Duplicate(store, ref[1], ref[2])
              /\ Refuse("duplicate", moves)
    /\ UNCHANGED sel

\* The one shortcut that the reference names.
Named ==
    IF Parts(2) /\ ~Ambiguous(store, ref[1], ref[2])
                /\ ~Duplicate(store, ref[1], ref[2])
    THEN Matches(store, ref[1], ref[2]) ELSE {}

(* A shortcut and an action run the same way, with other defaults, and     *)
(* each answer names the other one.                                        *)
AskAction(x, via, asks, verb, synonyms) ==
    LET moves == {Move("discover", r, args) : r \in synonyms} IN
    \/ /\ asks /\ args = <<>>
       /\ Give([NoAnswer EXCEPT !.kind = "interface", !.moves = moves])
    \/ /\ ~(asks /\ args = <<>>) /\ ~DeclaredArgs(x, args)
       /\ Refuse("arguments", {})
    \/ /\ ~(asks /\ args = <<>>) /\ DeclaredArgs(x, args)
       /\ Give([Called(via, x.domain, x.subdomain, verb, args, {})
                   EXCEPT !.moves = moves])

VerbOf(x, default) == IF x.entry = Unset THEN default ELSE x.entry

\* Mutation check of DiscoverShortcut: it runs the name it was called by.
DiscoverShortcutByName ==
    /\ Discovering
    /\ \E x \in Named :
          /\ Online(x.domain, x.subdomain)
          /\ AskAction(x, "shortcut", x.query # "no", x.public, {Source(x)})
    /\ UNCHANGED sel

(* scoped_action_discovery_payload.                                        *)
DiscoverShortcut ==
    /\ Discovering
    /\ \E x \in Named :
          \/ ~Online(x.domain, x.subdomain) /\ Show("offline")
          \/ /\ Online(x.domain, x.subdomain)
             /\ AskAction(x, "shortcut", x.query # "no", VerbOf(x, "discover"),
                          {Source(x)})
    /\ UNCHANGED sel

(* scoped_subdomain_action_payload: whether the subdomain is online is not *)
(* looked at.                                                              *)
DiscoverAction ==
    /\ Discovering /\ InAction
    /\ LET acts == ActionsAt(store, ref[1], ref[2], ref[3]) IN
       \/ acts = {} /\ Refuse("unknown", {})
       \/ \E x \in acts :
             AskAction(x, "action", x.query = "yes", VerbOf(x, x.id),
                       IF x.shortcut THEN {<<x.domain, x.public>>} ELSE {})
    /\ UNCHANGED sel

(* subdomain_discovery_payload: an action must not be named by the first   *)
(* word behind the subdomain.                                              *)
NamesAction(d, s, word) ==
    {x.id : x \in ActionsAt(store, d, s, word)}

\* Mutation check of Canonical: the word itself is offered.
CanonicalAsTyped(d, s, word) ==
    {word} \cap UNION {{x.id, x.entry, x.named} : x \in store.actions}

Canonical(d, s, word) ==
    IF NamesAction(d, s, word) # {} THEN NamesAction(d, s, word)
    ELSE {x.id : x \in CanonicalFor(store, d, s, word)}

AskSubdomain(d, s) ==
    LET acts   == ActionsAt(store, d, s, "discover")
        fits   == \A x \in acts : DeclaredArgs(x, args)
        called == Called("discover", d, s, "discover", args, {})
    IN  \/ ~fits /\ Refuse("arguments", {})
        \/ fits /\ acts = {} /\ Give(called)
        \/ fits /\ \E x \in acts :
              Give([called EXCEPT !.projection = SelectedProjection(x, args)])

DiscoverSubdomain ==
    /\ Discovering /\ InSubdomain /\ ~Shortcut
    /\ LET d == ref[1]
           s == ref[2]
           others == IF args = <<>> THEN {} ELSE Canonical(d, s, args[1])
       IN  \/ ~Online(d, s) /\ Show("offline")
           \/ /\ Online(d, s)
              /\ \E a \in others :
                    Refuse("noncanonical", {Move("discover", <<d, s, a>>, <<>>)})
           \/ Online(d, s) /\ others = {} /\ AskSubdomain(d, s)
    /\ UNCHANGED sel

DiscoverDomain ==
    /\ Discovering /\ Parts(1)
    /\ \/ args # <<>> /\ Refuse("arguments", {})
       \/ args = <<>> /\ Show("listing")
    /\ UNCHANGED sel

DiscoverRoot ==
    /\ Discovering /\ ref = Unset
    /\ Show("listing") /\ UNCHANGED sel

DiscoverHandle ==
    /\ Discovering /\ ref = <<Artifact>>
    /\ \/ args # <<>> /\ Refuse("arguments", {})
       \/ args = <<>> /\ Show("artifact")
    /\ UNCHANGED sel

\* scoped_action_run_cmd: where a name without a domain would be a shortcut.
Scopes(name) == {d \in Domain : Matches(store, d, name) # {}}

DiscoverUnknown ==
    /\ Discovering /\ ref # Unset /\ ref # <<Artifact>>
    /\ \/ /\ Parts(2) /\ ~InSubdomain /\ ~Shortcut
          /\ Refuse("unknown", {Move("discover", <<ref[1]>>, <<>>)})
       \/ /\ Parts(3) /\ ~InAction
          /\ Refuse("unknown", {Move("discover", <<ref[1]>>, <<>>)})
       \/ /\ ref[1] \notin Domain /\ Len(ref) = 1
          /\ \E d \in Scopes(ref[1]) :
                Refuse("unscoped", {Move("discover", <<d, ref[1]>>, <<>>)})
       \/ /\ ref[1] \notin Domain
          /\ Len(ref) > 1 \/ Scopes(ref[1]) = {}
          /\ Refuse("unknown", {Root})
    /\ UNCHANGED sel

-----------------------------------------------------------------------------
(* observe.  Its subdomain is taken at its word: shortcuts play no part.   *)
WithoutOptions(words) == Range(words) \cap Dash = {}

ObserveUnknown ==
    /\ pc = "observe" /\ ~InSubdomain
    /\ LET words == WithoutId(args)
           plain == SplitFits(args) /\ Ids(args) = {}
       IN  \/ /\ plain /\ ref = <<Result>> /\ words = <<>>
              /\ Show("result")
           \/ /\ plain /\ ref = <<Artifact>> /\ words = <<>>
              /\ Refuse("handle", {Move("discover", ref, <<>>)})
           \/ /\ plain /\ Parts(1) /\ WithoutOptions(words)
              /\ Show("listing")
           \/ /\ SplitFits(args) /\ (Parts(2) \/ Parts(3))
              /\ Refuse("unknown", {Move("discover", <<ref[1]>>, <<>>)})
           \/ /\ ~SplitFits(args)
                 \/ /\ ~Parts(2) /\ ~Parts(3)
                    /\ ~plain \/ ~(Parts(1) /\ WithoutOptions(words))
                    /\ ~(plain /\ ref \in {<<Artifact>>, <<Result>>}
                               /\ words = <<>>)
              /\ Refuse("arguments", {})
    /\ UNCHANGED sel

\* observe_payload for a known subdomain: r is what its options were read
\* as, id the object named by --id or by the words.
ObserveObject(d, s, r, id) ==
    LET options == TargetOptions(store, d, s, ActionsAt(store, d, s, "observe"),
                                 "observe")
        bare == DOMAIN r.values = {}
    IN  \/ ~Online(d, s) /\ Show("offline")
        \/ /\ Online(d, s) /\ id = <<>> /\ bare
           /\ Give(Called("observe", d, s, "discover", <<>>, {}))
        \/ /\ Online(d, s) /\ id = <<>> /\ ~bare
           /\ Refuse("arguments", {})
        \/ /\ Online(d, s) /\ id # <<>> /\ ~Allowed(options, r.values)
           /\ Refuse("arguments", {})
        \/ /\ Online(d, s) /\ id # <<>> /\ Allowed(options, r.values)
           /\ Give(Called("observe", d, s, "observe", id,
                          Encoded(options, r.values)))

ObserveSubdomain ==
    /\ pc = "observe" /\ InSubdomain
    /\ LET readings == ObservedArgs(store, ref[1], ref[2], WithoutId(args)) IN
       \/ ~SplitFits(args) /\ Refuse("arguments", {})
       \/ SplitFits(args) /\ readings = {} /\ Refuse("arguments", {})
       \/ /\ SplitFits(args)
          /\ \E r \in readings :
                \/ /\ Ids(args) = {}
                   /\ ObserveObject(ref[1], ref[2], r, r.words)
                \/ /\ Ids(args) # {} /\ r.words # <<>>
                   /\ Refuse("arguments", {})
                \/ /\ r.words = <<>> /\ Ids(args) = {Result}
                   /\ \/ DOMAIN r.values = {} /\ Show("result")
                      \/ DOMAIN r.values # {} /\ Refuse("arguments", {})
                \/ /\ r.words = <<>> /\ Ids(args) = {Artifact}
                   /\ Refuse("handle", {Move("discover", <<Artifact>>, <<>>)})
                \/ /\ r.words = <<>>
                   /\ \E id \in Ids(args) \ {Artifact, Result} :
                         ObserveObject(ref[1], ref[2], r, <<id>>)
    /\ UNCHANGED sel

-----------------------------------------------------------------------------
(* plan: resolve_planned_action, then the arguments and the preflight.     *)
Plannable ==
    {x \in (IF InAction THEN ActionsAt(store, ref[1], ref[2], ref[3]) ELSE Named) :
        x.planned}

PlanUnknown ==
    /\ pc = "plan" /\ Plannable = {} /\ ~(Shortcut /\ Named = {})
    /\ \/ ref = Unset /\ Refuse("arguments", {})
       \/ /\ InAction /\ ActionsAt(store, ref[1], ref[2], ref[3]) = {}
          /\ Refuse("unknown", {})
       \/ /\ ref # Unset
          /\ InAction => ActionsAt(store, ref[1], ref[2], ref[3]) # {}
          /\ Refuse("operation", {Root})
    /\ UNCHANGED sel

PlanAction ==
    /\ pc = "plan"
    /\ \E x \in Plannable :
          \/ PlannedArgs(store, x, args) = {} /\ Refuse("arguments", {})
          \/ \E r \in PlannedArgs(store, x, args) :
                \/ x.preflight /\ Refuse("preflight", {})
                \/ Give(Called("plan", x.domain, x.subdomain, VerbOf(x, x.id),
                               r.words, Encoded(PlanOptions(store, x), r.values)))
    /\ UNCHANGED sel

Delegate ==
    pc = "elsewhere" /\ Show("elsewhere") /\ UNCHANGED sel

-----------------------------------------------------------------------------
(* The agent.                                                              *)
Again(r) ==
    /\ previous' = [request |-> request, answer |-> answer]
    /\ request' = r /\ argv' = Written(r) /\ prefix' = <<>>
    /\ sel' = NoSelection /\ pc' = "flags" /\ answer' = NoAnswer
    /\ UNCHANGED store

Follow ==
    /\ pc = "done" /\ previous = Unset
    /\ \E r \in answer.moves : Again(r)

\* An object to observe may be named by --id or by its place.
Rephrase ==
    /\ pc = "done" /\ previous = Unset
    /\ request.command = "observe" /\ Len(args) = 2 /\ args[1] = "--id"
    /\ Again([request EXCEPT !.args = <<args[2]>>])

ReadFlags ==
    EndOfFlags \/ DoubleDash \/ UnsupportedFlag \/ DetailFlag \/ DetailLevel
        \/ FormatFlag

Dispatch ==
    LoadFails \/ RefuseFormat \/ Prepare \/ Orient \/ RefuseCommand \/ Admit
        \/ Delegate

Discover ==
    DiscoverById \/ DiscoverRoot \/ DiscoverHandle \/ DiscoverShortcut
        \/ DiscoverAction \/ DiscoverSubdomain \/ DiscoverDomain
        \/ DiscoverUnknown

Observe == ObserveSubdomain \/ ObserveUnknown

Plan == PlanAction \/ PlanUnknown

Next ==
    ReadFlags \/ Dispatch \/ RefuseAmbiguous \/ Discover \/ Observe \/ Plan
        \/ Follow \/ Rephrase

Spec == Init /\ [][Next]_vars

-----------------------------------------------------------------------------
(* extract_global_options takes the flags one by one; what it selects must *)
(* not depend on that.  Without an error every flag of the prefix was      *)
(* understood, no two of them disagree, they are what is selected, and     *)
(* nothing of the command itself was consumed.                             *)
PrefixIsUnambiguous ==
    LET formats  == {FormatOf[w] : w \in Range(prefix) \cap DOMAIN FormatOf}
        behind   == {i \in DOMAIN prefix : prefix[i] = "--detail-level"}
        levelled == \A i \in behind : i < Len(prefix) /\ prefix[i + 1] \in Levels
        levels   == {LevelOf[w] : w \in Range(prefix) \cap DOMAIN LevelOf}
                       \cup {prefix[i + 1] : i \in behind \ {Len(prefix)}}
        one(values, value) ==
            values = (IF value = Unset THEN {} ELSE {value})
    IN  pc = "prepare" =>
          /\ ~sel.error <=>
               /\ Range(prefix) \cap {"--detail", "--shape"} = {}
               /\ levelled
               /\ Cardinality(formats) <= 1 /\ Cardinality(levels) <= 1
          /\ ~sel.error =>
               /\ argv = Written(request)
               /\ one(formats, sel.format) /\ one(levels, sel.level)

(* The resolver and the audit's domain_affordance_config_check are two     *)
(* programs over the same names.  What the audit passes is never refused   *)
(* as ambiguous, and what is answered has one meaning by the audit's own   *)
(* account.                                                                *)
AuditPredictsRouting ==
    pc = "done" =>
        /\ answer.why \in {"ambiguous", "duplicate"} => ~AuditClean(store)
        /\ answer.kind # "refused" /\ request.command \in {"discover", "plan"}
             /\ Parts(2)
           => \A p, q \in Sources(store, ref[1], ref[2]) : p = q

(* A command that a refusal of a reference offers does not end in another  *)
(* refusal of a reference, if the audit passes.  If it does not, only the  *)
(* colliding subdomain can be met again, or a shortcut be found ambiguous  *)
(* that was named without its domain.                                      *)
Lost == {"ambiguous", "duplicate", "noncanonical", "unscoped", "unknown",
         "operation"}

MovesLeadOut ==
    pc = "done" /\ previous # Unset /\ request \in previous.answer.moves
      /\ previous.answer.why \in Lost =>
        \/ answer.why \notin Lost
        \/ /\ ~AuditClean(store)
           /\ \/ previous.answer.why = "unscoped"
              \/ previous.answer.why = "ambiguous" /\ ref = previous.request.ref

(* Two ways to say the same thing are answered alike: a shortcut and the   *)
(* action that implements it, where the configuration leaves neither       *)
(* entrypoint_command nor query_required to its default, which differ; and *)
(* an object of a subdomain observed by --id or by its place, unless it is *)
(* a handle of the protocol or looks like a flag.                          *)
SameAnswer(a, b) ==
    /\ a.kind = b.kind /\ a.why = b.why
    /\ a.kind = "called" =>
          /\ <<a.call.domain, a.call.subdomain, a.call.verb>>
                = <<b.call.domain, b.call.subdomain, b.call.verb>>
          /\ a.call.words = b.call.words /\ a.call.values = b.call.values

Declared(x) == x.query # Unset /\ x.entry # Unset

SynonymsAgree ==
    pc = "done" /\ previous # Unset
      /\ answer.why \notin {"configuration", "format", "ambiguous", "duplicate"}
      /\ previous.answer.why \notin {"configuration", "format", "flags"} =>
        /\ previous.answer.kind \in {"called", "interface"} =>
             \A x \in store.actions :
                /\ Declared(x) /\ Online(x.domain, x.subdomain)
                /\ {ref, previous.request.ref}
                      = {Source(x), <<x.domain, x.public>>}
                => SameAnswer(previous.answer, answer)
        /\ request.command = "observe" /\ previous.request.ref = ref
             /\ InSubdomain
             /\ args[1] \notin {Artifact, Result} \cup Dash
           => SameAnswer(previous.answer, answer)

\* A flag that one scanner gives a value and the other does not.
Disputed(x, options, word) ==
    \E o \in options : o.flag = word /\ (Boolean(o) <=> word \in DeclaredFlags(x))

(* validate_declared_action_args and the parser of plan cut the same words *)
(* into flags, values and positionals by different rules.  All the same    *)
(* the adapter of a plan gets what the declaration allows: each required   *)
(* option, values within their bounds, one option of a group, and no word  *)
(* that is neither arbitrary nor has a declared prefix.  An exception is   *)
(* what stands behind a flag that only one of them gives a value: the next *)
(* word for the first scanner is the next but one for the second, and they *)
(* may stay out of step to the end.                                        *)
PlanIsChecked ==
    answer.kind = "called" /\ request.command = "plan" =>
        \E x \in Plannable :
          LET options == PlanOptions(store, x)
              call    == answer.call
              given   == {v.flag : v \in call.values}
              behindDisputed(w) ==
                  \E i \in DOMAIN args, j \in DOMAIN args :
                      j < i /\ args[i] = w /\ Disputed(x, options, args[j])
          IN  /\ \A o \in options : o.required /\ ~Boolean(o) => o.flag \in given
              /\ \A v \in call.values : \E o \in options :
                    o.flag = v.flag /\ WithinBounds(o, v.value)
              /\ \A o, p \in options :
                    {o.flag, p.flag} \subseteq given /\ o.group # Unset
                      /\ o.group = p.group => o = p
              /\ \A w \in Range(call.words) :
                    \/ ArbitraryWords(x) \/ w \in x.prefixed
                    \/ behindDisputed(w)

(* The connector reads the controls out of the same words once more, with  *)
(* parse_controls.  What it finds is what the framework has checked and    *)
(* what it reports, unless a flag of the action stands before a control    *)
(* and takes it for its value, or nobody names a projection: the default   *)
(* of the configuration is reported, but the connector's own is used.      *)
AdapterReadsWhatWasChecked ==
    answer.kind = "called" /\ request.command = "discover" =>
        LET contracts ==
                IF answer.call.via = "discover"
                THEN ActionsAt(store, ref[1], ref[2], "discover")
                ELSE Named \cup (IF InAction
                                 THEN ActionsAt(store, ref[1], ref[2], ref[3])
                                 ELSE {})
            words == answer.call.words
        IN  \A x \in contracts, r \in ReadControls(words, 1, ConnectorMax) :
              /\ answer.projection # Unset /\ "--projection" \in Range(words)
                    => r.projection = answer.projection
              /\ Range(words) \cap (DeclaredFlags(x) \ Controls) = {} =>
                   /\ "--projection" \in Range(words) =>
                         r.projection \in x.projections
                   /\ "--cursor" \in Range(words) => x.collection.cursor
                   /\ "--limit" \in Range(words) /\ x.collection.max # Unset
                         => r.limit <= x.collection.max

=============================================================================
