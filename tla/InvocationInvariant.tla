------------------------- MODULE InvocationInvariant -------------------------
(***************************************************************************)
(* Why an invocation reads what was written: the inductive invariant of    *)
(* Invocation, in parts.  InvocationInv says what the flag loop has made   *)
(* of the words it has consumed, and what an answer owes to the reference  *)
(* it answers; CallsInv says what was checked before anything is called.   *)
(* InvocationProofs proves both.                                           *)
(***************************************************************************)
EXTENDS Invocation

-----------------------------------------------------------------------------
(* The flag loop *)

\* Everything that was typed.
Words == prefix \o Written(request)

\* What the first k words of the prefix ask for, each time they ask.
FormatsIn(k) ==
    {FormatOf[prefix[i]] : i \in {i \in 1..k : prefix[i] \in DOMAIN FormatOf}}

LevelsIn(k) ==
    {LevelOf[prefix[i]] : i \in {i \in 1..k : prefix[i] \in DOMAIN LevelOf}}
        \cup {prefix[i + 1] : i \in {i \in 1..k : prefix[i] = "--detail-level"}}

Only(values, value) == values = (IF value = Unset THEN {} ELSE {value})

\* The loop has read k words, and selected what they say.
Understood(k) ==
    /\ argv = SubSeq(Words, k + 1, Len(Words))
    /\ \A i \in 1..k : prefix[i] \notin {"--detail", "--shape"}
    /\ \A i \in 1..k : prefix[i] = "--detail-level" =>
          i < k /\ prefix[i + 1] \in Levels
    /\ Only(FormatsIn(k), sel.format) /\ Only(LevelsIn(k), sel.level)

\* The prefix is one the loop has to refuse.
Misunderstood ==
    \/ \E i \in 1..Len(prefix) : prefix[i] \in {"--detail", "--shape"}
    \/ \E i \in 1..Len(prefix) : prefix[i] = "--detail-level"
          /\ (i < Len(prefix) => prefix[i + 1] \notin Levels)
    \/ \E f, g \in FormatsIn(Len(prefix)) : f # g
    \/ \E l, m \in LevelsIn(Len(prefix)) : l # m

InputInv ==
    /\ IsConfiguration(store) /\ IsFlagPrefix(prefix) /\ IsRequest(request)
    /\ sel = [format |-> sel.format, level |-> sel.level, error |-> sel.error]
    /\ sel.error \in BOOLEAN

FlagsInv ==
    pc \in {"flags", "prepare"} =>
        IF sel.error THEN Misunderstood
        ELSE \E k \in 0..Len(prefix) :
                Understood(k) /\ (pc = "prepare" => k = Len(prefix))

-----------------------------------------------------------------------------
(* What the answer a to the request r owes to the configuration s *)

Refers(r, n) == r.ref # Unset /\ Len(r.ref) = n /\ r.ref[1] \in Domain

\* A name is refused as ambiguous or as published twice exactly if it is.
RefusalFits(s, r, a) ==
    /\ a.why = "ambiguous" =>
          Refers(r, 2) /\ Ambiguous(s, r.ref[1], r.ref[2])
    /\ a.why = "duplicate" =>
          Refers(r, 2) /\ Duplicate(s, r.ref[1], r.ref[2])
    /\ a.kind # "refused" /\ r.command \in {"discover", "plan"} /\ Refers(r, 2)
       => /\ ~Ambiguous(s, r.ref[1], r.ref[2])
          /\ ~Duplicate(s, r.ref[1], r.ref[2])

\* References that every configuration they come from leads somewhere.
Settled(s, f) ==
    f = Unset \/ (\E d \in Domain : f = <<d>>) \/ \E x \in s.actions : f = Source(x)

Published(s, f) ==
    \E d \in Domain, n \in Name : Matches(s, d, n) # {} /\ f = <<d, n>>

\* What the refusal of a reference offers, and which references it refuses.
OffersFit(s, r, a) ==
    a.why \in Lost => \A m \in a.moves :
        /\ m.command = "discover"
        /\ \/ Settled(s, m.ref)
           \/ a.why = "ambiguous" /\ m.ref = r.ref
           \/ a.why = "unscoped" /\ Published(s, m.ref)

RefIsFound(s, r, a) ==
    r.command = "discover" /\ a.why \in Lost =>
        /\ ~Settled(s, r.ref)
        /\ Published(s, r.ref) => a.why \in {"ambiguous", "duplicate"}

\* Refused before the command was looked at.
Unread == {"configuration", "format", "flags"}

\* An action does the same under each name that denotes it.
Denotes(x, r) ==
    /\ r.command = "discover" /\ r.id = Unset /\ "--id" \notin Range(r.args)
    /\ \/ r.ref = Source(x)
       \/ x.shortcut /\ r.ref = <<x.domain, x.public>>

Ran(x, words, a) ==
    IF x.query = "yes" /\ words = <<>> THEN a.kind = "interface" /\ a.why = Unset
    ELSE IF ~DeclaredArgs(x, words) THEN a.kind = "refused" /\ a.why = "arguments"
    ELSE /\ a.kind = "called" /\ a.why = Unset
         /\ a.call.domain = x.domain /\ a.call.subdomain = x.subdomain
         /\ a.call.verb = x.entry /\ a.call.words = words /\ a.call.values = {}

ActionRan(s, r, a) ==
    \A x \in s.actions :
        Declared(x) /\ <<x.domain, x.subdomain>> \in s.online /\ Denotes(x, r) =>
            \/ a.why \in Unread \cup {"ambiguous", "duplicate"}
            \/ "discover" \notin s.main \cap s.mapped /\ a.why = "command"
            \/ Ran(x, r.args, a)

\* What an answer to an action offers is the action's other name.
SynonymsFit(s, r, a) ==
    a.kind \in {"called", "interface"} =>
        /\ a.why = Unset
        /\ \A m \in a.moves :
              /\ "discover" \in s.main \cap s.mapped
              /\ m.command = "discover" /\ m.id = Unset /\ m.args = r.args
              /\ \E x \in s.actions : /\ Denotes(x, r) /\ Denotes(x, m)
                                      /\ {m.ref, r.ref} = {Source(x), <<x.domain, x.public>>}

\* The object v is observed alike by --id and by its place.
Observes(s, r, v) ==
    /\ r.command = "observe" /\ Refers(r, 2)
    /\ r.ref[2] \in s.subdomains[r.ref[1]]
    /\ r.args \in {<<v>>, <<"--id", v>>}
    /\ v \notin {Artifact, Result} \cup Dash

ObservedAs(s, d, sub, v, a) ==
    LET acts    == ActionsAt(s, d, sub, "observe")
        options == TargetOptions(s, d, sub, acts, "observe")
    IN  IF ~OptionsUsable(s, d, sub, acts, "observe") \/ \E o \in options : o.required
        THEN a.kind = "refused" /\ a.why = "arguments"
        ELSE IF <<d, sub>> \notin s.online THEN a.kind = "offline" /\ a.why = Unset
        ELSE /\ a.kind = "called" /\ a.why = Unset
             /\ a.call.domain = d /\ a.call.subdomain = sub
             /\ a.call.verb = "observe" /\ a.call.words = <<v>> /\ a.call.values = {}

ObjectObserved(s, r, a) ==
    \A v \in Range(r.args) : Observes(s, r, v) =>
        \/ a.why \in Unread
        \/ /\ "observe" \notin s.main \cap s.mapped
           /\ a.kind = "refused" /\ a.why = "command"
        \/ /\ "observe" \in s.main \cap s.mapped
           /\ ObservedAs(s, r.ref[1], r.ref[2], v, a)

\* Only the handle of a result is offered to be observed.
Offered(m) == IsRequest(m) /\ (m.command = "observe" => m.ref = <<Result>>)

Answered(s, r, a) ==
    /\ \A m \in a.moves : Offered(m)
    /\ RefusalFits(s, r, a) /\ OffersFit(s, r, a) /\ RefIsFound(s, r, a)
    /\ ActionRan(s, r, a) /\ SynonymsFit(s, r, a) /\ ObjectObserved(s, r, a)

-----------------------------------------------------------------------------
\* A command is answered from the words written behind the prefix.
RouteInv ==
    /\ pc \in {"flags", "prepare", "admit", "discover", "observe", "plan",
               "elsewhere", "done"}
    /\ pc \in {"admit", "discover", "observe", "plan", "elsewhere"} =>
          argv = Written(request)
    /\ pc \in {"discover", "observe", "plan"} =>
          request.command = pc /\ pc \in store.main \cap store.mapped
    /\ pc = "elsewhere" => request.command \notin {"discover", "observe", "plan"}
    /\ pc # "done" => answer = NoAnswer
    /\ pc = "done" => /\ Answered(store, request, answer)
                      /\ answer.why = "flags" => Misunderstood

\* A second invocation stems from the answer to the first.
Rephrased(r, p) ==
    /\ p.command = "observe" /\ r.command = "observe" /\ r.ref = p.ref
    /\ \E v \in Range(r.args) : p.args = <<"--id", v>> /\ r.args = <<v>>

HistoryInv ==
    previous # Unset =>
        /\ prefix = <<>> /\ IsRequest(previous.request)
        /\ Answered(store, previous.request, previous.answer)
        /\ \/ request \in previous.answer.moves
           \/ Rephrased(request, previous.request)

(* The flags selected are those read so far, each answer and the answer    *)
(* before it fit the references they answer, and a second invocation says  *)
(* what the first offered or says the same in other words.                 *)
InvocationInv == InputInv /\ FlagsInv /\ RouteInv /\ HistoryInv

-----------------------------------------------------------------------------
\* What PlanIsChecked says of a call for the action x.
Checked(s, x, words, call) ==
    LET options == PlanOptions(s, x)
        given   == {v.flag : v \in call.values}
        behindDisputed(w) ==
            \E i \in DOMAIN words, j \in DOMAIN words :
                j < i /\ words[i] = w /\ Disputed(x, options, words[j])
    IN  /\ \A o \in options : o.required /\ ~Boolean(o) => o.flag \in given
        /\ \A v \in call.values : \E o \in options :
              o.flag = v.flag /\ WithinBounds(o, v.value)
        /\ \A o, p \in options :
              {o.flag, p.flag} \subseteq given /\ o.group # Unset
                /\ o.group = p.group => o = p
        /\ \A w \in Range(call.words) :
              ArbitraryWords(x) \/ w \in x.prefixed \/ behindDisputed(w)

PlanCalls ==
    answer.kind = "called" /\ request.command = "plan" =>
        \E x \in Plannable : Checked(store, x, args, answer.call)

\* The actions whose declaration stands for the words of a call.
Contracts ==
    IF answer.call.via = "discover" THEN ActionsAt(store, ref[1], ref[2], "discover")
    ELSE Named \cup (IF InAction THEN ActionsAt(store, ref[1], ref[2], ref[3]) ELSE {})

DiscoverCalls ==
    answer.kind = "called" /\ request.command = "discover" =>
        /\ answer.call.words = args
        /\ \A x \in Contracts : DeclaredArgs(x, args)
        /\ answer.projection # Unset => \E x \in Contracts :
              answer.projection = SelectedProjection(x, args)

(* Nothing is called before its words were judged by the declaration of    *)
(* the action that is called: for a plan as PlanIsChecked says, and for a  *)
(* discovery by every action the words may stand for.  The projection      *)
(* reported is one that such an action selects.                            *)
CallsInv == PlanCalls /\ DiscoverCalls

=============================================================================
