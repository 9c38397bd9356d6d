---------------------------- MODULE MCInvocation ----------------------------
(* A TLC instance of Invocation.  Two domains with three subdomains carry  *)
(* one action of every sort; the faulty configurations differ from the     *)
(* sound one by a name, a status or an option.                             *)
EXTENDS InvocationInvariant

Domains == {"hub", "lab"}
Names == {"market", "filing", "search", "list", "observe", "discover",
          "guess", "open", "find"}

Longs == {"--", "--shape", "--id", "--limit", "--cursor", "--projection",
          "--status", "--bars", "--days", "--dry", "--number", "--mode",
          "--bars=1", "--dry=1", "--id=obj", "--detail", "--detail-level",
          "--json", "--yaml", "--basic", "--more", "--max"}
Dashes == Longs \cup {"-x"}
Inlines == ("--bars=1" :> [flag |-> "--bars", value |-> "1"])
           @@ ("--dry=1" :> [flag |-> "--dry", value |-> "1"])
           @@ ("--id=obj" :> [flag |-> "--id", value |-> "obj"])
Numerals == ("0" :> 0) @@ ("1" :> 1) @@ ("3" :> 3)

-----------------------------------------------------------------------------
Option(flag, kind) ==
    [flag |-> flag, kind |-> kind, min |-> Unset, max |-> Unset,
     choices |-> {}, group |-> Unset, default |-> Unset, required |-> FALSE,
     commands |-> {}]

Action(d, s, id) ==
    [domain |-> d, subdomain |-> s, id |-> id, public |-> id,
     named |-> Unset, shortcut |-> FALSE, entry |-> Unset, query |-> Unset,
     arbitrary |-> Unset, prefixed |-> {}, declares |-> {},
     collection |-> Unset, projections |-> {}, projection |-> Unset,
     options |-> {}, planned |-> FALSE, preflight |-> FALSE]

Search(public) ==
    [Action("hub", "market", "search") EXCEPT
        !.public = public, !.named = public, !.shortcut = TRUE,
        !.entry = "lookup", !.query = "yes"]

List ==
    [Action("hub", "market", "list") EXCEPT
        !.entry = "ls", !.query = "no", !.declares = {"--status"},
        !.collection = [cursor |-> TRUE, max |-> 1],
        !.projections = {"compact", "full"}, !.projection = "compact"]

Range0 == {[Option("--bars", "int") EXCEPT !.min = 1, !.group = "window"],
           [Option("--days", "int") EXCEPT !.group = "window"],
           Option("--dry", "bool")}

Watch == [Action("hub", "market", "observe") EXCEPT !.options = Range0]

Browse ==
    [Action("hub", "filing", "discover") EXCEPT
        !.arbitrary = "yes",
        !.collection = [cursor |-> FALSE, max |-> Unset],
        !.projections = {"compact", "full"}, !.projection = "compact"]

ForPlan == {[Option("--number", "int") EXCEPT !.required = TRUE, !.max = 1,
                                              !.commands = {"plan"}],
            [Option("--mode", "str") EXCEPT !.choices = {"fast", "slow"},
                              !.group = "how", !.commands = {"plan"}],
            [Option("--days", "int") EXCEPT !.group = "how",
                                            !.commands = {"plan"}],
            [Option("--dry", "bool") EXCEPT !.commands = {"plan"}]}

Guess ==
    [Action("hub", "filing", "guess") EXCEPT
        !.shortcut = TRUE, !.query = "no", !.prefixed = {"obj"},
        !.options = ForPlan, !.planned = TRUE, !.preflight = TRUE]

Open == [Action("lab", "market", "open") EXCEPT !.shortcut = TRUE]

Sound ==
    [subdomains |-> [d \in Domains |-> IF d = "hub" THEN {"market", "filing"}
                                       ELSE {"market"}],
     actions |-> {Search("find"), List, Watch, Browse, Guess, Open},
     options |-> [p \in Domains \X {"market", "filing"} |-> {}],
     online |-> Domains \X {"market", "filing"},
     format |-> "jsonl", formats |-> {"jsonl", "yaml"},
     main |-> Core, mapped |-> Core,
     other |-> {"other"}, mappedOther |-> {"other"}]

With(actions) == [Sound EXCEPT !.actions = actions]

Ambiguity   == With({Search("filing"), Browse, Guess})
Duplication == With({Search("guess"), Browse, Guess})
Outage      == [Sound EXCEPT !.online = {<<"hub", "market">>}]
Defaulting  == With({Browse, [Guess EXCEPT !.options =
    {IF o.flag = "--days" THEN [o EXCEPT !.default = "3", !.max = 1]
     ELSE IF o.flag = "--mode" THEN [o EXCEPT !.default = "fast", !.group = Unset]
     ELSE o : o \in ForPlan}]})
Freer       == With({[Browse EXCEPT !.projection = "full"],
    [Guess EXCEPT !.options = {[o EXCEPT !.choices = {}, !.required = FALSE] :
                                  o \in ForPlan}]})
Collision   == [Sound EXCEPT !.options[<<"hub", "market">>] =
    {[Option("--bars", "int") EXCEPT !.commands = {"observe"}]}]
Curtailed   == [Sound EXCEPT !.formats = {"jsonl"},
                             !.main = {"discover", "audit", "guess"},
                             !.mapped = {"discover", "guess"}, !.other = {}]

-----------------------------------------------------------------------------
Ask(command, r, words) == {Move(command, r, a) : a \in words}

Strings(words, n) == UNION {[1..k -> words] : k \in 0..n}

Refs == {<<d>> : d \in {"hub", "find", "guess", "handle", "result"}}
        \cup {<<"hub", t>> : t \in {"market", "filing", "find", "guess", "open"}}
        \cup {<<"hub", s, a>> : s \in {"market", "filing", "open"},
                                a \in {"search", "list", "guess", "open"}}
        \cup {<<"lab", "open">>, <<"lab", "market", "open">>, <<"nil", "open">>}

Anything ==
    UNION {Ask(c, r, {<<>>, <<"obj">>, <<"search">>, <<"lookup">>, <<"-x">>,
                      <<"--id", "obj">>}) :
              c \in {"discover", "observe", "plan"}, r \in Refs}
    \cup {[Move("discover", r, <<>>) EXCEPT !.id = i] :
             r \in {Unset, <<"hub">>}, i \in {"handle", "result", "obj"}}

Listing == Ask("discover", <<"hub", "market", "list">>,
               Strings({"--limit", "--projection", "--cursor", "--status",
                        "full", "1", "3"}, 4))

Browsing == Ask("discover", <<"hub", "filing">>,
                Strings({"--limit", "--projection", "--shape", "compact",
                         "full", "1", "guess"}, 4))

Watching == Ask("observe", <<"hub", "market">>,
                Strings({"--id", "--id=obj", "obj", "--bars", "--days",
                         "--bars=1", "--dry=1", "--dry", "1", "0", "--"}, 3)
                \cup {<<"--id", i>> : i \in {"handle", "result", "-x"}})

PlanWords == {"--number", "--mode", "--days", "--dry", "fast", "1", "3", "obj"}

Planning == Ask("plan", <<"hub", "guess">>,
                Strings(PlanWords, 3)
                \cup {<<"--number", "1">> \o rest : rest \in Strings(PlanWords, 4)})

Commands == {Move(c, Unset, <<>>) : c \in Core \cup
                {Unset, "other", "guess", "--version"}}

FlagPrefixes == {p \in Strings(GlobalFlags \cup {"more"}, 3) : IsFlagPrefix(p)}

Case(stores, prefixes, requests) ==
    [stores |-> stores, prefixes |-> prefixes, requests |-> requests]

AllCases ==
    {Case({Sound, Ambiguity, Duplication, Outage}, {<<>>}, Anything),
     Case({Sound}, {<<>>}, Listing \cup Browsing \cup Watching),
     Case({Sound, Defaulting}, {<<>>}, Planning),
     Case({Freer}, {<<>>},
          Ask("plan", <<"hub", "guess">>, Strings(PlanWords, 4))
             \cup {r \in Browsing : Len(r.args) < 3}),
     Case({Collision}, {<<>>}, {r \in Watching : Len(r.args) < 2}),
     Case({Sound}, FlagPrefixes, {Move("discover", <<"hub">>, <<"--json">>),
                                  Move(Unset, Unset, <<>>)}),
     Case({Sound, Curtailed}, {<<>>, <<"--yaml">>}, Commands)}

=============================================================================
