------------------------------- MODULE MCAudit -------------------------------
(* A TLC instance of Audit and Repair: two domains with three subdomains.  A list of  *)
(* two checks is enough for one to hide the other.                         *)
EXTENDS Repair

CONSTANTS game, files, choose, submit, home

Domains  == {game, files}
Surfaces == <<choose, submit, home>>
Domainof == (choose :> game) @@ (submit :> game) @@ (home :> files)

Everything == Domains \cup Range(Surfaces)

Availabilities ==
    {[x \in Everything |-> "online"],
     [x \in Everything |-> IF x = game THEN "offline" ELSE "online"],
     [x \in Everything |-> IF x = submit THEN "down_for_maintenance"
                           ELSE "online"],
     [x \in Everything |-> IF x \in {files, home} THEN "offline"
                           ELSE "online"]}

PathSets == {{}, {game}, {submit, home}}

NoneOrOne == {{}, {"command_surface"}}

Lists == {<<>>, <<"pass", "invalid">>, <<"fail", "warn">>} \cup
         {<<word>> : word \in {"pass", "warning", "skip", "unmapped"}}

Replies ==
    {[form |-> f, marked |-> m, checks |-> <<>>] :
        f \in {"missing", "no_list"}, m \in BOOLEAN}
    \cup {[form |-> "list", marked |-> m, checks |-> l] :
             m \in BOOLEAN, l \in Lists}
    \cup {[form |-> "raises", marked |-> FALSE, checks |-> <<>>]}

=============================================================================
