-------------------------------- MODULE Repair --------------------------------
(***************************************************************************)
(* `xctx repair` of what an audit has found.  The audit and the repair are *)
(* two processes, each with the configuration as it finds it, and between  *)
(* them an operator edits the configuration: a target changes its status,  *)
(* gets or loses a repair path, or disappears.                             *)
(*                                                                         *)
(* Sources: libs/xctx/domain/repair.py, commands/repair.py and             *)
(* availability_findings in domain/audit.py.                               *)
(***************************************************************************)
EXTENDS Audit

CONSTANTS
    Paths,      \* bound of the model: which targets may have a repair path
    MaxEdits    \* bound of the model: edits between the audit and the repair

ASSUME RepairAssumption ==
    Paths \subseteq SUBSET (Domain \cup Subdomain) /\ MaxEdits \in Nat

VARIABLES
    now,        \* the status of every target, as the next command finds it
    present,    \* the targets that are configured
    path,       \* those with a repair path
    noted,      \* the findings of the last audit
    fresh,      \* nothing was edited since
    edits,
    repair      \* the request for a repair, and its answer

repairVars == <<now, present, path, noted, fresh, edits, repair>>

Target == Domain \cup Subdomain

Move(command, st, x) == [command |-> command, status |-> st, of |-> x]

NoRepair == [asked |-> <<>>, answer |-> "none", moves |-> {}]

RepairInit ==
    /\ Init
    /\ now = status
    /\ present = Target
    /\ path \in Paths
    /\ noted = {}
    /\ fresh = TRUE
    /\ edits = 0
    /\ repair = NoRepair

-----------------------------------------------------------------------------
(* availability_findings: the id of a finding is its status and target.    *)
Finding(x, st) == [status |-> st[x], of |-> x, repairable |-> x \in path]

\* What an audit of the root finds now.
Current == {Finding(x, now) : x \in {y \in present : now[y] # "online"}}

AuditStep ==
    /\ Next
    /\ noted' = IF pc' = "published"
                THEN {Finding(x, status) : x \in verdict'.findings} ELSE noted
    /\ UNCHANGED <<now, present, path, fresh, edits, repair>>

\* An agent that goes on to a repair has asked no connector, which would make
\* no difference to the findings.
Ready == pc = "published" /\ lane = "framework"

\* The next move of a repair that is refused.
AuditAgain ==
    /\ Ready /\ Move("audit", "", "root") \in repair.moves
    /\ noted' = Current
    /\ fresh' = TRUE
    /\ repair' = NoRepair
    /\ UNCHANGED <<vars, now, present, path, edits>>

(* The operator edits the files of one target, or deletes them.            *)
Edit ==
    /\ Ready /\ edits < MaxEdits
    /\ \E x \in present :
          \/ \E s \in {"online", "offline", "down_for_maintenance"} :
                /\ now' = [now EXCEPT ![x] = s]
                /\ path' \in {path \cup {x}, path \ {x}}
                /\ present' = present
          \/ /\ present' = present \ ({x} \cup {s \in Subdomain : DomainOf[s] = x})
             /\ UNCHANGED <<now, path>>
    /\ edits' = edits + 1
    /\ fresh' = FALSE
    /\ repair' = NoRepair
    /\ UNCHANGED <<vars, noted>>

-----------------------------------------------------------------------------
\* Mutation check of Resolves: a finding is taken for what it says.
ResolvesAnyFinding(id) == id.of \in present

(* _resolve_repair_target of a finding id, or of a bare target, which      *)
(* names no status.                                                        *)
Resolves(id) == id.of \in present /\ id.status \in {"", now[id.of]}

\* repair_payload
RepairAnswer(x) ==
    CASE now[x] = "down_for_maintenance"      -> "down_for_maintenance"
      [] now[x] = "offline" /\ x \notin path  -> "no_repair_path"
      [] now[x] = "offline" /\ x \in path     -> "path"
      [] OTHER                                -> "unnecessary"

\* The next moves of repair_payload and of the refusals.
RepairMoves(id, answer) ==
    CASE answer = "refused"     -> {Move("audit", "", "root")}
      [] answer = "path"        -> {Move("repair", id.status, id.of),
                                    Move("audit", "", id.of)}
      [] answer = "unnecessary" -> {Move("discover", "", id.of)}
      [] OTHER                  -> {}

RepairOf(id) ==
    /\ Ready /\ repair = NoRepair
    /\ LET answer == IF Resolves(id) THEN RepairAnswer(id.of) ELSE "refused"
       IN  repair' = [asked |-> <<id>>, answer |-> answer,
                      moves |-> RepairMoves(id, answer)]
    /\ UNCHANGED <<vars, now, present, path, noted, fresh, edits>>

RepairNext ==
    \/ AuditStep \/ Edit \/ AuditAgain
    \/ \E f \in noted : RepairOf(f)
    \/ \E x \in Target : RepairOf([status |-> "", of |-> x])

RepairSpec == RepairInit /\ [][RepairNext]_<<vars, repairVars>>

-----------------------------------------------------------------------------
(* Audit and repair agree on what there is to repair, although each looks  *)
(* at its own copy of the configuration: the id of a finding is accepted   *)
(* exactly as long as an audit would still report the target with that     *)
(* status, so that no repair is offered for what has recovered or is now   *)
(* broken in another way; and unless somebody edits the configuration in   *)
(* between, what the finding calls repairable has a repair path to offer   *)
(* and nothing else has.  (A target down for maintenance must not have a   *)
(* repair path; only the development checker looks after that.)            *)
RepairFitsFinding ==
    \A f \in noted : repair.asked = <<f>> =>
        /\ repair.answer # "refused" <=>
              \E g \in Current : g.status = f.status /\ g.of = f.of
        /\ fresh /\ (f.status = "down_for_maintenance" => ~f.repairable) =>
              (repair.answer = "path" <=> f.repairable)

=============================================================================
