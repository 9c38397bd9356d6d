----------------------------- MODULE PlanBinding -----------------------------
(***************************************************************************)
(* How an execute is bound to the configuration its plan was made from,    *)
(* and the whole life of a read-only plan.                                 *)
(*                                                                         *)
(* Every xctx process first loads the YAML files one by one into its store *)
(* and works on what it has loaded.  The fingerprint that binds an execute *)
(* to its plan is taken later, by reading the same files again, and each   *)
(* process takes its own.  An operator may edit the files at any time.     *)
(*                                                                         *)
(* All executes here carry --commit; a plan with a planned effect goes on  *)
(* from Decide as PlannedEffect says.                                      *)
(*                                                                         *)
(* Sources: libs/xctx/config/loader.py, store/fingerprints.py,             *)
(* store/plans.py, domain/planning_common.py, planning_ledger.py,          *)
(* planning_read_only.py, planning_read_only_execution.py,                 *)
(* planning_execute.py.                                                    *)
(***************************************************************************)
EXTENDS Naturals, Sequences

CONSTANTS
    Executor,   \* the `execute <PLAN_ID> --commit` processes
    File,       \* the configuration files
    Content,    \* what a file may hold
    LoadOrder,  \* the order load_store reads them in
    HashOrder,  \* the order config_file_snapshots reads them in: by path
    MaxEdits    \* bound of the model: how often files are edited

Enumerates(order) ==
    /\ order \in Seq(File)
    /\ \A f \in File : \E i \in 1..Len(order) : order[i] = f

ASSUME FilesAssumption ==
    /\ File # {}
    /\ Content # {}
    /\ Enumerates(LoadOrder)
    /\ Enumerates(HashOrder)
    /\ MaxEdits \in Nat
    /\ "planner" \notin Executor

VARIABLES
    disk,       \* the files
    edits,      \* how often they were edited
    record,     \* the plan record
    pc,         \* where each process is, or how it ended
    at,         \* the position of the file it reads next
    loaded,     \* its store
    hashed,     \* the fingerprint, which stands for the bytes it was made of
    copy,       \* the record an execute has resolved, as record
    disturbed,  \* a file was edited while the process was reading (history)
    late        \* the plan was committed when the execute began (history)

local == <<pc, at, loaded, hashed, copy, late>>

vars == <<disk, edits, record, local, disturbed>>

Process == {"planner"} \cup Executor

Refused == {"config_error", "stale_plan_context", "plan_already_committed"}

Pc == {"idle", "load", "resolve", "hash", "record", "planned", "decide",
       "mark", "accepted", "store_error", "crashed"} \cup Refused

Done == Refused \cup {"planned", "accepted", "store_error", "crashed"}

Snapshot == [File -> Content]

Record == [status : {"absent", "planned", "committed"}, context : Snapshot]

TypeOK ==
    /\ disk \in Snapshot
    /\ edits \in 0..MaxEdits
    /\ record \in Record
    /\ pc \in [Process -> Pc]
    /\ at \in [Process -> Nat]
    /\ loaded \in [Process -> Snapshot]
    /\ hashed \in [Process -> Snapshot]
    /\ copy \in [Executor -> Record]
    /\ disturbed \in [Process -> BOOLEAN]
    /\ late \in [Executor -> BOOLEAN]

(* Before a process has read a file its snapshots mean nothing, nor does   *)
(* the context of an absent record.                                        *)
Init ==
    /\ disk \in Snapshot
    /\ edits = 0
    /\ record = [status |-> "absent", context |-> disk]
    /\ pc = [p \in Process |-> "idle"]
    /\ at = [p \in Process |-> 1]
    /\ loaded = [p \in Process |-> disk]
    /\ hashed = [p \in Process |-> disk]
    /\ copy = [e \in Executor |-> record]
    /\ disturbed = [p \in Process |-> FALSE]
    /\ late = [e \in Executor |-> FALSE]

-----------------------------------------------------------------------------
Goto(p, from, to) ==
    /\ pc[p] = from
    /\ pc' = [pc EXCEPT ![p] = to]

\* Read the next file of an order; after the last one go on to `next`.
ReadNext(p, here, order, next) ==
    /\ Goto(p, here, IF at[p] = Len(order) THEN next ELSE here)
    /\ at' = [at EXCEPT ![p] = IF at[p] = Len(order) THEN 1 ELSE @ + 1]

(* A plan id holds a nonce: nobody can execute it before `plan` has        *)
(* printed it.                                                             *)
Begin(p) ==
    /\ p # "planner" => pc["planner"] = "planned"
    /\ Goto(p, "idle", "load")
    /\ late' = [e \in Executor |->
                    IF e = p THEN record.status = "committed" ELSE late[e]]
    /\ UNCHANGED <<disk, edits, record, at, loaded, hashed, copy, disturbed>>

(* load_store                                                              *)
Load(p) ==
    /\ ReadNext(p, "load", LoadOrder,
                IF p = "planner" THEN "hash" ELSE "resolve")
    /\ loaded' = [loaded EXCEPT ![p][LoadOrder[at[p]]] =
                                                disk[LoadOrder[at[p]]]]
    /\ UNCHANGED <<disk, edits, record, hashed, copy, late, disturbed>>

(* A file that does not parse, or files that do not fit together.          *)
LoadFails(p) ==
    /\ Goto(p, "load", "config_error")
    /\ UNCHANGED <<disk, edits, record, at, loaded, hashed, copy, late,
                   disturbed>>

\* Mutation check of Hash: the last file is left out of the fingerprint.
HashSkipsLast(p) ==
    /\ ReadNext(p, "hash", HashOrder,
                IF p = "planner" THEN "record" ELSE "decide")
    /\ hashed' = [hashed EXCEPT ![p][HashOrder[at[p]]] =
                     IF at[p] < Len(HashOrder) THEN disk[HashOrder[at[p]]]
                     ELSE CHOOSE c \in Content : TRUE]
    /\ UNCHANGED <<disk, edits, record, loaded, copy, late, disturbed>>

(* config_fingerprint_payload                                              *)
Hash(p) ==
    /\ ReadNext(p, "hash", HashOrder,
                IF p = "planner" THEN "record" ELSE "decide")
    /\ hashed' = [hashed EXCEPT ![p][HashOrder[at[p]]] =
                                                disk[HashOrder[at[p]]]]
    /\ UNCHANGED <<disk, edits, record, loaded, copy, late, disturbed>>

-----------------------------------------------------------------------------
(* read_only_plan_payload, and the last write of every other plan.         *)
RecordPlan ==
    /\ Goto("planner", "record", "planned")
    /\ record' = [status |-> "planned", context |-> hashed["planner"]]
    /\ UNCHANGED <<disk, edits, at, loaded, hashed, copy, late, disturbed>>

(* resolve_plan: the execute keeps this copy of the record.  What a power  *)
(* loss can do to the record is left to PlannedEffect.                     *)
Resolve(e) ==
    /\ Goto(e, "resolve", "hash")
    /\ copy' = [copy EXCEPT ![e] = record]
    /\ UNCHANGED <<disk, edits, record, at, loaded, hashed, late, disturbed>>

ContextMatches(e) == copy[e].context = hashed[e]

\* Mutation check of Decide: the ledger status is not looked at.
DecideWithoutLedger(e) ==
    /\ Goto(e, "decide",
            IF ContextMatches(e) THEN "mark" ELSE "stale_plan_context")
    /\ UNCHANGED <<disk, edits, record, at, loaded, hashed, copy, late,
                   disturbed>>

(* execute_payload, on the copy.                                           *)
Decide(e) ==
    /\ \/ /\ ~ContextMatches(e)
          /\ Goto(e, "decide", "stale_plan_context")
       \/ /\ ContextMatches(e) /\ copy[e].status = "committed"
          /\ Goto(e, "decide", "plan_already_committed")
       \/ /\ ContextMatches(e) /\ copy[e].status # "committed"
          /\ Goto(e, "decide", "mark")
    /\ UNCHANGED <<disk, edits, record, at, loaded, hashed, copy, late,
                   disturbed>>

(* execute_read_only_plan and mark_plan_committed, which replaces the      *)
(* record by the copy whatever the record is by now.                       *)
MarkCommitted(e) ==
    /\ Goto(e, "mark", "accepted")
    /\ record' = [copy[e] EXCEPT !.status = "committed"]
    /\ UNCHANGED <<disk, edits, at, loaded, hashed, copy, late, disturbed>>

(* The write of the record raises.                                         *)
WriteFails(p) ==
    /\ \/ p = "planner" /\ Goto(p, "record", "store_error")
       \/ Goto(p, "mark", "store_error")
    /\ UNCHANGED <<disk, edits, record, at, loaded, hashed, copy, late,
                   disturbed>>

Crash(p) ==
    /\ pc[p] \notin Done
    /\ pc' = [pc EXCEPT ![p] = "crashed"]
    /\ UNCHANGED <<disk, edits, record, at, loaded, hashed, copy, late,
                   disturbed>>

-----------------------------------------------------------------------------
\* From the first file loaded to the last one hashed.
Reading(p) == \/ pc[p] = "load" /\ at[p] > 1
              \/ pc[p] \in {"resolve", "hash"}

(* The operator changes a file, or changes it back.                        *)
Edit(f, c) ==
    /\ edits < MaxEdits
    /\ disk[f] # c
    /\ disk' = [disk EXCEPT ![f] = c]
    /\ edits' = edits + 1
    /\ disturbed' = [p \in Process |-> disturbed[p] \/ Reading(p)]
    /\ UNCHANGED <<record, local>>

Next ==
    \/ \E p \in Process :
          Begin(p) \/ Load(p) \/ LoadFails(p) \/ Hash(p) \/ WriteFails(p)
            \/ Crash(p)
    \/ RecordPlan
    \/ \E e \in Executor : Resolve(e) \/ Decide(e) \/ MarkCommitted(e)
    \/ \E f \in File, c \in Content : Edit(f, c)

Spec == Init /\ [][Next]_vars

-----------------------------------------------------------------------------
\* The fingerprints have been compared; they were found equal.
Compared(e) == pc[e] \in {"mark", "accepted", "plan_already_committed",
                          "stale_plan_context"}
Bound(e)    == Compared(e) /\ pc[e] # "stale_plan_context"

SameSurface(e) == loaded[e] = loaded["planner"]

(* If nobody edits while the planner reads, nor while this execute reads,  *)
(* the execute is bound exactly if it runs on the configuration the plan   *)
(* was made from, whatever was edited and restored in between.             *)
QuietBinding ==
    \A e \in Executor :
        Compared(e) /\ ~disturbed[e] /\ ~disturbed["planner"]
            => (Bound(e) <=> SameSurface(e))

(* An execute that begins after the plan was committed is never accepted.  *)
SequentialOneShot == \A e \in Executor : late[e] => pc[e] # "accepted"

(* An accepted execute runs on the configuration the plan was made from,   *)
(* also when files are edited under the processes.                         *)
BindingProven == \A e \in Executor : pc[e] = "accepted" => SameSurface(e)

=============================================================================
