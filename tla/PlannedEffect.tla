---------------------------- MODULE PlannedEffect ----------------------------
(***************************************************************************)
(* The life of one planned effect of xctx: `xctx plan` materialises a      *)
(* bundle of files and a plan record; any number of `xctx execute          *)
(* <PLAN_ID> --commit` processes then race for the right to run the scoped *)
(* adapter once and to record what came of it.                             *)
(*                                                                         *)
(* Every process is an operating-system process of its own.  They share    *)
(* nothing but the files of the runtime directory, and every file of a     *)
(* plan is named by the plan's receipt, so one receipt is a whole system.  *)
(* One action is one read or one atomic write of one file; between any two *)
(* of them another process may run, the process may be killed, a write may *)
(* raise, or the machine may lose power.                                   *)
(*                                                                         *)
(* Sources: libs/xctx/domain/planning_execute.py and                       *)
(* planning_planned_effect_{preflight,start,execution,terminal}.py,        *)
(* planning_commit_state.py, planning_materialization.py,                  *)
(* planning_ledger.py, store/runtime_artifacts.py, store/plans.py.         *)
(***************************************************************************)

EXTENDS Naturals, Sequences

CONSTANTS
    Executor,               \* the `execute --commit` processes of this plan
    AdapterOutlivesTimeout, \* TRUE: the adapter runs in a session of its own
                            \* (a pass-through target), so the kill of the
                            \* connector supervisor does not reach it
    NoLongPause             \* TRUE: nobody is held up for long: from the last
                            \* heartbeat of an owner that lives, by way of a
                            \* reader's copy of its claim, to the reader's
                            \* look at the clock is at most an hour.  FALSE:
                            \* an owner or a reader may be suspended, or the
                            \* wall clock may jump

ASSUME ConstantsAssumption ==
    /\ AdapterOutlivesTimeout \in BOOLEAN
    /\ NoLongPause \in BOOLEAN

VARIABLES
    planner,       \* the file the `plan` command writes next, or how it ended
    ledger,        \* the status each file of the receipt shows to a reader
    syncedRecord,  \* the plan record a power loss is sure to leave
    pc,            \* where each executor is, or what it answered
    seenRecord,    \* the execution_status in an executor's copy of the plan
    seenEvidence,  \* an executor saw a commit or a result file
    seenClaim,     \* the status in an executor's copy of the claim
    mayBeOld,      \* the executors whose copy may carry a heartbeat over an
                   \* hour old when they come to judge it
    verdict,       \* the terminal result status an owner is recording
    adapter,       \* the adapter process started for this plan
    reply,         \* what the adapter process printed
    applied,       \* the adapter has performed the effect
    invocations    \* the executors that started the adapter (history)

environment == <<planner, syncedRecord>>
claimCopy   == <<seenClaim, mayBeOld>>
localCopies == <<seenRecord, seenEvidence, claimCopy, verdict>>
adapterVars == <<adapter, reply, applied, invocations>>

vars == <<environment, localCopies, adapterVars, ledger, pc>>

-----------------------------------------------------------------------------
(* The files of a receipt and the statuses each one takes.                 *)

File == {"plan", "plan_manifest", "master_plan", "sub_plan",
         "commit", "result", "claim"}

BundleFile == {"plan_manifest", "master_plan", "sub_plan"}

\* A record that a reader cannot parse is an unknown plan to resolve_plan.
RecordStatus   == {"absent", "planned", "committed", "unreadable"}
ManifestStatus == {"absent", "complete"}
BundleStatus   == {"absent", "planned", "committing", "committed"}
CommitStatus   == {"absent", "claimed", "running", "committed", "failed"}
ResultStatus   == {"absent", "running", "ready", "failed"}

\* "empty": created with O_EXCL but not yet filled, unreadable to everyone.
ClaimStatus == {"absent", "empty", "claimed", "running", "finalizing",
                "succeeded", "failed", "abandoned"}

Status == RecordStatus \cup ManifestStatus \cup BundleStatus
            \cup CommitStatus \cup ResultStatus \cup ClaimStatus

TERMINAL_CLAIM_STATUSES == {"succeeded", "failed"}
TerminalResult          == {"ready", "failed"}

(* The executor's control points, and the answers it ends with.            *)

ReadingPc == {"bind", "verify", "read_commit", "read_result", "read_claim",
              "judge_claim", "abandon", "create_claim", "reread_claim",
              "rejudge_claim", "late_abandon"}

\* The executor holds a copy of the claim that it has not judged yet.
JudgingPc == {"judge_claim", "rejudge_claim"}

\* Between the exclusive creation of the claim and the start of the adapter.
ClaimedPc == {"fill_claim", "publish_commit", "publish_result",
              "publish_master_plan", "publish_sub_plan",
              "start_commit", "start_claim", "invoke"}

SettlingPc == {"finalize_claim", "settle_commit", "settle_result",
               "settle_record", "settle_master_plan", "settle_sub_plan",
               "settle_claim"}

OwnerPc == ClaimedPc \cup {"await"} \cup SettlingPc

Refusal == {"unknown_plan_receipt", "commit_required", "stale_plan_context",
            "plan_not_materialized", "plan_already_committed",
            "in_progress", "requires_repair"}

\* The process stopped without an answer, or answered an unexpected error.
Halt == {"crashed", "ledger_error", "unbound_claim"}

Done == Refusal \cup {"committed", "failed"} \cup Halt

Pc == {"start"} \cup ReadingPc \cup OwnerPc \cup Done

Owners == {e \in Executor : pc[e] \in OwnerPc}

-----------------------------------------------------------------------------
FilesOK ==
    /\ ledger \in [File -> Status]
    /\ ledger["plan"] \in RecordStatus
    /\ ledger["plan_manifest"] \in ManifestStatus
    /\ ledger["master_plan"] \in BundleStatus
    /\ ledger["sub_plan"] \in BundleStatus
    /\ ledger["commit"] \in CommitStatus
    /\ ledger["result"] \in ResultStatus
    /\ ledger["claim"] \in ClaimStatus
    /\ syncedRecord \in RecordStatus

ProcessesOK ==
    /\ planner \in {"master_plan", "sub_plan", "plan_manifest", "plan",
                    "planned", "stopped"}
    /\ pc \in [Executor -> Pc]
    /\ seenRecord \in [Executor -> {"none", "planned", "committed"}]
    /\ seenEvidence \in [Executor -> BOOLEAN]
    /\ seenClaim \in [Executor -> ClaimStatus \ {"empty"}]
    /\ mayBeOld \in SUBSET Executor
    /\ verdict \in [Executor -> {"none"} \cup TerminalResult]

AdapterOK ==
    /\ adapter \in {"idle", "running", "exited", "killed"}
    /\ reply \in {"none", "object", "error_payload", "unusable"}
    /\ applied \in BOOLEAN
    /\ invocations \in Seq(Executor)

TypeOK == FilesOK /\ ProcessesOK /\ AdapterOK

(* Nothing is written for the receipt yet.                                 *)
FreshLedger == [f \in File |-> "absent"]

(* A runtime directory that lost the claim of an earlier execute but kept  *)
(* its commit, its result, or both: the states the tests                   *)
(* test_execute_commit_exists_result_missing_does_not_reinvoke_adapter and *)
(* test_execute_result_exists_commit_missing_... start from.               *)
LeftBehind ==
    {<<"claimed", "running">>, <<"running", "running">>,
     <<"committed", "running">>, <<"committed", "ready">>,
     <<"failed", "running">>, <<"failed", "failed">>}
        \cup ((CommitStatus \ {"absent"}) \X {"absent"})
        \cup ({"absent"} \X (ResultStatus \ {"absent"}))

DamagedLedger ==
    {[FreshLedger EXCEPT !["plan"] = "planned",
                         !["plan_manifest"] = "complete",
                         !["master_plan"] = "committing",
                         !["sub_plan"] = "committing",
                         !["commit"] = left[1],
                         !["result"] = left[2]] : left \in LeftBehind}

(* Only an applied effect was ever recorded as a success.                  *)
SuccessRecorded(l) == l["result"] = "ready" \/ l["commit"] = "committed"

Init ==
    /\ \/ ledger = FreshLedger /\ planner = "master_plan" /\ applied = FALSE
       \/ /\ ledger \in DamagedLedger
          /\ planner = "planned"
          /\ applied \in BOOLEAN
          /\ SuccessRecorded(ledger) => applied
    /\ syncedRecord = ledger["plan"]
    /\ pc = [e \in Executor |-> "start"]
    /\ seenRecord = [e \in Executor |-> "none"]
    /\ seenEvidence = [e \in Executor |-> FALSE]
    /\ seenClaim = [e \in Executor |-> "absent"]
    /\ mayBeOld = {}
    /\ verdict = [e \in Executor |-> "none"]
    /\ adapter = "idle"
    /\ reply = "none"
    /\ invocations = <<>>

-----------------------------------------------------------------------------
(* Writes.  _atomic_write_json replaces the file and syncs it; write_plan  *)
(* replaces the record without a sync.                                     *)

Write(file, status) == ledger' = [ledger EXCEPT ![file] = status]

WriteClaim(status) == Write("claim", status)

Goto(e, from, to) ==
    /\ pc[e] = from
    /\ pc' = [pc EXCEPT ![e] = to]

-----------------------------------------------------------------------------
(* `xctx plan`: master plan, sub plan, manifest, and the record last.      *)

Materialize(file, status, next) ==
    /\ planner = file
    /\ Write(file, status)
    /\ planner' = next
    /\ UNCHANGED <<syncedRecord, localCopies, adapterVars, pc>>

PlanMasterPlan == Materialize("master_plan", "planned", "sub_plan")
PlanSubPlan    == Materialize("sub_plan", "planned", "plan_manifest")
PlanManifest   == Materialize("plan_manifest", "complete", "plan")
RecordPlan     == Materialize("plan", "planned", "planned")

PlannerStops ==
    /\ planner \notin {"planned", "stopped"}
    /\ planner' = "stopped"
    /\ UNCHANGED <<syncedRecord, localCopies, adapterVars,
                   ledger, pc>>

Planner == PlanMasterPlan \/ PlanSubPlan \/ PlanManifest \/ RecordPlan

-----------------------------------------------------------------------------
(* `xctx execute <PLAN_ID> --commit`, up to the claim.                     *)

(* resolve_plan: a missing, unparsable or invalid record is an unknown     *)
(* plan; otherwise the executor works on this copy of it to the end.       *)
Resolve(e) ==
    /\ \/ /\ ledger["plan"] \in {"absent", "unreadable"}
          /\ Goto(e, "start", "unknown_plan_receipt")
          /\ UNCHANGED seenRecord
       \/ /\ ledger["plan"] \in {"planned", "committed"}
          /\ seenRecord' = [seenRecord EXCEPT ![e] = ledger["plan"]]
          /\ Goto(e, "start", "bind")
    /\ UNCHANGED <<environment, seenEvidence, claimCopy, verdict, adapterVars,
                   ledger>>

(* The record resolves, but the command line carries no --commit.          *)
RefuseWithoutCommit(e) ==
    /\ ledger["plan"] \in {"planned", "committed"}
    /\ Goto(e, "start", "commit_required")
    /\ UNCHANGED <<environment, localCopies, adapterVars, ledger>>

(* context_match: the configuration may have been edited since the plan,   *)
(* and restored, any number of times, so either answer is possible.        *)
StaleContext(e) ==
    /\ Goto(e, "bind", "stale_plan_context")
    /\ UNCHANGED <<environment, localCopies, adapterVars, ledger>>

Bind(e) ==
    /\ Goto(e, "bind", IF seenRecord[e] = "committed"
                       THEN "plan_already_committed" ELSE "verify")
    /\ UNCHANGED <<environment, localCopies, adapterVars, ledger>>

Materialized ==
    /\ ledger["plan_manifest"] = "complete"
    /\ ledger["master_plan"] # "absent"
    /\ ledger["sub_plan"] # "absent"

VerifyMaterialization(e) ==
    /\ Goto(e, "verify",
            IF Materialized THEN "read_commit" ELSE "plan_not_materialized")
    /\ UNCHANGED <<environment, localCopies, adapterVars, ledger>>

ReadEvidence(e, file, from, to) ==
    /\ Goto(e, from, to)
    /\ seenEvidence' =
            [seenEvidence EXCEPT ![e] = @ \/ ledger[file] # "absent"]
    /\ UNCHANGED <<environment, seenRecord, claimCopy, verdict, adapterVars,
                   ledger>>

ReadCommit(e) == ReadEvidence(e, "commit", "read_commit", "read_result")
ReadResult(e) == ReadEvidence(e, "result", "read_result", "read_claim")

(* read_commit_execution_claim: no file, or one that does not parse, is    *)
(* None.                                                                   *)
ClaimRead == IF ledger["claim"] = "empty" THEN "absent" ELSE ledger["claim"]

(* The file and the clock are read one after the other, and the process    *)
(* may be held up in between: a reader judges the age of its copy, not of  *)
(* the file.  Time is no part of the state.  It may pass between any two   *)
(* steps, so an unsettled copy is judged old or not, whichever the pauses  *)
(* before and after its reading allow; only NoLongPause, and only while    *)
(* the claim has a living owner, excludes that it is judged old.           *)
CopyClaim(e) ==
    /\ seenClaim' = [seenClaim EXCEPT ![e] = ClaimRead]
    /\ mayBeOld' = IF NoLongPause /\ Owners # {} THEN mayBeOld \ {e}
                                               ELSE mayBeOld \cup {e}
    /\ UNCHANGED <<environment, seenRecord, seenEvidence, verdict,
                   adapterVars, ledger>>

ForgetClaim(e) ==
    /\ seenClaim' = [seenClaim EXCEPT ![e] = "absent"]
    /\ mayBeOld' = mayBeOld \ {e}
    /\ UNCHANGED <<environment, seenRecord, seenEvidence, verdict,
                   adapterVars, ledger>>

(* Mutation checks of LooksStale: any unsettled claim, and any old claim.  *)
LooksStaleAtOnce(claim, old) ==
    claim \notin TERMINAL_CLAIM_STATUSES \cup {"absent"}
LooksStaleWhenSettled(claim, old) == claim # "absent" /\ old

(* mark_claim_abandoned_if_stale acts on this copy of the claim.           *)
LooksStale(claim, old) ==
    /\ claim \notin TERMINAL_CLAIM_STATUSES \cup {"absent"}
    /\ old

\* Mutation check of PreflightVerdict: commit and result are not looked at.
VerdictIgnoresEvidence(e, claim) ==
    CASE claim \in TERMINAL_CLAIM_STATUSES      -> "plan_already_committed"
      [] claim \in {"claimed", "running",
                    "finalizing"}               -> "in_progress"
      [] claim = "abandoned"                    -> "requires_repair"
      [] OTHER                                  -> "create_claim"

(* What the preflight does once it holds its copies of the files: refuse,  *)
(* or try to create the claim.                                             *)
PreflightVerdict(e, claim) ==
    CASE seenRecord[e] = "committed"            -> "plan_already_committed"
      [] claim \in TERMINAL_CLAIM_STATUSES      -> "plan_already_committed"
      [] claim \in {"claimed", "running",
                    "finalizing"}               -> "in_progress"
      [] claim = "abandoned"                    -> "requires_repair"
      [] claim = "absent" /\ seenEvidence[e]    -> "requires_repair"
      [] OTHER                                  -> "create_claim"

ReadClaim(e) ==
    /\ Goto(e, "read_claim", "judge_claim")
    /\ CopyClaim(e)

JudgeClaim(e) ==
    /\ \E old \in BOOLEAN :
          /\ old => e \in mayBeOld
          /\ Goto(e, "judge_claim",
                  IF LooksStale(seenClaim[e], old)
                  THEN "abandon" ELSE PreflightVerdict(e, seenClaim[e]))
    /\ ForgetClaim(e)

(* The write half of mark_claim_abandoned_if_stale: it replaces whatever   *)
(* the claim has become since it was read.                                 *)
Abandon(e) ==
    /\ \/ Goto(e, "abandon", PreflightVerdict(e, "abandoned"))
       \/ Goto(e, "late_abandon", "in_progress")
    /\ WriteClaim("abandoned")
    /\ UNCHANGED <<environment, localCopies, adapterVars>>

(* Mutation check of CreateClaim: opened without O_EXCL.                   *)
CreateClaimWithoutExcl(e) ==
    /\ Goto(e, "create_claim", "fill_claim")
    /\ WriteClaim("empty")
    /\ UNCHANGED <<environment, localCopies, adapterVars>>

(* create_commit_execution_claim: O_CREAT | O_EXCL decides the race.       *)
CreateClaim(e) ==
    /\ \/ /\ ledger["claim"] = "absent"
          /\ WriteClaim("empty")
          /\ Goto(e, "create_claim", "fill_claim")
       \/ /\ ledger["claim"] # "absent"
          /\ Goto(e, "create_claim", "reread_claim")
          /\ UNCHANGED ledger
    /\ UNCHANGED <<environment, localCopies, adapterVars>>

(* The loser of the race reads the claim again, and may abandon it.        *)
RereadClaim(e) ==
    /\ Goto(e, "reread_claim", "rejudge_claim")
    /\ CopyClaim(e)

RejudgeClaim(e) ==
    /\ \E old \in BOOLEAN :
          /\ old => e \in mayBeOld
          /\ Goto(e, "rejudge_claim",
                  IF LooksStale(seenClaim[e], old)
                  THEN "late_abandon" ELSE "in_progress")
    /\ ForgetClaim(e)

Preflight(e) ==
    \/ Resolve(e) \/ Bind(e) \/ VerifyMaterialization(e)
    \/ ReadCommit(e) \/ ReadResult(e) \/ ReadClaim(e) \/ JudgeClaim(e)
    \/ Abandon(e) \/ CreateClaim(e) \/ RereadClaim(e) \/ RejudgeClaim(e)

-----------------------------------------------------------------------------
(* The claim owner's writes before the adapter runs.                       *)

FillClaim(e) ==
    /\ Goto(e, "fill_claim", "publish_commit")
    /\ WriteClaim("claimed")
    /\ UNCHANGED <<environment, localCopies, adapterVars>>

OwnerWrites(e, from, file, status, to) ==
    /\ Goto(e, from, to)
    /\ Write(file, status)
    /\ UNCHANGED <<environment, localCopies, adapterVars>>

(* publish_running_execution_artifacts                                     *)
PublishCommit(e) ==
    OwnerWrites(e, "publish_commit", "commit", "claimed", "publish_result")

PublishResult(e) ==
    OwnerWrites(e, "publish_result", "result", "running",
                "publish_master_plan")

PublishMasterPlan(e) ==
    OwnerWrites(e, "publish_master_plan", "master_plan", "committing",
                "publish_sub_plan")

\* Mutation check of PublishSubPlan: mark_execution_started comes too late.
PublishSubPlanThenInvoke(e) ==
    OwnerWrites(e, "publish_sub_plan", "sub_plan", "committing", "invoke")

PublishSubPlan(e) ==
    OwnerWrites(e, "publish_sub_plan", "sub_plan", "committing",
                "start_commit")

(* mark_execution_started: the claim is written as running whatever an     *)
(* abandoning process made of it meanwhile.                                *)
StartCommit(e) ==
    OwnerWrites(e, "start_commit", "commit", "running", "start_claim")

StartClaim(e) ==
    /\ Goto(e, "start_claim", "invoke")
    /\ WriteClaim("running")
    /\ UNCHANGED <<environment, localCopies, adapterVars>>

Start(e) ==
    \/ FillClaim(e) \/ PublishCommit(e) \/ PublishResult(e)
    \/ PublishMasterPlan(e) \/ PublishSubPlan(e)
    \/ StartCommit(e) \/ StartClaim(e)

-----------------------------------------------------------------------------
(* The adapter: a process of its own, started once by invoke_commit_adapter *)
(* and answering through what it prints.                                   *)

Invoke(e) ==
    /\ Goto(e, "invoke", "await")
    /\ adapter' = "running"
    /\ invocations' = Append(invocations, e)
    /\ UNCHANGED <<environment, localCopies, reply, applied, ledger>>

(* The target is not configured any more, or the process cannot start.     *)
InvokeFails(e) ==
    /\ Goto(e, "invoke", "settle_commit")
    /\ verdict' = [verdict EXCEPT ![e] = "failed"]
    /\ UNCHANGED <<environment, seenRecord, seenEvidence, claimCopy,
                   adapterVars, ledger>>

AdapterApplies ==
    /\ adapter = "running"
    /\ ~applied
    /\ applied' = TRUE
    /\ UNCHANGED <<environment, localCopies, adapter, reply, invocations,
                   ledger, pc>>

(* An adapter that prints a result object has done its work; an error      *)
(* object, a crash, or output past the limit says nothing about that.      *)
AdapterExits ==
    /\ adapter = "running"
    /\ adapter' = "exited"
    /\ \/ reply' = "object" /\ applied
       \/ reply' \in {"error_payload", "unusable"}
    /\ UNCHANGED <<environment, localCopies, applied, invocations, ledger,
                   pc>>

(* Mutation checks of ReceiveReply: any object is a success; output that   *)
(* is no object is not handled.                                            *)
ReceiveReplyTrustsObject(e) ==
    /\ adapter = "exited"
    /\ \/ /\ reply # "unusable"
          /\ Goto(e, "await", "finalize_claim")
          /\ verdict' = [verdict EXCEPT ![e] = "ready"]
       \/ /\ reply = "unusable"
          /\ Goto(e, "await", "settle_commit")
          /\ verdict' = [verdict EXCEPT ![e] = "failed"]
    /\ UNCHANGED <<environment, seenRecord, seenEvidence, claimCopy,
                   adapterVars, ledger>>

ReceiveReplyObjectsOnly(e) ==
    /\ adapter = "exited"
    /\ reply # "unusable"
    /\ Goto(e, "await", "finalize_claim")
    /\ verdict' = [verdict EXCEPT ![e] =
                        IF reply = "object" THEN "ready" ELSE "failed"]
    /\ UNCHANGED <<environment, seenRecord, seenEvidence, claimCopy,
                   adapterVars, ledger>>

(* An object goes through finalize_adapter_execution, as a failure when    *)
(* adapter_payload_failed says so; any other output raised XctxError.      *)
ReceiveReply(e) ==
    /\ adapter = "exited"
    /\ \/ /\ reply = "object"
          /\ Goto(e, "await", "finalize_claim")
          /\ verdict' = [verdict EXCEPT ![e] = "ready"]
       \/ /\ reply = "error_payload"
          /\ Goto(e, "await", "finalize_claim")
          /\ verdict' = [verdict EXCEPT ![e] = "failed"]
       \/ /\ reply = "unusable"
          /\ Goto(e, "await", "settle_commit")
          /\ verdict' = [verdict EXCEPT ![e] = "failed"]
    /\ UNCHANGED <<environment, seenRecord, seenEvidence, claimCopy,
                   adapterVars, ledger>>

(* Mutation check of AdapterTimesOut: the adapter is started once more.    *)
AdapterTimesOutAndRetries(e) ==
    /\ adapter = "running"
    /\ Goto(e, "await", "invoke")
    /\ UNCHANGED <<environment, localCopies, adapterVars, ledger>>

(* capture_process: the deadline passes, the session of the child is       *)
(* killed, and the timeout is an XctxError like any other.                 *)
AdapterTimesOut(e) ==
    /\ adapter = "running"
    /\ Goto(e, "await", "settle_commit")
    /\ verdict' = [verdict EXCEPT ![e] = "failed"]
    /\ adapter' = IF AdapterOutlivesTimeout THEN "running" ELSE "killed"
    /\ UNCHANGED <<environment, seenRecord, seenEvidence, claimCopy,
                   reply, applied, invocations, ledger>>

Run(e) ==
    \/ Invoke(e) \/ InvokeFails(e) \/ ReceiveReply(e) \/ AdapterTimesOut(e)

-----------------------------------------------------------------------------
CommitOf(v) == IF v = "ready" THEN "committed" ELSE "failed"

(* The owner records the outcome, in the same order on both paths; only    *)
(* the path with a parsed object announces it in the claim first.          *)

FinalizeClaim(e) ==
    /\ Goto(e, "finalize_claim", "settle_commit")
    /\ WriteClaim("finalizing")
    /\ UNCHANGED <<environment, localCopies, adapterVars>>

\* Mutation check of SettleCommit: the result is left as it was.
SettleCommitOnly(e) ==
    OwnerWrites(e, "settle_commit", "commit", CommitOf(verdict[e]),
                "settle_record")

SettleCommit(e) ==
    OwnerWrites(e, "settle_commit", "commit", CommitOf(verdict[e]),
                "settle_result")

SettleResult(e) ==
    OwnerWrites(e, "settle_result", "result", verdict[e], "settle_record")

\* Mutation check of SettleRecord: the bundle is forgotten.
SettleRecordThenClaim(e) ==
    OwnerWrites(e, "settle_record", "plan", "committed", "settle_claim")

SettleRecord(e) ==
    OwnerWrites(e, "settle_record", "plan", "committed", "settle_master_plan")

SettleMasterPlan(e) ==
    OwnerWrites(e, "settle_master_plan", "master_plan", "committed",
                "settle_sub_plan")

SettleSubPlan(e) ==
    OwnerWrites(e, "settle_sub_plan", "sub_plan", "committed", "settle_claim")

SettleClaim(e) ==
    /\ Goto(e, "settle_claim", CommitOf(verdict[e]))
    /\ WriteClaim(IF verdict[e] = "ready" THEN "succeeded" ELSE "failed")
    /\ UNCHANGED <<environment, localCopies, adapterVars>>

Settle(e) ==
    \/ FinalizeClaim(e) \/ SettleCommit(e) \/ SettleResult(e)
    \/ SettleRecord(e) \/ SettleMasterPlan(e) \/ SettleSubPlan(e)
    \/ SettleClaim(e)

Execute(e) == Preflight(e) \/ Start(e) \/ Run(e) \/ Settle(e)

-----------------------------------------------------------------------------
(* What happens to the processes and to the machine.                       *)

Active(e) == pc[e] \notin Done

Crash(e) ==
    /\ Active(e)
    /\ pc' = [pc EXCEPT ![e] = "crashed"]
    /\ UNCHANGED <<environment, localCopies, adapterVars, ledger>>

(* A write raised and nothing in execute_planned_effect_payload catches    *)
(* it: publishing is before its try, settling after it.                    *)
LedgerError(e) ==
    /\ pc[e] \in {"abandon", "late_abandon", "create_claim", "fill_claim",
                  "publish_commit", "publish_result", "publish_master_plan",
                  "publish_sub_plan"} \cup SettlingPc
    /\ pc' = [pc EXCEPT ![e] = "ledger_error"]
    /\ UNCHANGED <<environment, localCopies, adapterVars, ledger>>

(* mark_execution_started raised inside the try: the handler names `claim`, *)
(* which no assignment has bound yet, so it raises UnboundLocalError       *)
(* before it records anything.                                             *)
StartFails(e) ==
    /\ pc[e] \in {"start_commit", "start_claim"}
    /\ pc' = [pc EXCEPT ![e] = "unbound_claim"]
    /\ UNCHANGED <<environment, localCopies, adapterVars, ledger>>

(* The kernel writes the plan record back; write_plan does not ask it to.  *)
SyncRecord ==
    /\ syncedRecord # ledger["plan"]
    /\ syncedRecord' = ledger["plan"]
    /\ UNCHANGED <<planner, localCopies, adapterVars,
                   ledger, pc>>

(* Everything that runs stops.  What _atomic_write_json wrote stays; a     *)
(* record that was not written back is the old one, the new one, or a name *)
(* without content; of a claim that was created but not yet synced even    *)
(* the name may be gone.                                                   *)
AfterPowerLoss(record, claim) ==
    /\ ledger' = [ledger EXCEPT !["plan"] = record, !["claim"] = claim]
    /\ syncedRecord' = record

PowerLoss ==
    /\ \/ \E e \in Executor : Active(e) /\ pc[e] # "start"
       \/ planner \notin {"planned", "stopped"}
       \/ adapter = "running"
       \/ syncedRecord # ledger["plan"]
       \/ ledger["claim"] = "empty"
    /\ planner' = IF planner = "planned" THEN "planned" ELSE "stopped"
    /\ pc' = [e \in Executor |-> IF Active(e) /\ pc[e] # "start"
                                 THEN "crashed" ELSE pc[e]]
    /\ adapter' = IF adapter = "running" THEN "killed" ELSE adapter
    /\ \E record \in IF syncedRecord = ledger["plan"] THEN {ledger["plan"]}
                     ELSE {syncedRecord, ledger["plan"], "unreadable"},
          claim \in {ledger["claim"]} \cup
                       (IF ledger["claim"] = "empty" THEN {"absent"} ELSE {}) :
          AfterPowerLoss(record, claim)
    /\ UNCHANGED <<localCopies, reply, applied, invocations>>

Fault == \/ PlannerStops \/ SyncRecord \/ PowerLoss
         \/ \E e \in Executor : Crash(e) \/ LedgerError(e) \/ StartFails(e)

Next ==
    \/ Planner
    \/ AdapterApplies \/ AdapterExits
    \/ \E e \in Executor :
           RefuseWithoutCommit(e) \/ StaleContext(e) \/ Execute(e)
    \/ Fault

Spec == Init /\ [][Next]_vars

(* Every process that is not stopped goes on, and an adapter that does not *)
(* answer runs into the timeout.                                           *)
FairSpec ==
    /\ Spec
    /\ WF_vars(Planner)
    /\ \A e \in Executor : WF_vars(Execute(e))

-----------------------------------------------------------------------------
(* What the ledger and the answers are relied upon for.                    *)

(* However many executes race, crash or find a damaged ledger, at most one *)
(* of them starts the adapter: create_commit_execution_claim decides.      *)
AtMostOneInvocation == Len(invocations) <= 1

(* A result is ready, or a commit committed, only if the adapter performed *)
(* the effect: neither a timeout nor an error payload passes for success.  *)
SuccessMeansApplied == SuccessRecorded(ledger) => applied

(* Before the adapter runs, everything that makes its run visible to later *)
(* executes and to `observe` is on disk: claim, commit, result, and a      *)
(* bundle that no longer reads as merely planned.                          *)
EvidenceBeforeEffect ==
    adapter # "idle" =>
        /\ ledger["claim"] \notin {"absent", "empty", "claimed"}
        /\ ledger["commit"] \in {"running", "committed", "failed"}
        /\ ledger["result"] # "absent"
        /\ ledger["master_plan"] \in {"committing", "committed"}
        /\ ledger["sub_plan"] \in {"committing", "committed"}

(* A plan record says committed only after commit and result hold the same *)
(* terminal verdict, so the result handle an already-committed answer      *)
(* names never dangles.  Power loss may lose the record, never that order. *)
Agree ==
    \/ ledger["commit"] = "committed" /\ ledger["result"] = "ready"
    \/ ledger["commit"] = "failed" /\ ledger["result"] = "failed"

CommittedRecordIsSettled == ledger["plan"] = "committed" => Agree

(* The last write of a settling owner closes the books: under a terminal   *)
(* claim every file of the plan tells the same story.                      *)
TerminalClaimClosesBooks ==
    ledger["claim"] \in TERMINAL_CLAIM_STATUSES =>
        /\ Agree
        /\ (ledger["claim"] = "succeeded") <=> (ledger["result"] = "ready")
        /\ ledger["master_plan"] = "committed"
        /\ ledger["sub_plan"] = "committed"

(* Whoever is told "plan_already_committed" can observe the final result.  *)
AlreadyCommittedIsFinal ==
    \A e \in Executor :
        pc[e] = "plan_already_committed" => ledger["result"] \in TerminalResult

(* A claim is created only for a plan without any trace of an earlier      *)
(* execution, although the traces were looked for well before.             *)
ClaimOnlyUntouchedPlan ==
    [][ledger["claim"] = "absent" /\ ledger'["claim"] # "absent"
        => ledger["commit"] = "absent" /\ ledger["result"] = "absent"]_vars

(* A recorded outcome is final: no process, however late, replaces it.     *)
OutcomeIsFinal ==
    [][ledger["result"] \in TerminalResult
        => ledger'["result"] = ledger["result"]]_vars

(* Files and processes together keep the promise of OneShotPlan.           *)
OneShot ==
    INSTANCE OneShotPlan WITH
        phase   <- IF ledger["claim"] \notin {"absent", "empty"} THEN "claimed"
                   ELSE IF ledger["commit"] # "absent"
                            \/ ledger["result"] # "absent"
                        THEN "spent" ELSE "open",
        starts  <- Len(invocations),
        effect  <- applied,
        outcome <- IF ledger["result"] \in TerminalResult
                   THEN ledger["result"] ELSE "none"

ImplementsOneShot == OneShot!Spec

(* If neither owners nor readers are held up for long, a claim is          *)
(* abandoned only when its owner is gone ...                               *)
AbandonedMeansOwnerGone == ledger["claim"] = "abandoned" => Owners = {}

(* ... and a terminal claim is never rewritten.                            *)
TerminalClaimStable ==
    [][ledger["claim"] \in TERMINAL_CLAIM_STATUSES
        => ledger'["claim"] = ledger["claim"]]_vars

(* Every execute comes to an end, whatever the others and the adapter do.  *)
EveryExecuteEnds == \A e \in Executor : <>(pc[e] \in Done)

(* Once the adapter was started, its result handle becomes terminal,       *)
(* unless the process that started it was itself stopped.                  *)
StartedEffectIsRecorded ==
    \A e \in Executor :
        invocations = <<e>> ~> ledger["result"] \in TerminalResult
                              \/ pc[e] \in Halt

(* A failure to start is recorded in the result like any other failure.    *)
StartFailureIsRecorded ==
    \A e \in Executor :
        pc[e] = "unbound_claim" ~> ledger["result"] \in TerminalResult

=============================================================================
