------------------------ MODULE PlannedEffectInvariant ------------------------
(***************************************************************************)
(* Why a planned effect runs once and is recorded truthfully: the          *)
(* inductive invariant of PlannedEffect, in parts.  It says for every      *)
(* place an owner can be what the files look like, and what a process that *)
(* only reads may still rely on when it acts on what it has read.  The     *)
(* runs check it on small instances, PlannedEffectProofs proves it.        *)
(***************************************************************************)
EXTENDS PlannedEffect

\* While `plan` is writing, no execute has got past resolving the record.
PlannerFirst ==
    planner \notin {"planned", "stopped"} =>
        /\ ledger["plan"] = "absent"
        /\ ledger["claim"] = "absent"
        /\ \A e \in Executor : pc[e] \in {"start"} \cup Done

\* The exclusively created claim stands for one owner and one invocation.
ClaimantInv ==
    /\ ledger["claim"] = "absent" => Owners = {}
    /\ ledger["claim"] \in {"absent", "empty"} =>
          /\ Owners \subseteq {e \in Executor : pc[e] = "fill_claim"}
          /\ invocations = <<>>
          /\ ledger["plan"] # "committed"
          /\ syncedRecord # "committed"
    /\ \A e, f \in Owners : e = f
    /\ \A e \in Executor :
          /\ pc[e] \in ClaimedPc => invocations = <<>>
          /\ \/ pc[e] \in {"abandon", "late_abandon"}
             \/ pc[e] \in JudgingPc /\ seenClaim[e] # "absent"
             => ledger["claim"] \notin {"absent", "empty"}

\* While there is no claim, nobody writes commit or result, so what a reader
\* did not see is still not there.
EvidenceInv ==
    /\ ledger["claim"] = "empty" => /\ ledger["commit"] = "absent"
                                    /\ ledger["result"] = "absent"
    /\ ledger["claim"] = "absent" =>
        \A e \in Executor :
            /\ pc[e] \in {"read_result", "read_claim", "judge_claim"}
               /\ ~seenEvidence[e]
                  => ledger["commit"] = "absent"
            /\ pc[e] \in {"read_claim", "judge_claim"} /\ ~seenEvidence[e]
                  => ledger["result"] = "absent"
            /\ pc[e] = "create_claim" => /\ ledger["commit"] = "absent"
                                         /\ ledger["result"] = "absent"

\* The files as an owner at each of its control points left them.
OwnerCommit(e) ==
    /\ pc[e] \in {"fill_claim", "publish_commit"} =>
          ledger["commit"] = "absent"
    /\ pc[e] \in {"publish_result", "publish_master_plan",
                  "publish_sub_plan", "start_commit"} =>
          ledger["commit"] = "claimed"
    /\ pc[e] \in {"start_claim", "invoke", "await", "finalize_claim",
                  "settle_commit"} => ledger["commit"] = "running"
    /\ pc[e] = "settle_result" => ledger["commit"] = CommitOf(verdict[e])

OwnerResult(e) ==
    /\ pc[e] \in {"fill_claim", "publish_commit", "publish_result"} =>
          ledger["result"] = "absent"
    /\ pc[e] \in {"publish_master_plan", "publish_sub_plan", "start_commit",
                  "start_claim", "invoke", "await", "finalize_claim",
                  "settle_commit", "settle_result"} =>
          ledger["result"] = "running"
    /\ pc[e] \in {"settle_record", "settle_master_plan", "settle_sub_plan",
                  "settle_claim"} => /\ ledger["commit"] = CommitOf(verdict[e])
                                     /\ ledger["result"] = verdict[e]

OwnerRecord(e) ==
    pc[e] \in ClaimedPc \cup {"await", "finalize_claim", "settle_commit",
                              "settle_result", "settle_record"} =>
        /\ ledger["plan"] # "committed"
        /\ syncedRecord # "committed"

OwnerBundle(e) ==
    /\ pc[e] \in {"publish_sub_plan", "start_commit", "start_claim", "invoke",
                  "await"} \cup (SettlingPc \ {"settle_sub_plan",
                                               "settle_claim"}) =>
          ledger["master_plan"] = "committing"
    /\ pc[e] \in {"settle_sub_plan", "settle_claim"} =>
          ledger["master_plan"] = "committed"
    /\ pc[e] \in {"start_commit", "start_claim", "invoke", "await"}
                    \cup (SettlingPc \ {"settle_claim"}) =>
          ledger["sub_plan"] = "committing"
    /\ pc[e] = "settle_claim" => ledger["sub_plan"] = "committed"

OwnerClaim(e) ==
    /\ pc[e] \in OwnerPc => ledger["claim"] \notin TERMINAL_CLAIM_STATUSES
    /\ pc[e] \in {"invoke", "await"} \cup SettlingPc =>
          ledger["claim"] \in {"running", "finalizing", "abandoned"}

OwnerInv ==
    \A e \in Executor :
        /\ OwnerCommit(e) /\ OwnerResult(e) /\ OwnerRecord(e)
        /\ OwnerBundle(e) /\ OwnerClaim(e)

\* What the adapter said is true, and so is what the owner records of it.
AdapterInv ==
    /\ adapter # "idle" <=> invocations # <<>>
    /\ reply = "object" => applied
    /\ \A e \in Executor :
          pc[e] \in SettlingPc => /\ verdict[e] \in TerminalResult
                                  /\ verdict[e] = "ready" => applied

\* Every copy of a committed record, on disk or in memory, is of a settled
\* plan.
RecordInv ==
    \/ Agree /\ ledger["claim"] \notin {"absent", "empty"}
    \/ /\ ledger["plan"] # "committed"
       /\ syncedRecord # "committed"
       /\ \A e \in Executor : seenRecord[e] # "committed"

\* A terminal copy of the claim is of a plan whose result is terminal.
CopyInv ==
    \A e \in Executor :
        pc[e] \in JudgingPc /\ seenClaim[e] \in TERMINAL_CLAIM_STATUSES
            => ledger["result"] \in TerminalResult

\* If nobody is held up for long, whoever is about to abandon a claim has read
\* it when its owner was gone, and nobody is left to settle it meanwhile.
AboutToAbandon(e) ==
    \/ pc[e] \in {"abandon", "late_abandon"}
    \/ /\ pc[e] \in JudgingPc
       /\ seenClaim[e] \notin TERMINAL_CLAIM_STATUSES \cup {"absent"}
       /\ e \in mayBeOld

PauseInv ==
    NoLongPause =>
        /\ \A e \in Executor :
              AboutToAbandon(e) =>
                  /\ Owners = {}
                  /\ ledger["claim"] \notin TERMINAL_CLAIM_STATUSES
        /\ AbandonedMeansOwnerGone

(* The whole of it: every safety property of the module rests on it.       *)
ExecutionInv ==
    /\ TypeOK
    /\ PlannerFirst
    /\ ClaimantInv
    /\ EvidenceInv
    /\ OwnerInv
    /\ AdapterInv
    /\ RecordInv
    /\ CopyInv
    /\ PauseInv
    /\ AtMostOneInvocation
    /\ SuccessMeansApplied
    /\ EvidenceBeforeEffect
    /\ TerminalClaimClosesBooks
    /\ AlreadyCommittedIsFinal

=============================================================================
