------------------------ MODULE PlannedEffectProofs ------------------------
(***************************************************************************)
(* The safety of PlannedEffect for any number of executors, any behaviour  *)
(* of the adapter on a timeout, and pauses of any length, or of none.      *)
(*                                                                         *)
(* ExecutionInv is inductive: one lemma per part of it says that no step   *)
(* of any process breaks that part.  The safety invariants are parts of    *)
(* it; the action properties and the refinement of OneShotPlan follow from *)
(* it step by step.                                                        *)
(***************************************************************************)
EXTENDS PlannedEffectInvariant, SequenceTheorems, TLAPS

\* How steps are written: never what a proof is about.
USE DEF Goto, Write, WriteClaim, OwnerWrites,
        environment, localCopies, claimCopy, adapterVars, JudgingPc

LEMMA OneElement ==
  ASSUME NEW S, NEW s \in Seq(S), s # <<>>, Len(s) <= 1 PROVE Len(s) = 1
  <1>. Len(s) \in Nat \ {0}
    BY EmptySeq
  <1>. QED OBVIOUS

\* The steps by which an execute only ends.
Stops(e) == \/ RefuseWithoutCommit(e) \/ StaleContext(e)
            \/ Crash(e) \/ LedgerError(e) \/ StartFails(e)

-----------------------------------------------------------------------------
\* FilesOK: every write leaves a status its file may have.
LEMMA FilesStep ==
  ASSUME ExecutionInv, [Next]_vars
  PROVE  FilesOK'
  <1> USE DEF ExecutionInv, TypeOK, FilesOK, File, Status, RecordStatus,
              ManifestStatus, BundleStatus, CommitStatus, ResultStatus,
              ClaimStatus, AdapterInv, TerminalResult, ProcessesOK, SettlingPc
  <1>1. CASE Planner
    BY <1>1 DEF Planner, PlanMasterPlan, PlanSubPlan, PlanManifest, RecordPlan,
        Materialize
  <1>2. CASE AdapterApplies \/ AdapterExits
    BY <1>2 DEF AdapterApplies, AdapterExits
  <1>3. ASSUME NEW e \in Executor, Preflight(e)
        PROVE  FilesOK'
    <2>1. CASE Resolve(e)
      BY <2>1 DEF Resolve
    <2>2. CASE Bind(e)
      BY <2>2 DEF Bind
    <2>3. CASE VerifyMaterialization(e)
      BY <2>3 DEF VerifyMaterialization
    <2>4. CASE ReadCommit(e)
      BY <2>4 DEF ReadCommit, ReadEvidence
    <2>5. CASE ReadResult(e)
      BY <2>5 DEF ReadResult, ReadEvidence
    <2>6. CASE ReadClaim(e)
      BY <2>6 DEF ReadClaim, CopyClaim, ClaimRead
    <2>7. CASE Abandon(e)
      BY <2>7 DEF Abandon, PreflightVerdict
    <2>8. CASE CreateClaim(e)
      <3>1. CASE ledger["claim"] = "absent" /\ WriteClaim("empty")
        BY <2>8, <3>1 DEF CreateClaim
      <3>2. CASE UNCHANGED ledger
        BY <2>8, <3>2 DEF CreateClaim
      <3>. QED BY <2>8, <3>1, <3>2 DEF CreateClaim
    <2>9. CASE RereadClaim(e)
      BY <2>9 DEF RereadClaim, CopyClaim, ClaimRead
    <2>10. CASE JudgeClaim(e)
      BY <2>10 DEF JudgeClaim, ForgetClaim, LooksStale, PreflightVerdict
    <2>11. CASE RejudgeClaim(e)
      BY <2>11 DEF RejudgeClaim, ForgetClaim, LooksStale
    <2>. QED BY <1>3, <2>1, <2>2, <2>3, <2>4, <2>5, <2>6, <2>7, <2>8, <2>9,
                <2>10, <2>11 DEF Preflight
  <1>4. ASSUME NEW e \in Executor, Start(e)
        PROVE  FilesOK'
    <2>1. CASE FillClaim(e)
      BY <2>1 DEF FillClaim
    <2>2. CASE PublishCommit(e)
      BY <2>2 DEF PublishCommit
    <2>3. CASE PublishResult(e)
      BY <2>3 DEF PublishResult
    <2>4. CASE PublishMasterPlan(e)
      BY <2>4 DEF PublishMasterPlan
    <2>5. CASE PublishSubPlan(e)
      BY <2>5 DEF PublishSubPlan
    <2>6. CASE StartCommit(e)
      BY <2>6 DEF StartCommit
    <2>7. CASE StartClaim(e)
      BY <2>7 DEF StartClaim
    <2>. QED BY <1>4, <2>1, <2>2, <2>3, <2>4, <2>5, <2>6, <2>7 DEF Start
  <1>5. ASSUME NEW e \in Executor, Run(e)
        PROVE  FilesOK'
    BY <1>5 DEF Run, Invoke, InvokeFails, ReceiveReply, AdapterTimesOut
  <1>6. ASSUME NEW e \in Executor, Settle(e)
        PROVE  FilesOK'
    <2>1. CASE FinalizeClaim(e)
      BY <2>1 DEF FinalizeClaim
    <2>2. CASE SettleCommit(e)
      BY <2>2 DEF SettleCommit, CommitOf
    <2>3. CASE SettleResult(e)
      BY <2>3 DEF SettleResult
    <2>4. CASE SettleRecord(e)
      BY <2>4 DEF SettleRecord
    <2>5. CASE SettleMasterPlan(e)
      BY <2>5 DEF SettleMasterPlan
    <2>6. CASE SettleSubPlan(e)
      BY <2>6 DEF SettleSubPlan
    <2>7. CASE SettleClaim(e)
      BY <2>7 DEF SettleClaim, CommitOf
    <2>. QED BY <1>6, <2>1, <2>2, <2>3, <2>4, <2>5, <2>6, <2>7 DEF Settle
  <1>7. ASSUME NEW e \in Executor, Stops(e)
        PROVE  FilesOK'
    BY <1>7 DEF Stops, RefuseWithoutCommit, StaleContext, Crash, LedgerError,
        StartFails, Active
  <1>8. CASE PowerLoss
    BY <1>8 DEF PowerLoss, AfterPowerLoss, Active
  <1>9. CASE PlannerStops \/ SyncRecord \/ UNCHANGED vars
    BY <1>9 DEF PlannerStops, SyncRecord, vars
  <1>. QED BY <1>1, <1>2, <1>3, <1>4, <1>5, <1>6, <1>7, <1>8, <1>9 DEF Next,
       Execute, Fault, Stops

\* ProcessesOK: every process goes to a control point it has.
LEMMA ProcessesStep ==
  ASSUME TypeOK, [Next]_vars
  PROVE  ProcessesOK'
  <1> USE DEF TypeOK, ProcessesOK, Pc, ReadingPc, OwnerPc, ClaimedPc,
              SettlingPc, Done, Refusal, Halt, FilesOK, Status, RecordStatus,
              ManifestStatus, BundleStatus, CommitStatus, ResultStatus,
              ClaimStatus, TerminalResult
  <1>1. CASE Planner
    BY <1>1 DEF Planner, PlanMasterPlan, PlanSubPlan, PlanManifest, RecordPlan,
        Materialize
  <1>2. CASE AdapterApplies \/ AdapterExits
    BY <1>2 DEF AdapterApplies, AdapterExits
  <1>3. ASSUME NEW e \in Executor, Preflight(e)
        PROVE  ProcessesOK'
    <2>1. CASE Resolve(e)
      BY <2>1 DEF Resolve
    <2>2. CASE Bind(e)
      BY <2>2 DEF Bind
    <2>3. CASE VerifyMaterialization(e)
      BY <2>3 DEF VerifyMaterialization
    <2>4. CASE ReadCommit(e)
      BY <2>4 DEF ReadCommit, ReadEvidence
    <2>5. CASE ReadResult(e)
      BY <2>5 DEF ReadResult, ReadEvidence
    <2>6. CASE ReadClaim(e)
      BY <2>6 DEF ReadClaim, CopyClaim, ClaimRead
    <2>7. CASE Abandon(e)
      BY <2>7 DEF Abandon, PreflightVerdict
    <2>8. CASE CreateClaim(e)
      BY <2>8 DEF CreateClaim
    <2>9. CASE RereadClaim(e)
      BY <2>9 DEF RereadClaim, CopyClaim, ClaimRead
    <2>10. CASE JudgeClaim(e)
      BY <2>10 DEF JudgeClaim, ForgetClaim, LooksStale, PreflightVerdict
    <2>11. CASE RejudgeClaim(e)
      BY <2>11 DEF RejudgeClaim, ForgetClaim, LooksStale
    <2>. QED BY <1>3, <2>1, <2>2, <2>3, <2>4, <2>5, <2>6, <2>7, <2>8, <2>9,
                <2>10, <2>11 DEF Preflight
  <1>4. ASSUME NEW e \in Executor, Start(e)
        PROVE  ProcessesOK'
    <2>1. CASE FillClaim(e)
      BY <2>1 DEF FillClaim
    <2>2. CASE PublishCommit(e)
      BY <2>2 DEF PublishCommit
    <2>3. CASE PublishResult(e)
      BY <2>3 DEF PublishResult
    <2>4. CASE PublishMasterPlan(e)
      BY <2>4 DEF PublishMasterPlan
    <2>5. CASE PublishSubPlan(e)
      BY <2>5 DEF PublishSubPlan
    <2>6. CASE StartCommit(e)
      BY <2>6 DEF StartCommit
    <2>7. CASE StartClaim(e)
      BY <2>7 DEF StartClaim
    <2>. QED BY <1>4, <2>1, <2>2, <2>3, <2>4, <2>5, <2>6, <2>7 DEF Start
  <1>5. ASSUME NEW e \in Executor, Run(e)
        PROVE  ProcessesOK'
    BY <1>5 DEF Run, Invoke, InvokeFails, ReceiveReply, AdapterTimesOut
  <1>6. ASSUME NEW e \in Executor, Settle(e)
        PROVE  ProcessesOK'
    <2>1. CASE FinalizeClaim(e)
      BY <2>1 DEF FinalizeClaim
    <2>2. CASE SettleCommit(e)
      BY <2>2 DEF SettleCommit, CommitOf
    <2>3. CASE SettleResult(e)
      BY <2>3 DEF SettleResult
    <2>4. CASE SettleRecord(e)
      BY <2>4 DEF SettleRecord
    <2>5. CASE SettleMasterPlan(e)
      BY <2>5 DEF SettleMasterPlan
    <2>6. CASE SettleSubPlan(e)
      BY <2>6 DEF SettleSubPlan
    <2>7. CASE SettleClaim(e)
      BY <2>7 DEF SettleClaim, CommitOf
    <2>. QED BY <1>6, <2>1, <2>2, <2>3, <2>4, <2>5, <2>6, <2>7 DEF Settle
  <1>7. ASSUME NEW e \in Executor, Stops(e)
        PROVE  ProcessesOK'
    BY <1>7 DEF Stops, RefuseWithoutCommit, StaleContext, Crash, LedgerError,
        StartFails, Active
  <1>8. CASE PowerLoss
    BY <1>8 DEF PowerLoss, AfterPowerLoss, Active
  <1>9. CASE PlannerStops \/ SyncRecord \/ UNCHANGED vars
    BY <1>9 DEF PlannerStops, SyncRecord, vars
  <1>. QED BY <1>1, <1>2, <1>3, <1>4, <1>5, <1>6, <1>7, <1>8, <1>9 DEF Next,
       Execute, Fault, Stops

\* AdapterOK: the adapter's variables keep their types.
LEMMA AdapterStep ==
  ASSUME TypeOK, [Next]_vars
  PROVE  AdapterOK'
  <1> USE DEF TypeOK, AdapterOK
  <1>1. CASE Planner
    BY <1>1 DEF Planner, PlanMasterPlan, PlanSubPlan, PlanManifest, RecordPlan,
        Materialize
  <1>2. CASE AdapterApplies \/ AdapterExits
    BY <1>2 DEF AdapterApplies, AdapterExits
  <1>3. ASSUME NEW e \in Executor, Preflight(e)
        PROVE  AdapterOK'
    BY <1>3 DEF Preflight, Resolve, Bind, VerifyMaterialization, ReadCommit,
        ReadResult, ReadEvidence, ReadClaim, CopyClaim, ClaimRead, JudgeClaim,
        ForgetClaim, LooksStale, PreflightVerdict, Abandon, CreateClaim,
        RereadClaim, RejudgeClaim
  <1>4. ASSUME NEW e \in Executor, Start(e)
        PROVE  AdapterOK'
    BY <1>4 DEF Start, FillClaim, PublishCommit, PublishResult,
        PublishMasterPlan, PublishSubPlan, StartCommit, StartClaim
  <1>5. ASSUME NEW e \in Executor, Run(e)
        PROVE  AdapterOK'
    BY <1>5 DEF Run, Invoke, InvokeFails, ReceiveReply, AdapterTimesOut
  <1>6. ASSUME NEW e \in Executor, Settle(e)
        PROVE  AdapterOK'
    BY <1>6 DEF Settle, FinalizeClaim, SettleCommit, SettleResult,
        SettleRecord, SettleMasterPlan, SettleSubPlan, SettleClaim, CommitOf
  <1>7. ASSUME NEW e \in Executor, Stops(e)
        PROVE  AdapterOK'
    BY <1>7 DEF Stops, RefuseWithoutCommit, StaleContext, Crash, LedgerError,
        StartFails, Active
  <1>8. CASE PowerLoss
    BY <1>8 DEF PowerLoss, AfterPowerLoss, Active
  <1>9. CASE PlannerStops \/ SyncRecord \/ UNCHANGED vars
    BY <1>9 DEF PlannerStops, SyncRecord, vars
  <1>. QED BY <1>1, <1>2, <1>3, <1>4, <1>5, <1>6, <1>7, <1>8, <1>9 DEF Next,
       Execute, Fault, Stops

\* PlannerFirst: no execute starts work before `plan` has written the record.
LEMMA PlannerFirstStep ==
  ASSUME ExecutionInv, [Next]_vars
  PROVE  PlannerFirst'
  <1> USE DEF ExecutionInv, PlannerFirst, TypeOK, FilesOK, ProcessesOK,
              AdapterOK, Pc, ReadingPc, OwnerPc, ClaimedPc, SettlingPc, Done,
              Refusal, Halt, File
  <1>1. CASE Planner
    BY <1>1 DEF Planner, PlanMasterPlan, PlanSubPlan, PlanManifest, RecordPlan,
        Materialize
  <1>2. CASE AdapterApplies \/ AdapterExits
    BY <1>2 DEF AdapterApplies, AdapterExits
  <1>3. ASSUME NEW e \in Executor, Preflight(e)
        PROVE  PlannerFirst'
    BY <1>3 DEF Preflight, Resolve, Bind, VerifyMaterialization, ReadCommit,
        ReadResult, ReadEvidence, ReadClaim, CopyClaim, ClaimRead, JudgeClaim,
        ForgetClaim, LooksStale, PreflightVerdict, Abandon, CreateClaim,
        RereadClaim, RejudgeClaim
  <1>4. ASSUME NEW e \in Executor, Start(e)
        PROVE  PlannerFirst'
    BY <1>4 DEF Start, FillClaim, PublishCommit, PublishResult,
        PublishMasterPlan, PublishSubPlan, StartCommit, StartClaim
  <1>5. ASSUME NEW e \in Executor, Run(e)
        PROVE  PlannerFirst'
    BY <1>5 DEF Run, Invoke, InvokeFails, ReceiveReply, AdapterTimesOut
  <1>6. ASSUME NEW e \in Executor, Settle(e)
        PROVE  PlannerFirst'
    BY <1>6 DEF Settle, FinalizeClaim, SettleCommit, SettleResult,
        SettleRecord, SettleMasterPlan, SettleSubPlan, SettleClaim, CommitOf
  <1>7. ASSUME NEW e \in Executor, Stops(e)
        PROVE  PlannerFirst'
    BY <1>7 DEF Stops, RefuseWithoutCommit, StaleContext, Crash, LedgerError,
        StartFails, Active
  <1>8. CASE PowerLoss
    BY <1>8 DEF PowerLoss, AfterPowerLoss, Active
  <1>9. CASE PlannerStops \/ SyncRecord \/ UNCHANGED vars
    BY <1>9 DEF PlannerStops, SyncRecord, vars
  <1>. QED BY <1>1, <1>2, <1>3, <1>4, <1>5, <1>6, <1>7, <1>8, <1>9 DEF Next,
       Execute, Fault, Stops

\* ClaimantInv: the claim is created once, and its creator is the only owner
\* ever.
LEMMA ClaimantStep ==
  ASSUME ExecutionInv, [Next]_vars
  PROVE  ClaimantInv'
  <1> USE DEF ExecutionInv, ClaimantInv, OwnerInv, OwnerRecord, PlannerFirst,
              TypeOK, FilesOK, ProcessesOK, AdapterOK, Pc, ReadingPc, OwnerPc,
              ClaimedPc, SettlingPc, Done, Refusal, Halt, File, Owners
  <1>1. CASE Planner
    BY <1>1 DEF Planner, PlanMasterPlan, PlanSubPlan, PlanManifest, RecordPlan,
        Materialize
  <1>2. CASE AdapterApplies \/ AdapterExits
    BY <1>2 DEF AdapterApplies, AdapterExits
  <1>3. ASSUME NEW e \in Executor, Preflight(e)
        PROVE  ClaimantInv'
    BY <1>3 DEF Preflight, Resolve, Bind, VerifyMaterialization, ReadCommit,
        ReadResult, ReadEvidence, ReadClaim, CopyClaim, ClaimRead, JudgeClaim,
        ForgetClaim, LooksStale, PreflightVerdict, Abandon, CreateClaim,
        RereadClaim, RejudgeClaim
  <1>4. ASSUME NEW e \in Executor, Start(e)
        PROVE  ClaimantInv'
    BY <1>4 DEF Start, FillClaim, PublishCommit, PublishResult,
        PublishMasterPlan, PublishSubPlan, StartCommit, StartClaim
  <1>5. ASSUME NEW e \in Executor, Run(e)
        PROVE  ClaimantInv'
    BY <1>5 DEF Run, Invoke, InvokeFails, ReceiveReply, AdapterTimesOut
  <1>6. ASSUME NEW e \in Executor, Settle(e)
        PROVE  ClaimantInv'
    BY <1>6 DEF Settle, FinalizeClaim, SettleCommit, SettleResult,
        SettleRecord, SettleMasterPlan, SettleSubPlan, SettleClaim, CommitOf
  <1>7. ASSUME NEW e \in Executor, Stops(e)
        PROVE  ClaimantInv'
    BY <1>7 DEF Stops, RefuseWithoutCommit, StaleContext, Crash, LedgerError,
        StartFails, Active
  <1>8. CASE PowerLoss
    BY <1>8 DEF PowerLoss, AfterPowerLoss, Active
  <1>9. CASE PlannerStops \/ SyncRecord \/ UNCHANGED vars
    BY <1>9 DEF PlannerStops, SyncRecord, vars
  <1>. QED BY <1>1, <1>2, <1>3, <1>4, <1>5, <1>6, <1>7, <1>8, <1>9 DEF Next,
       Execute, Fault, Stops

\* EvidenceInv: without a claim nobody writes commit or result.
LEMMA EvidenceStep ==
  ASSUME ExecutionInv, [Next]_vars
  PROVE  EvidenceInv'
  <1> USE DEF ExecutionInv, ClaimantInv, EvidenceInv, PlannerFirst, TypeOK,
              FilesOK, ProcessesOK, AdapterOK, Pc, ReadingPc, OwnerPc,
              ClaimedPc, SettlingPc, Done, Refusal, Halt, File, Owners
  <1>1. CASE Planner
    BY <1>1 DEF Planner, PlanMasterPlan, PlanSubPlan, PlanManifest, RecordPlan,
        Materialize
  <1>2. CASE AdapterApplies \/ AdapterExits
    BY <1>2 DEF AdapterApplies, AdapterExits
  <1>3. ASSUME NEW e \in Executor, Preflight(e)
        PROVE  EvidenceInv'
    <2>1. CASE Resolve(e)
      BY <2>1 DEF Resolve
    <2>2. CASE Bind(e)
      BY <2>2 DEF Bind
    <2>3. CASE VerifyMaterialization(e)
      BY <2>3 DEF VerifyMaterialization
    <2>4. CASE ReadCommit(e)
      BY <2>4 DEF ReadCommit, ReadEvidence
    <2>5. CASE ReadResult(e)
      BY <2>5 DEF ReadResult, ReadEvidence
    <2>6. CASE ReadClaim(e)
      BY <2>6 DEF ReadClaim, CopyClaim, ClaimRead
    <2>7. CASE Abandon(e)
      BY <2>7 DEF Abandon, PreflightVerdict
    <2>8. CASE CreateClaim(e)
      BY <2>8 DEF CreateClaim
    <2>9. CASE RereadClaim(e)
      BY <2>9 DEF RereadClaim, CopyClaim, ClaimRead
    <2>10. CASE JudgeClaim(e)
      BY <2>10 DEF JudgeClaim, ForgetClaim, LooksStale, PreflightVerdict
    <2>11. CASE RejudgeClaim(e)
      BY <2>11 DEF RejudgeClaim, ForgetClaim, LooksStale
    <2>. QED BY <1>3, <2>1, <2>2, <2>3, <2>4, <2>5, <2>6, <2>7, <2>8, <2>9,
                <2>10, <2>11 DEF Preflight
  <1>4. ASSUME NEW e \in Executor, Start(e)
        PROVE  EvidenceInv'
    BY <1>4 DEF Start, FillClaim, PublishCommit, PublishResult,
        PublishMasterPlan, PublishSubPlan, StartCommit, StartClaim
  <1>5. ASSUME NEW e \in Executor, Run(e)
        PROVE  EvidenceInv'
    BY <1>5 DEF Run, Invoke, InvokeFails, ReceiveReply, AdapterTimesOut
  <1>6. ASSUME NEW e \in Executor, Settle(e)
        PROVE  EvidenceInv'
    BY <1>6 DEF Settle, FinalizeClaim, SettleCommit, SettleResult,
        SettleRecord, SettleMasterPlan, SettleSubPlan, SettleClaim, CommitOf
  <1>7. ASSUME NEW e \in Executor, Stops(e)
        PROVE  EvidenceInv'
    BY <1>7 DEF Stops, RefuseWithoutCommit, StaleContext, Crash, LedgerError,
        StartFails, Active
  <1>8. CASE PowerLoss
    BY <1>8 DEF PowerLoss, AfterPowerLoss, Active
  <1>9. CASE PlannerStops \/ SyncRecord \/ UNCHANGED vars
    BY <1>9 DEF PlannerStops, SyncRecord, vars
  <1>. QED BY <1>1, <1>2, <1>3, <1>4, <1>5, <1>6, <1>7, <1>8, <1>9 DEF Next,
       Execute, Fault, Stops

\* OwnerInv: nobody but the owner changes the files it has written.
LEMMA OwnerStep ==
  ASSUME ExecutionInv, [Next]_vars
  PROVE  OwnerInv'
  <1> USE DEF ExecutionInv, ClaimantInv, PlannerFirst, EvidenceInv, OwnerInv,
              OwnerCommit, OwnerResult, OwnerRecord, OwnerBundle, OwnerClaim,
              AdapterInv, TypeOK, FilesOK, ProcessesOK, AdapterOK, Pc,
              ReadingPc, OwnerPc, ClaimedPc, SettlingPc, Done, Refusal, Halt,
              File, Owners, TERMINAL_CLAIM_STATUSES, TerminalResult
  <1>1. CASE Planner
    BY <1>1 DEF Planner, PlanMasterPlan, PlanSubPlan, PlanManifest, RecordPlan,
        Materialize
  <1>2. CASE AdapterApplies \/ AdapterExits
    BY <1>2 DEF AdapterApplies, AdapterExits
  <1>3. ASSUME NEW e \in Executor, Preflight(e)
        PROVE  OwnerInv'
    BY <1>3 DEF Preflight, Resolve, Bind, VerifyMaterialization, ReadCommit,
        ReadResult, ReadEvidence, ReadClaim, CopyClaim, ClaimRead, JudgeClaim,
        ForgetClaim, LooksStale, PreflightVerdict, Abandon, CreateClaim,
        RereadClaim, RejudgeClaim
  <1>4. ASSUME NEW e \in Executor, Start(e)
        PROVE  OwnerInv'
    BY <1>4 DEF Start, FillClaim, PublishCommit, PublishResult,
        PublishMasterPlan, PublishSubPlan, StartCommit, StartClaim
  <1>5. ASSUME NEW e \in Executor, Run(e)
        PROVE  OwnerInv'
    BY <1>5 DEF Run, Invoke, InvokeFails, ReceiveReply, AdapterTimesOut
  <1>6. ASSUME NEW e \in Executor, Settle(e)
        PROVE  OwnerInv'
    BY <1>6 DEF Settle, FinalizeClaim, SettleCommit, SettleResult,
        SettleRecord, SettleMasterPlan, SettleSubPlan, SettleClaim, CommitOf
  <1>7. ASSUME NEW e \in Executor, Stops(e)
        PROVE  OwnerInv'
    BY <1>7 DEF Stops, RefuseWithoutCommit, StaleContext, Crash, LedgerError,
        StartFails, Active
  <1>8. CASE PowerLoss
    BY <1>8 DEF PowerLoss, AfterPowerLoss, Active
  <1>9. CASE PlannerStops \/ SyncRecord \/ UNCHANGED vars
    BY <1>9 DEF PlannerStops, SyncRecord, vars
  <1>. QED BY <1>1, <1>2, <1>3, <1>4, <1>5, <1>6, <1>7, <1>8, <1>9 DEF Next,
       Execute, Fault, Stops

\* AdapterInv: a success is believed only when the adapter says so.
LEMMA AdapterInvStep ==
  ASSUME ExecutionInv, [Next]_vars
  PROVE  AdapterInv'
  <1> USE DEF ExecutionInv, ClaimantInv, AdapterInv, TypeOK, FilesOK,
              ProcessesOK, AdapterOK, Pc, ReadingPc, OwnerPc, ClaimedPc,
              SettlingPc, Done, Refusal, Halt, TerminalResult
  <1>1. CASE Planner
    BY <1>1 DEF Planner, PlanMasterPlan, PlanSubPlan, PlanManifest, RecordPlan,
        Materialize
  <1>2. CASE AdapterApplies \/ AdapterExits
    BY <1>2 DEF AdapterApplies, AdapterExits
  <1>3. ASSUME NEW e \in Executor, Preflight(e)
        PROVE  AdapterInv'
    BY <1>3 DEF Preflight, Resolve, Bind, VerifyMaterialization, ReadCommit,
        ReadResult, ReadEvidence, ReadClaim, CopyClaim, ClaimRead, JudgeClaim,
        ForgetClaim, LooksStale, PreflightVerdict, Abandon, CreateClaim,
        RereadClaim, RejudgeClaim
  <1>4. ASSUME NEW e \in Executor, Start(e)
        PROVE  AdapterInv'
    BY <1>4 DEF Start, FillClaim, PublishCommit, PublishResult,
        PublishMasterPlan, PublishSubPlan, StartCommit, StartClaim
  <1>5. ASSUME NEW e \in Executor, Run(e)
        PROVE  AdapterInv'
    BY <1>5 DEF Run, Invoke, InvokeFails, ReceiveReply, AdapterTimesOut
  <1>6. ASSUME NEW e \in Executor, Settle(e)
        PROVE  AdapterInv'
    BY <1>6 DEF Settle, FinalizeClaim, SettleCommit, SettleResult,
        SettleRecord, SettleMasterPlan, SettleSubPlan, SettleClaim, CommitOf
  <1>7. ASSUME NEW e \in Executor, Stops(e)
        PROVE  AdapterInv'
    BY <1>7 DEF Stops, RefuseWithoutCommit, StaleContext, Crash, LedgerError,
        StartFails, Active
  <1>8. CASE PowerLoss
    BY <1>8 DEF PowerLoss, AfterPowerLoss, Active
  <1>9. CASE PlannerStops \/ SyncRecord \/ UNCHANGED vars
    BY <1>9 DEF PlannerStops, SyncRecord, vars
  <1>. QED BY <1>1, <1>2, <1>3, <1>4, <1>5, <1>6, <1>7, <1>8, <1>9 DEF Next,
       Execute, Fault, Stops

\* RecordInv: the record is marked after commit and result were settled.
LEMMA RecordStep ==
  ASSUME ExecutionInv, [Next]_vars
  PROVE  RecordInv'
  <1> USE DEF ExecutionInv, RecordInv, Agree, PlannerFirst, ClaimantInv,
              OwnerInv, OwnerCommit, OwnerResult, OwnerRecord, OwnerBundle,
              OwnerClaim, AdapterInv, TypeOK, FilesOK, ProcessesOK, AdapterOK,
              Pc, ReadingPc, OwnerPc, ClaimedPc, SettlingPc, Done, Refusal,
              Halt, File, Owners, TERMINAL_CLAIM_STATUSES, TerminalResult
  <1>1. CASE Planner
    BY <1>1 DEF Planner, PlanMasterPlan, PlanSubPlan, PlanManifest, RecordPlan,
        Materialize
  <1>2. CASE AdapterApplies \/ AdapterExits
    BY <1>2 DEF AdapterApplies, AdapterExits
  <1>3. ASSUME NEW e \in Executor, Preflight(e)
        PROVE  RecordInv'
    BY <1>3 DEF Preflight, Resolve, Bind, VerifyMaterialization, ReadCommit,
        ReadResult, ReadEvidence, ReadClaim, CopyClaim, ClaimRead, JudgeClaim,
        ForgetClaim, LooksStale, PreflightVerdict, Abandon, CreateClaim,
        RereadClaim, RejudgeClaim
  <1>4. ASSUME NEW e \in Executor, Start(e)
        PROVE  RecordInv'
    BY <1>4 DEF Start, FillClaim, PublishCommit, PublishResult,
        PublishMasterPlan, PublishSubPlan, StartCommit, StartClaim
  <1>5. ASSUME NEW e \in Executor, Run(e)
        PROVE  RecordInv'
    BY <1>5 DEF Run, Invoke, InvokeFails, ReceiveReply, AdapterTimesOut
  <1>6. ASSUME NEW e \in Executor, Settle(e)
        PROVE  RecordInv'
    BY <1>6 DEF Settle, FinalizeClaim, SettleCommit, SettleResult,
        SettleRecord, SettleMasterPlan, SettleSubPlan, SettleClaim, CommitOf
  <1>7. ASSUME NEW e \in Executor, Stops(e)
        PROVE  RecordInv'
    BY <1>7 DEF Stops, RefuseWithoutCommit, StaleContext, Crash, LedgerError,
        StartFails, Active
  <1>8. CASE PowerLoss
    BY <1>8 DEF PowerLoss, AfterPowerLoss, Active
  <1>9. CASE PlannerStops \/ SyncRecord \/ UNCHANGED vars
    BY <1>9 DEF PlannerStops, SyncRecord, vars
  <1>. QED BY <1>1, <1>2, <1>3, <1>4, <1>5, <1>6, <1>7, <1>8, <1>9 DEF Next,
       Execute, Fault, Stops

\* PauseInv: once its owner is gone, a claim has no other.
LEMMA PauseStep ==
  ASSUME ExecutionInv, [Next]_vars
  PROVE  PauseInv'
  <1> USE DEF ExecutionInv, PauseInv, AboutToAbandon,
              AbandonedMeansOwnerGone, ClaimantInv,
              PlannerFirst, OwnerInv, OwnerCommit, OwnerResult, OwnerRecord,
              OwnerBundle, OwnerClaim, TypeOK, FilesOK, ProcessesOK, AdapterOK,
              Pc, ReadingPc, OwnerPc, ClaimedPc, SettlingPc, Done, Refusal,
              Halt, File, Owners, TERMINAL_CLAIM_STATUSES, TerminalResult
  <1>1. CASE Planner
    BY <1>1 DEF Planner, PlanMasterPlan, PlanSubPlan, PlanManifest, RecordPlan,
        Materialize
  <1>2. CASE AdapterApplies \/ AdapterExits
    BY <1>2 DEF AdapterApplies, AdapterExits
  <1>3. ASSUME NEW e \in Executor, Preflight(e)
        PROVE  PauseInv'
    <2>1. CASE Resolve(e) \/ Bind(e) \/ VerifyMaterialization(e)
      BY <2>1 DEF Resolve, Bind, VerifyMaterialization
    <2>2. CASE ReadCommit(e) \/ ReadResult(e)
      BY <2>2 DEF ReadCommit, ReadResult, ReadEvidence
    <2>3. CASE ReadClaim(e)
      BY <2>3 DEF ReadClaim, CopyClaim, ClaimRead
    <2>4. CASE JudgeClaim(e)
      BY <2>4 DEF JudgeClaim, ForgetClaim, LooksStale, PreflightVerdict
    <2>5. CASE Abandon(e)
      BY <2>5 DEF Abandon, PreflightVerdict
    <2>6. CASE CreateClaim(e)
      BY <2>6 DEF CreateClaim
    <2>7. CASE RereadClaim(e)
      BY <2>7 DEF RereadClaim, CopyClaim, ClaimRead
    <2>8. CASE RejudgeClaim(e)
      BY <2>8 DEF RejudgeClaim, ForgetClaim, LooksStale
    <2>. QED BY <1>3, <2>1, <2>2, <2>3, <2>4, <2>5, <2>6, <2>7, <2>8 DEF
         Preflight
  <1>4. ASSUME NEW e \in Executor, Start(e)
        PROVE  PauseInv'
    BY <1>4 DEF Start, FillClaim, PublishCommit, PublishResult,
        PublishMasterPlan, PublishSubPlan, StartCommit, StartClaim
  <1>5. ASSUME NEW e \in Executor, Run(e)
        PROVE  PauseInv'
    BY <1>5 DEF Run, Invoke, InvokeFails, ReceiveReply, AdapterTimesOut
  <1>6. ASSUME NEW e \in Executor, Settle(e)
        PROVE  PauseInv'
    BY <1>6 DEF Settle, FinalizeClaim, SettleCommit, SettleResult,
        SettleRecord, SettleMasterPlan, SettleSubPlan, SettleClaim, CommitOf
  <1>7. ASSUME NEW e \in Executor, Stops(e)
        PROVE  PauseInv'
    BY <1>7 DEF Stops, RefuseWithoutCommit, StaleContext, Crash, LedgerError,
        StartFails, Active
  <1>8. CASE PowerLoss
    BY <1>8 DEF PowerLoss, AfterPowerLoss, Active
  <1>9. CASE PlannerStops \/ SyncRecord \/ UNCHANGED vars
    BY <1>9 DEF PlannerStops, SyncRecord, vars
  <1>. QED BY <1>1, <1>2, <1>3, <1>4, <1>5, <1>6, <1>7, <1>8, <1>9 DEF Next,
       Execute, Fault, Stops

\* AtMostOneInvocation: the adapter is started only while it never was.
LEMMA InvocationStep ==
  ASSUME ExecutionInv, [Next]_vars
  PROVE  AtMostOneInvocation'
  <1> USE DEF ExecutionInv, AtMostOneInvocation, ClaimantInv, TypeOK, FilesOK,
              ProcessesOK, AdapterOK, ClaimedPc
  <1>1. CASE Planner
    BY <1>1 DEF Planner, PlanMasterPlan, PlanSubPlan, PlanManifest, RecordPlan,
        Materialize
  <1>2. CASE AdapterApplies \/ AdapterExits
    BY <1>2 DEF AdapterApplies, AdapterExits
  <1>3. ASSUME NEW e \in Executor, Preflight(e)
        PROVE  AtMostOneInvocation'
    BY <1>3 DEF Preflight, Resolve, Bind, VerifyMaterialization, ReadCommit,
        ReadResult, ReadEvidence, ReadClaim, CopyClaim, ClaimRead, JudgeClaim,
        ForgetClaim, LooksStale, PreflightVerdict, Abandon, CreateClaim,
        RereadClaim, RejudgeClaim
  <1>4. ASSUME NEW e \in Executor, Start(e)
        PROVE  AtMostOneInvocation'
    BY <1>4 DEF Start, FillClaim, PublishCommit, PublishResult,
        PublishMasterPlan, PublishSubPlan, StartCommit, StartClaim
  <1>5. ASSUME NEW e \in Executor, Run(e)
        PROVE  AtMostOneInvocation'
    BY <1>5 DEF Run, Invoke, InvokeFails, ReceiveReply, AdapterTimesOut
  <1>6. ASSUME NEW e \in Executor, Settle(e)
        PROVE  AtMostOneInvocation'
    BY <1>6 DEF Settle, FinalizeClaim, SettleCommit, SettleResult,
        SettleRecord, SettleMasterPlan, SettleSubPlan, SettleClaim, CommitOf
  <1>7. ASSUME NEW e \in Executor, Stops(e)
        PROVE  AtMostOneInvocation'
    BY <1>7 DEF Stops, RefuseWithoutCommit, StaleContext, Crash, LedgerError,
        StartFails, Active
  <1>8. CASE PowerLoss
    BY <1>8 DEF PowerLoss, AfterPowerLoss, Active
  <1>9. CASE PlannerStops \/ SyncRecord \/ UNCHANGED vars
    BY <1>9 DEF PlannerStops, SyncRecord, vars
  <1>. QED BY <1>1, <1>2, <1>3, <1>4, <1>5, <1>6, <1>7, <1>8, <1>9 DEF Next,
       Execute, Fault, Stops

\* SuccessMeansApplied: a recorded success is of an applied effect.
LEMMA SuccessStep ==
  ASSUME ExecutionInv, [Next]_vars
  PROVE  SuccessMeansApplied'
  <1> USE DEF ExecutionInv, SuccessMeansApplied, SuccessRecorded, AdapterInv,
              TypeOK, FilesOK, ProcessesOK, AdapterOK, File, SettlingPc
  <1>1. CASE Planner
    BY <1>1 DEF Planner, PlanMasterPlan, PlanSubPlan, PlanManifest, RecordPlan,
        Materialize
  <1>2. CASE AdapterApplies \/ AdapterExits
    BY <1>2 DEF AdapterApplies, AdapterExits
  <1>3. ASSUME NEW e \in Executor, Preflight(e)
        PROVE  SuccessMeansApplied'
    BY <1>3 DEF Preflight, Resolve, Bind, VerifyMaterialization, ReadCommit,
        ReadResult, ReadEvidence, ReadClaim, CopyClaim, ClaimRead, JudgeClaim,
        ForgetClaim, LooksStale, PreflightVerdict, Abandon, CreateClaim,
        RereadClaim, RejudgeClaim
  <1>4. ASSUME NEW e \in Executor, Start(e)
        PROVE  SuccessMeansApplied'
    BY <1>4 DEF Start, FillClaim, PublishCommit, PublishResult,
        PublishMasterPlan, PublishSubPlan, StartCommit, StartClaim
  <1>5. ASSUME NEW e \in Executor, Run(e)
        PROVE  SuccessMeansApplied'
    BY <1>5 DEF Run, Invoke, InvokeFails, ReceiveReply, AdapterTimesOut
  <1>6. ASSUME NEW e \in Executor, Settle(e)
        PROVE  SuccessMeansApplied'
    BY <1>6 DEF Settle, FinalizeClaim, SettleCommit, SettleResult,
        SettleRecord, SettleMasterPlan, SettleSubPlan, SettleClaim, CommitOf
  <1>7. ASSUME NEW e \in Executor, Stops(e)
        PROVE  SuccessMeansApplied'
    BY <1>7 DEF Stops, RefuseWithoutCommit, StaleContext, Crash, LedgerError,
        StartFails, Active
  <1>8. CASE PowerLoss
    BY <1>8 DEF PowerLoss, AfterPowerLoss, Active
  <1>9. CASE PlannerStops \/ SyncRecord \/ UNCHANGED vars
    BY <1>9 DEF PlannerStops, SyncRecord, vars
  <1>. QED BY <1>1, <1>2, <1>3, <1>4, <1>5, <1>6, <1>7, <1>8, <1>9 DEF Next,
       Execute, Fault, Stops

\* EvidenceBeforeEffect: what was written before the adapter ran stays.
LEMMA BeforeEffectStep ==
  ASSUME ExecutionInv, [Next]_vars
  PROVE  EvidenceBeforeEffect'
  <1> USE DEF ExecutionInv, EvidenceBeforeEffect, ClaimantInv, PlannerFirst,
              AdapterInv, OwnerInv, OwnerCommit, OwnerResult, OwnerRecord,
              OwnerBundle, OwnerClaim, TypeOK, FilesOK, ProcessesOK, AdapterOK,
              Pc, ReadingPc, OwnerPc, ClaimedPc, SettlingPc, Done, Refusal,
              Halt, File, Owners, TerminalResult
  <1>1. CASE Planner
    BY <1>1 DEF Planner, PlanMasterPlan, PlanSubPlan, PlanManifest, RecordPlan,
        Materialize
  <1>2. CASE AdapterApplies \/ AdapterExits
    BY <1>2 DEF AdapterApplies, AdapterExits
  <1>3. ASSUME NEW e \in Executor, Preflight(e)
        PROVE  EvidenceBeforeEffect'
    BY <1>3 DEF Preflight, Resolve, Bind, VerifyMaterialization, ReadCommit,
        ReadResult, ReadEvidence, ReadClaim, CopyClaim, ClaimRead, JudgeClaim,
        ForgetClaim, LooksStale, PreflightVerdict, Abandon, CreateClaim,
        RereadClaim, RejudgeClaim
  <1>4. ASSUME NEW e \in Executor, Start(e)
        PROVE  EvidenceBeforeEffect'
    BY <1>4 DEF Start, FillClaim, PublishCommit, PublishResult,
        PublishMasterPlan, PublishSubPlan, StartCommit, StartClaim
  <1>5. ASSUME NEW e \in Executor, Run(e)
        PROVE  EvidenceBeforeEffect'
    BY <1>5 DEF Run, Invoke, InvokeFails, ReceiveReply, AdapterTimesOut
  <1>6. ASSUME NEW e \in Executor, Settle(e)
        PROVE  EvidenceBeforeEffect'
    BY <1>6 DEF Settle, FinalizeClaim, SettleCommit, SettleResult,
        SettleRecord, SettleMasterPlan, SettleSubPlan, SettleClaim, CommitOf
  <1>7. ASSUME NEW e \in Executor, Stops(e)
        PROVE  EvidenceBeforeEffect'
    BY <1>7 DEF Stops, RefuseWithoutCommit, StaleContext, Crash, LedgerError,
        StartFails, Active
  <1>8. CASE PowerLoss
    BY <1>8 DEF PowerLoss, AfterPowerLoss, Active
  <1>9. CASE PlannerStops \/ SyncRecord \/ UNCHANGED vars
    BY <1>9 DEF PlannerStops, SyncRecord, vars
  <1>. QED BY <1>1, <1>2, <1>3, <1>4, <1>5, <1>6, <1>7, <1>8, <1>9 DEF Next,
       Execute, Fault, Stops

\* TerminalClaimClosesBooks: the terminal claim is the owner's last write.
LEMMA BooksStep ==
  ASSUME ExecutionInv, [Next]_vars
  PROVE  TerminalClaimClosesBooks'
  <1> USE DEF ExecutionInv, TerminalClaimClosesBooks, Agree, ClaimantInv,
              PlannerFirst, AdapterInv, OwnerInv, OwnerCommit, OwnerResult,
              OwnerRecord, OwnerBundle, OwnerClaim, TypeOK, FilesOK,
              ProcessesOK, AdapterOK, Pc, ReadingPc, OwnerPc, ClaimedPc,
              SettlingPc, Done, Refusal, Halt, File, Owners,
              TERMINAL_CLAIM_STATUSES, TerminalResult
  <1>1. CASE Planner
    BY <1>1 DEF Planner, PlanMasterPlan, PlanSubPlan, PlanManifest, RecordPlan,
        Materialize
  <1>2. CASE AdapterApplies \/ AdapterExits
    BY <1>2 DEF AdapterApplies, AdapterExits
  <1>3. ASSUME NEW e \in Executor, Preflight(e)
        PROVE  TerminalClaimClosesBooks'
    BY <1>3 DEF Preflight, Resolve, Bind, VerifyMaterialization, ReadCommit,
        ReadResult, ReadEvidence, ReadClaim, CopyClaim, ClaimRead, JudgeClaim,
        ForgetClaim, LooksStale, PreflightVerdict, Abandon, CreateClaim,
        RereadClaim, RejudgeClaim
  <1>4. ASSUME NEW e \in Executor, Start(e)
        PROVE  TerminalClaimClosesBooks'
    BY <1>4 DEF Start, FillClaim, PublishCommit, PublishResult,
        PublishMasterPlan, PublishSubPlan, StartCommit, StartClaim
  <1>5. ASSUME NEW e \in Executor, Run(e)
        PROVE  TerminalClaimClosesBooks'
    BY <1>5 DEF Run, Invoke, InvokeFails, ReceiveReply, AdapterTimesOut
  <1>6. ASSUME NEW e \in Executor, Settle(e)
        PROVE  TerminalClaimClosesBooks'
    BY <1>6 DEF Settle, FinalizeClaim, SettleCommit, SettleResult,
        SettleRecord, SettleMasterPlan, SettleSubPlan, SettleClaim, CommitOf
  <1>7. ASSUME NEW e \in Executor, Stops(e)
        PROVE  TerminalClaimClosesBooks'
    BY <1>7 DEF Stops, RefuseWithoutCommit, StaleContext, Crash, LedgerError,
        StartFails, Active
  <1>8. CASE PowerLoss
    BY <1>8 DEF PowerLoss, AfterPowerLoss, Active
  <1>9. CASE PlannerStops \/ SyncRecord \/ UNCHANGED vars
    BY <1>9 DEF PlannerStops, SyncRecord, vars
  <1>. QED BY <1>1, <1>2, <1>3, <1>4, <1>5, <1>6, <1>7, <1>8, <1>9 DEF Next,
       Execute, Fault, Stops

\* CopyInv: a terminal result stays, so an old copy of a terminal claim will do.
LEMMA CopyStep ==
  ASSUME ExecutionInv, [Next]_vars
  PROVE  CopyInv'
  <1> USE DEF ExecutionInv, CopyInv, TerminalClaimClosesBooks,
              RecordInv, Agree, ClaimantInv, OwnerInv, OwnerCommit,
              OwnerResult, OwnerRecord, OwnerBundle, OwnerClaim, AdapterInv,
              TypeOK, FilesOK, ProcessesOK, AdapterOK, Pc, ReadingPc, OwnerPc,
              ClaimedPc, SettlingPc, Done, Refusal, Halt, File, Owners,
              TERMINAL_CLAIM_STATUSES, TerminalResult
  <1>1. CASE Planner
    BY <1>1 DEF Planner, PlanMasterPlan, PlanSubPlan, PlanManifest, RecordPlan,
        Materialize
  <1>2. CASE AdapterApplies \/ AdapterExits
    BY <1>2 DEF AdapterApplies, AdapterExits
  <1>3. ASSUME NEW e \in Executor, Preflight(e)
        PROVE  CopyInv'
    BY <1>3 DEF Preflight, Resolve, Bind, VerifyMaterialization, ReadCommit,
        ReadResult, ReadEvidence, ReadClaim, CopyClaim, ClaimRead, JudgeClaim,
        ForgetClaim, LooksStale, PreflightVerdict, Abandon, CreateClaim,
        RereadClaim, RejudgeClaim
  <1>4. ASSUME NEW e \in Executor, Start(e)
        PROVE  CopyInv'
    BY <1>4 DEF Start, FillClaim, PublishCommit, PublishResult,
        PublishMasterPlan, PublishSubPlan, StartCommit, StartClaim
  <1>5. ASSUME NEW e \in Executor, Run(e)
        PROVE  CopyInv'
    BY <1>5 DEF Run, Invoke, InvokeFails, ReceiveReply, AdapterTimesOut
  <1>6. ASSUME NEW e \in Executor, Settle(e)
        PROVE  CopyInv'
    BY <1>6 DEF Settle, FinalizeClaim, SettleCommit, SettleResult,
        SettleRecord, SettleMasterPlan, SettleSubPlan, SettleClaim, CommitOf
  <1>7. ASSUME NEW e \in Executor, Stops(e)
        PROVE  CopyInv'
    BY <1>7 DEF Stops, RefuseWithoutCommit, StaleContext, Crash, LedgerError,
        StartFails, Active
  <1>8. CASE PowerLoss
    BY <1>8 DEF PowerLoss, AfterPowerLoss, Active
  <1>9. CASE PlannerStops \/ SyncRecord \/ UNCHANGED vars
    BY <1>9 DEF PlannerStops, SyncRecord, vars
  <1>. QED BY <1>1, <1>2, <1>3, <1>4, <1>5, <1>6, <1>7, <1>8, <1>9 DEF Next,
       Execute, Fault, Stops

\* AlreadyCommittedIsFinal: the answer is given on a committed record or a
\* terminal claim.
LEMMA AnswerStep ==
  ASSUME ExecutionInv, [Next]_vars
  PROVE  AlreadyCommittedIsFinal'
  <1> USE DEF ExecutionInv, AlreadyCommittedIsFinal, CopyInv,
              TerminalClaimClosesBooks,
              RecordInv, Agree, ClaimantInv, OwnerInv, OwnerCommit,
              OwnerResult, OwnerRecord, OwnerBundle, OwnerClaim, AdapterInv,
              TypeOK, FilesOK, ProcessesOK, AdapterOK, Pc, ReadingPc, OwnerPc,
              ClaimedPc, SettlingPc, Done, Refusal, Halt, File, Owners,
              TERMINAL_CLAIM_STATUSES, TerminalResult
  <1>1. CASE Planner
    BY <1>1 DEF Planner, PlanMasterPlan, PlanSubPlan, PlanManifest, RecordPlan,
        Materialize
  <1>2. CASE AdapterApplies \/ AdapterExits
    BY <1>2 DEF AdapterApplies, AdapterExits
  <1>3. ASSUME NEW e \in Executor, Preflight(e)
        PROVE  AlreadyCommittedIsFinal'
    BY <1>3 DEF Preflight, Resolve, Bind, VerifyMaterialization, ReadCommit,
        ReadResult, ReadEvidence, ReadClaim, CopyClaim, ClaimRead, JudgeClaim,
        ForgetClaim, LooksStale, PreflightVerdict, Abandon, CreateClaim,
        RereadClaim, RejudgeClaim
  <1>4. ASSUME NEW e \in Executor, Start(e)
        PROVE  AlreadyCommittedIsFinal'
    BY <1>4 DEF Start, FillClaim, PublishCommit, PublishResult,
        PublishMasterPlan, PublishSubPlan, StartCommit, StartClaim
  <1>5. ASSUME NEW e \in Executor, Run(e)
        PROVE  AlreadyCommittedIsFinal'
    BY <1>5 DEF Run, Invoke, InvokeFails, ReceiveReply, AdapterTimesOut
  <1>6. ASSUME NEW e \in Executor, Settle(e)
        PROVE  AlreadyCommittedIsFinal'
    BY <1>6 DEF Settle, FinalizeClaim, SettleCommit, SettleResult,
        SettleRecord, SettleMasterPlan, SettleSubPlan, SettleClaim, CommitOf
  <1>7. ASSUME NEW e \in Executor, Stops(e)
        PROVE  AlreadyCommittedIsFinal'
    BY <1>7 DEF Stops, RefuseWithoutCommit, StaleContext, Crash, LedgerError,
        StartFails, Active
  <1>8. CASE PowerLoss
    BY <1>8 DEF PowerLoss, AfterPowerLoss, Active
  <1>9. CASE PlannerStops \/ SyncRecord \/ UNCHANGED vars
    BY <1>9 DEF PlannerStops, SyncRecord, vars
  <1>. QED BY <1>1, <1>2, <1>3, <1>4, <1>5, <1>6, <1>7, <1>8, <1>9 DEF Next,
       Execute, Fault, Stops

-----------------------------------------------------------------------------
\* A plan that was never executed, and one whose claim was lost, are fine.
LEMMA InitInv == Init => ExecutionInv
<1> SUFFICES ASSUME Init PROVE ExecutionInv
  OBVIOUS
<1> USE DEF FreshLedger, DamagedLedger, LeftBehind, File
<1> USE DEF RecordStatus, ManifestStatus, BundleStatus, CommitStatus,
            ResultStatus, ClaimStatus
<1>1. FilesOK
  <2>1. CASE ledger = FreshLedger
    BY <2>1 DEF Init, FilesOK, Status
  <2>2. CASE ledger \in DamagedLedger
    <3>1. PICK left \in LeftBehind :
            ledger = [FreshLedger EXCEPT !["plan"] = "planned",
                                         !["plan_manifest"] = "complete",
                                         !["master_plan"] = "committing",
                                         !["sub_plan"] = "committing",
                                         !["commit"] = left[1],
                                         !["result"] = left[2]]
      BY <2>2
    <3>2. left[1] \in CommitStatus /\ left[2] \in ResultStatus
      OBVIOUS
    <3>. QED BY <3>1, <3>2 DEF Init, FilesOK, Status
  <2>. QED BY <2>1, <2>2 DEF Init
<1>2. ProcessesOK
  BY DEF Init, ProcessesOK, Pc
<1>3. AdapterOK
  <2>1. applied \in BOOLEAN
    BY DEF Init
  <2>2. invocations \in Seq(Executor)
    BY DEF Init
  <2>. QED BY <2>1, <2>2 DEF Init, AdapterOK
<1>4. /\ ledger["claim"] = "absent"
      /\ ledger["plan"] # "committed" /\ syncedRecord # "committed"
      /\ planner \notin {"planned", "stopped"} => ledger["plan"] = "absent"
  BY DEF Init
<1>5. /\ \A e \in Executor : pc[e] = "start" /\ seenRecord[e] = "none"
      /\ invocations = <<>> /\ Len(invocations) = 0
      /\ adapter = "idle" /\ reply = "none"
      /\ SuccessRecorded(ledger) => applied
  BY DEF Init, SuccessRecorded
<1>6. Owners = {}
  BY <1>5 DEF Owners, OwnerPc, ClaimedPc, SettlingPc
<1>7. PlannerFirst /\ ClaimantInv /\ EvidenceInv /\ OwnerInv
  BY <1>4, <1>5, <1>6
     DEF PlannerFirst, ClaimantInv, EvidenceInv, OwnerInv, OwnerCommit,
         OwnerResult, OwnerRecord, OwnerBundle, OwnerClaim, OwnerPc,
         ClaimedPc, SettlingPc
<1>8. AdapterInv /\ RecordInv /\ CopyInv /\ PauseInv
  BY <1>4, <1>5, <1>6
     DEF AdapterInv, RecordInv, CopyInv, PauseInv, AboutToAbandon,
         AbandonedMeansOwnerGone, SettlingPc
<1>9. /\ AtMostOneInvocation /\ SuccessMeansApplied /\ EvidenceBeforeEffect
      /\ TerminalClaimClosesBooks /\ AlreadyCommittedIsFinal
  BY <1>4, <1>5
     DEF AtMostOneInvocation, SuccessMeansApplied, EvidenceBeforeEffect,
         TerminalClaimClosesBooks, AlreadyCommittedIsFinal,
         TERMINAL_CLAIM_STATUSES
<1>. QED BY <1>1, <1>2, <1>3, <1>7, <1>8, <1>9 DEF ExecutionInv, TypeOK

LEMMA NextInv == ExecutionInv /\ [Next]_vars => ExecutionInv'
<1> SUFFICES ASSUME ExecutionInv, [Next]_vars PROVE ExecutionInv'
  OBVIOUS
<1>1. TypeOK
  BY DEF ExecutionInv
<1>2. TypeOK'
  BY <1>1, FilesStep, ProcessesStep, AdapterStep DEF TypeOK
<1>. QED BY <1>2, PlannerFirstStep, ClaimantStep, EvidenceStep, OwnerStep,
            AdapterInvStep, RecordStep, CopyStep, PauseStep, InvocationStep,
            SuccessStep, BeforeEffectStep, BooksStep, AnswerStep
         DEF ExecutionInv

\* The invariant holds in every state of every behaviour.
THEOREM Inductive == Spec => []ExecutionInv
<1>1. ExecutionInv /\ [Next]_vars => ExecutionInv'
  BY NextInv
<1>. QED BY InitInv, <1>1, PTL DEF Spec

\* Every variable keeps its type, every file a status it may have.
THEOREM TypeCorrect == Spec => []TypeOK
<1>1. ExecutionInv => TypeOK
  BY DEF ExecutionInv
<1>. QED BY <1>1, Inductive, PTL

\* However many executes race and whatever fails, the adapter of a plan is
\* started at most once.
THEOREM OneInvocation == Spec => []AtMostOneInvocation
<1>1. ExecutionInv => AtMostOneInvocation
  BY DEF ExecutionInv
<1>. QED BY <1>1, Inductive, PTL

\* No commit and no result says success of an effect that did not happen.
THEOREM TruthfulSuccess == Spec => []SuccessMeansApplied
<1>1. ExecutionInv => SuccessMeansApplied
  BY DEF ExecutionInv
<1>. QED BY <1>1, Inductive, PTL

\* When the adapter runs, the files that betray its run are on disk.
THEOREM WriteAhead == Spec => []EvidenceBeforeEffect
<1>1. ExecutionInv => EvidenceBeforeEffect
  BY DEF ExecutionInv
<1>. QED BY <1>1, Inductive, PTL

\* A record says committed, a claim says terminal, and an execute answers
\* "already committed" only when commit and result are settled and agree.
THEOREM SettledBooks ==
    Spec => [](/\ CommittedRecordIsSettled
               /\ TerminalClaimClosesBooks
               /\ AlreadyCommittedIsFinal)
<1>1. ExecutionInv => /\ CommittedRecordIsSettled
                      /\ TerminalClaimClosesBooks
                      /\ AlreadyCommittedIsFinal
  BY DEF ExecutionInv, RecordInv, CommittedRecordIsSettled
<1>. QED BY <1>1, Inductive, PTL

\* If neither owners nor readers are held up for long, an abandoned claim has
\* no owner left.
THEOREM AbandonedIsOrphan ==
    ASSUME NoLongPause PROVE Spec => []AbandonedMeansOwnerGone
<1>1. ExecutionInv => AbandonedMeansOwnerGone
  BY DEF ExecutionInv, PauseInv
<1>. QED BY <1>1, Inductive, PTL

-----------------------------------------------------------------------------
(* What a step may never do.                                               *)

OutcomeKept == ledger["result"] \in TerminalResult
                    => ledger'["result"] = ledger["result"]

OnlyUntouched == ledger["claim"] = "absent" /\ ledger'["claim"] # "absent"
                    => ledger["commit"] = "absent" /\ ledger["result"] = "absent"

TerminalClaimKept == ledger["claim"] \in TERMINAL_CLAIM_STATUSES
                        => ledger'["claim"] = ledger["claim"]

\* OutcomeKept: an owner that writes the result finds it unsettled.
LEMMA OutcomeStep ==
  ASSUME ExecutionInv, [Next]_vars
  PROVE  OutcomeKept
  <1> USE DEF OutcomeKept, ExecutionInv, OwnerInv, OwnerCommit, OwnerResult,
              OwnerRecord, OwnerBundle, OwnerClaim, TypeOK, FilesOK,
              ProcessesOK, AdapterOK, Pc, ReadingPc, OwnerPc, ClaimedPc,
              SettlingPc, Done, Refusal, Halt, File, TerminalResult
  <1>1. CASE Planner
    BY <1>1 DEF Planner, PlanMasterPlan, PlanSubPlan, PlanManifest, RecordPlan,
        Materialize
  <1>2. CASE AdapterApplies \/ AdapterExits
    BY <1>2 DEF AdapterApplies, AdapterExits
  <1>3. ASSUME NEW e \in Executor, Preflight(e)
        PROVE  OutcomeKept
    BY <1>3 DEF Preflight, Resolve, Bind, VerifyMaterialization, ReadCommit,
        ReadResult, ReadEvidence, ReadClaim, CopyClaim, ClaimRead, JudgeClaim,
        ForgetClaim, LooksStale, PreflightVerdict, Abandon, CreateClaim,
        RereadClaim, RejudgeClaim
  <1>4. ASSUME NEW e \in Executor, Start(e)
        PROVE  OutcomeKept
    BY <1>4 DEF Start, FillClaim, PublishCommit, PublishResult,
        PublishMasterPlan, PublishSubPlan, StartCommit, StartClaim
  <1>5. ASSUME NEW e \in Executor, Run(e)
        PROVE  OutcomeKept
    BY <1>5 DEF Run, Invoke, InvokeFails, ReceiveReply, AdapterTimesOut
  <1>6. ASSUME NEW e \in Executor, Settle(e)
        PROVE  OutcomeKept
    BY <1>6 DEF Settle, FinalizeClaim, SettleCommit, SettleResult,
        SettleRecord, SettleMasterPlan, SettleSubPlan, SettleClaim, CommitOf
  <1>7. ASSUME NEW e \in Executor, Stops(e)
        PROVE  OutcomeKept
    BY <1>7 DEF Stops, RefuseWithoutCommit, StaleContext, Crash, LedgerError,
        StartFails, Active
  <1>8. CASE PowerLoss
    BY <1>8 DEF PowerLoss, AfterPowerLoss, Active
  <1>9. CASE PlannerStops \/ SyncRecord \/ UNCHANGED vars
    BY <1>9 DEF PlannerStops, SyncRecord, vars
  <1>. QED BY <1>1, <1>2, <1>3, <1>4, <1>5, <1>6, <1>7, <1>8, <1>9 DEF Next,
       Execute, Fault, Stops

\* OnlyUntouched: what creates a claim looked for commit and result without
\* one.
LEMMA UntouchedStep ==
  ASSUME ExecutionInv, [Next]_vars
  PROVE  OnlyUntouched
  <1> USE DEF OnlyUntouched, ExecutionInv, ClaimantInv, EvidenceInv, Owners,
              TypeOK, FilesOK, ProcessesOK, AdapterOK, Pc, ReadingPc, OwnerPc,
              ClaimedPc, SettlingPc, Done, Refusal, Halt, File
  <1>1. CASE Planner
    BY <1>1 DEF Planner, PlanMasterPlan, PlanSubPlan, PlanManifest, RecordPlan,
        Materialize
  <1>2. CASE AdapterApplies \/ AdapterExits
    BY <1>2 DEF AdapterApplies, AdapterExits
  <1>3. ASSUME NEW e \in Executor, Preflight(e)
        PROVE  OnlyUntouched
    BY <1>3 DEF Preflight, Resolve, Bind, VerifyMaterialization, ReadCommit,
        ReadResult, ReadEvidence, ReadClaim, CopyClaim, ClaimRead, JudgeClaim,
        ForgetClaim, LooksStale, PreflightVerdict, Abandon, CreateClaim,
        RereadClaim, RejudgeClaim
  <1>4. ASSUME NEW e \in Executor, Start(e)
        PROVE  OnlyUntouched
    BY <1>4 DEF Start, FillClaim, PublishCommit, PublishResult,
        PublishMasterPlan, PublishSubPlan, StartCommit, StartClaim
  <1>5. ASSUME NEW e \in Executor, Run(e)
        PROVE  OnlyUntouched
    BY <1>5 DEF Run, Invoke, InvokeFails, ReceiveReply, AdapterTimesOut
  <1>6. ASSUME NEW e \in Executor, Settle(e)
        PROVE  OnlyUntouched
    BY <1>6 DEF Settle, FinalizeClaim, SettleCommit, SettleResult,
        SettleRecord, SettleMasterPlan, SettleSubPlan, SettleClaim, CommitOf
  <1>7. ASSUME NEW e \in Executor, Stops(e)
        PROVE  OnlyUntouched
    BY <1>7 DEF Stops, RefuseWithoutCommit, StaleContext, Crash, LedgerError,
        StartFails, Active
  <1>8. CASE PowerLoss
    BY <1>8 DEF PowerLoss, AfterPowerLoss, Active
  <1>9. CASE PlannerStops \/ SyncRecord \/ UNCHANGED vars
    BY <1>9 DEF PlannerStops, SyncRecord, vars
  <1>. QED BY <1>1, <1>2, <1>3, <1>4, <1>5, <1>6, <1>7, <1>8, <1>9 DEF Next,
       Execute, Fault, Stops

\* TerminalClaimKept: nobody is left to write a terminal claim.
LEMMA TerminalClaimStep ==
  ASSUME ExecutionInv, NoLongPause, [Next]_vars
  PROVE  TerminalClaimKept
  <1> USE DEF TerminalClaimKept, ExecutionInv, PauseInv, AboutToAbandon, OwnerInv,
              OwnerCommit, OwnerResult, OwnerRecord, OwnerBundle, OwnerClaim,
              TypeOK, FilesOK, ProcessesOK, AdapterOK, Pc, ReadingPc, OwnerPc,
              ClaimedPc, SettlingPc, Done, Refusal, Halt, File,
              TERMINAL_CLAIM_STATUSES, TerminalResult
  <1>1. CASE Planner
    BY <1>1 DEF Planner, PlanMasterPlan, PlanSubPlan, PlanManifest, RecordPlan,
        Materialize
  <1>2. CASE AdapterApplies \/ AdapterExits
    BY <1>2 DEF AdapterApplies, AdapterExits
  <1>3. ASSUME NEW e \in Executor, Preflight(e)
        PROVE  TerminalClaimKept
    BY <1>3 DEF Preflight, Resolve, Bind, VerifyMaterialization, ReadCommit,
        ReadResult, ReadEvidence, ReadClaim, CopyClaim, ClaimRead, JudgeClaim,
        ForgetClaim, LooksStale, PreflightVerdict, Abandon, CreateClaim,
        RereadClaim, RejudgeClaim
  <1>4. ASSUME NEW e \in Executor, Start(e)
        PROVE  TerminalClaimKept
    BY <1>4 DEF Start, FillClaim, PublishCommit, PublishResult,
        PublishMasterPlan, PublishSubPlan, StartCommit, StartClaim
  <1>5. ASSUME NEW e \in Executor, Run(e)
        PROVE  TerminalClaimKept
    BY <1>5 DEF Run, Invoke, InvokeFails, ReceiveReply, AdapterTimesOut
  <1>6. ASSUME NEW e \in Executor, Settle(e)
        PROVE  TerminalClaimKept
    BY <1>6 DEF Settle, FinalizeClaim, SettleCommit, SettleResult,
        SettleRecord, SettleMasterPlan, SettleSubPlan, SettleClaim, CommitOf
  <1>7. ASSUME NEW e \in Executor, Stops(e)
        PROVE  TerminalClaimKept
    BY <1>7 DEF Stops, RefuseWithoutCommit, StaleContext, Crash, LedgerError,
        StartFails, Active
  <1>8. CASE PowerLoss
    BY <1>8 DEF PowerLoss, AfterPowerLoss, Active
  <1>9. CASE PlannerStops \/ SyncRecord \/ UNCHANGED vars
    BY <1>9 DEF PlannerStops, SyncRecord, vars
  <1>. QED BY <1>1, <1>2, <1>3, <1>4, <1>5, <1>6, <1>7, <1>8, <1>9 DEF Next,
       Execute, Fault, Stops

\* [OneShot!Next]_(OneShot!vars): every step is a step of OneShotPlan or none.
LEMMA OneShotStep ==
  ASSUME ExecutionInv, [Next]_vars
  PROVE  [OneShot!Next]_(OneShot!vars)
  <1> USE DEF ExecutionInv, ClaimantInv, EvidenceInv, PlannerFirst, OwnerInv,
              OwnerCommit, OwnerResult, OwnerRecord, OwnerBundle, OwnerClaim,
              AdapterInv, TypeOK, FilesOK, ProcessesOK, AdapterOK, Pc,
              ReadingPc, OwnerPc, ClaimedPc, SettlingPc, Done, Refusal, Halt,
              File, Owners, TERMINAL_CLAIM_STATUSES, TerminalResult,
              OneShot!Next, OneShot!Claim, OneShot!StartAdapter,
              OneShot!TakeEffect, OneShot!Settle, OneShot!vars
  <1>1. CASE Planner
    BY <1>1 DEF Planner, PlanMasterPlan, PlanSubPlan, PlanManifest, RecordPlan,
        Materialize
  <1>2. CASE AdapterApplies \/ AdapterExits
    <2>1. CASE AdapterApplies
      <3>1. invocations # <<>> /\ invocations \in Seq(Executor)
        BY <2>1 DEF AdapterApplies
      <3>2. Len(invocations) = 1
        <4>1. Len(invocations) <= 1
          BY DEF AtMostOneInvocation
        <4>. QED BY <3>1, <4>1, OneElement
      <3>3. applied = FALSE /\ applied' = TRUE
        BY <2>1 DEF AdapterApplies
      <3>. QED BY <2>1, <3>2, <3>3 DEF AdapterApplies
    <2>2. CASE AdapterExits
      BY <2>2 DEF AdapterExits
    <2>. QED BY <1>2, <2>1, <2>2
  <1>3. ASSUME NEW e \in Executor, Preflight(e)
        PROVE  [OneShot!Next]_(OneShot!vars)
    BY <1>3 DEF Preflight, Resolve, Bind, VerifyMaterialization, ReadCommit,
        ReadResult, ReadEvidence, ReadClaim, CopyClaim, ClaimRead, JudgeClaim,
        ForgetClaim, LooksStale, PreflightVerdict, Abandon, CreateClaim,
        RereadClaim, RejudgeClaim
  <1>4. ASSUME NEW e \in Executor, Start(e)
        PROVE  [OneShot!Next]_(OneShot!vars)
    BY <1>4 DEF Start, FillClaim, PublishCommit, PublishResult,
        PublishMasterPlan, PublishSubPlan, StartCommit, StartClaim
  <1>5. ASSUME NEW e \in Executor, Run(e)
        PROVE  [OneShot!Next]_(OneShot!vars)
    <2>1. CASE Invoke(e)
      <3>1. Len(invocations) = 0 /\ Len(invocations') = 1
        BY <2>1 DEF Invoke
      <3>. QED BY <2>1, <3>1 DEF Invoke
    <2>2. CASE InvokeFails(e) \/ ReceiveReply(e) \/ AdapterTimesOut(e)
      BY <2>2 DEF InvokeFails, ReceiveReply, AdapterTimesOut
    <2>. QED BY <1>5, <2>1, <2>2 DEF Run
  <1>6. ASSUME NEW e \in Executor, Settle(e)
        PROVE  [OneShot!Next]_(OneShot!vars)
    BY <1>6 DEF Settle, FinalizeClaim, SettleCommit, SettleResult,
        SettleRecord, SettleMasterPlan, SettleSubPlan, SettleClaim, CommitOf
  <1>7. ASSUME NEW e \in Executor, Stops(e)
        PROVE  [OneShot!Next]_(OneShot!vars)
    BY <1>7 DEF Stops, RefuseWithoutCommit, StaleContext, Crash, LedgerError,
        StartFails, Active
  <1>8. CASE PowerLoss
    BY <1>8 DEF PowerLoss, AfterPowerLoss, Active
  <1>9. CASE PlannerStops \/ SyncRecord \/ UNCHANGED vars
    BY <1>9 DEF PlannerStops, SyncRecord, vars
  <1>. QED BY <1>1, <1>2, <1>3, <1>4, <1>5, <1>6, <1>7, <1>8, <1>9 DEF Next,
       Execute, Fault, Stops

\* A recorded outcome is never replaced.
THEOREM FinalOutcome == Spec => OutcomeIsFinal
<1>1. ExecutionInv /\ [Next]_vars => [OutcomeKept]_vars
  BY OutcomeStep
<1>. QED BY <1>1, Inductive, PTL DEF Spec, OutcomeIsFinal, OutcomeKept

\* A claim is created only for a plan that no execution has touched.
THEOREM UntouchedPlan == Spec => ClaimOnlyUntouchedPlan
<1>1. ExecutionInv /\ [Next]_vars => [OnlyUntouched]_vars
  BY UntouchedStep
<1>. QED BY <1>1, Inductive, PTL DEF Spec, ClaimOnlyUntouchedPlan, OnlyUntouched

\* If neither owners nor readers are held up for long, a terminal claim is
\* never rewritten.
THEOREM StableTerminalClaim ==
    ASSUME NoLongPause PROVE Spec => TerminalClaimStable
<1>1. ExecutionInv /\ [Next]_vars => [TerminalClaimKept]_vars
  BY TerminalClaimStep
<1>. QED BY <1>1, Inductive, PTL DEF Spec, TerminalClaimStable, TerminalClaimKept

\* Files and processes together implement OneShotPlan: a plan is claimed,
\* started and settled at most once, in that order.
THEOREM Refinement == Spec => ImplementsOneShot
<1>1. Init => OneShot!Init
  <2> SUFFICES ASSUME Init PROVE OneShot!Init
    OBVIOUS
  <2>1. CASE ledger = FreshLedger /\ applied = FALSE
    BY <2>1 DEF Init, FreshLedger, File, OneShot!Init, TerminalResult
  <2>2. CASE ledger \in DamagedLedger /\ applied \in BOOLEAN
                /\ (SuccessRecorded(ledger) => applied)
    BY <2>2 DEF Init, DamagedLedger, LeftBehind, FreshLedger, File,
                SuccessRecorded, OneShot!Init, TerminalResult, CommitStatus,
                ResultStatus
  <2>. QED BY <2>1, <2>2 DEF Init
<1>2. ExecutionInv /\ [Next]_vars => [OneShot!Next]_(OneShot!vars)
  BY OneShotStep
<1>. QED BY <1>1, <1>2, Inductive, PTL
         DEF Spec, ImplementsOneShot, OneShot!Spec

=============================================================================
