------------------------- MODULE ConnectorCallProofs -------------------------
(***************************************************************************)
(* Proofs about ConnectorCall, for every choice of the timeouts.  The      *)
(* inductive invariant bounds when each of the two waiting processes       *)
(* leaves each of its phases, and says who can still be running then.      *)
(***************************************************************************)
EXTENDS ConnectorCall, TLAPS

\* Both waiters, while they run, never outstay the deadline of their phase.
XctxOnTime ==
    /\ phase["xctx"] \in {"wait", "grace", "reap", "done"}
    /\ life["xctx"] \in {"running", "exited", "dead"}
    /\ Runs("xctx") => now <= deadline["xctx"]
    /\ phase["xctx"] = "wait" => deadline["xctx"] = OuterTimeout
    /\ phase["xctx"] = "grace" => deadline["xctx"] <= OuterTimeout + Grace
    /\ deadline["xctx"] <= OuterTimeout + 2 * Grace

\* An adapter has no deadline of its own; the absolute bounds are those of a
\* pass-through target.
SupervisorOnTime ==
    /\ phase["supervisor"] \in Phase \ {"done"}
    /\ life["supervisor"] # "unborn"
    /\ Runs("supervisor") /\ phase["supervisor"] # "adapter" =>
          now <= deadline["supervisor"]
    /\ phase["supervisor"] = "boot" => deadline["supervisor"] <= Startup
    /\ phase["supervisor"] = "wait" =>
          deadline["supervisor"] = born + InnerTimeout
    /\ kind = "passthrough" =>
          /\ born <= Startup
          /\ phase["supervisor"] = "grace" =>
                deadline["supervisor"] <= Startup + InnerTimeout + Grace
          /\ phase["supervisor"] = "reap" =>
                deadline["supervisor"] <= Startup + InnerTimeout + 2 * Grace
          /\ deadline["supervisor"] <=
                Startup + InnerTimeout + 2 * Grace + Wrapup

\* The target runs only under a supervisor that waits for it, unless that
\* supervisor was killed; xctx answers only when the supervisor does not run.
TargetWatched ==
    /\ life["supervisor"] \in {"running", "exited"} /\ Runs("target") =>
          At("supervisor", "wait")
    /\ phase["supervisor"] = "boot" => life["target"] = "unborn"
    /\ kind = "adapter" => life["target"] = "unborn"
    /\ kind = "passthrough" =>
          /\ phase["supervisor"] # "adapter"
          /\ Runs("supervisor") /\ life["target"] \in {"dying", "dead"} =>
                timedOut["supervisor"] /\ phase["supervisor"] # "wait"
    /\ life["target"] = "unborn" => phase["supervisor"] \in {"boot", "adapter"}
    /\ phase["supervisor"] = "report" => kind = "passthrough"
    /\ phase["xctx"] # "wait" => ~Runs("supervisor")
    /\ answer # "none" => phase["xctx"] = "done"

\* With InnerFirst, xctx never kills a supervisor that has a target to kill.
NoOrphan ==
    InnerFirst /\ kind # "commands" /\ ~lost /\ ~Runs("supervisor") =>
        ~Runs("target")

\* What is printed stays, and an object is passed on from the target only.
OutputsAgree ==
    /\ \A p \in Process : printed[p] # "none" => life[p] = "exited"
    /\ printed["target"] \in {"object", "silence"} => applied
    /\ printed["supervisor"] \in {"object", "silence"} =>
          /\ applied
          /\ kind = "passthrough" => printed["target"] \in {"object", "silence"}
    /\ answer = "object" => printed["supervisor"] \in {"object", "silence"}

\* With ReportInTime, xctx never has to kill the supervisor of a pass-through
\* target, and a killed target is what that supervisor reports.
ReportHeard ==
    ReportInTime /\ kind = "passthrough" /\ ~lost =>
        /\ ~timedOut["xctx"]
        /\ life["supervisor"] \in {"running", "exited"}
        /\ life["supervisor"] = "exited" /\ At("xctx", "wait") =>
              now <= Startup + InnerTimeout + 2 * Grace + Wrapup
        /\ life["supervisor"] = "exited" /\ life["target"] \in {"dying", "dead"}
              => printed["supervisor"] \in {"error_object", "long"}
        /\ answer # "none" => answer = AnswerOf(printed["supervisor"])
        /\ phase["xctx"] = "done" => life["supervisor"] = "exited"

CallInv ==
    /\ TypeOK
    /\ XctxOnTime
    /\ SupervisorOnTime
    /\ TargetWatched
    /\ NoOrphan
    /\ OutputsAgree
    /\ ReportHeard

-----------------------------------------------------------------------------
USE TimesAssumption, KindsAssumption
    DEF Kind, Process, Waiter, Child, Timeout, Life, Phase, Output, Answer,
        Gone, Runs, At

(* SeeExit preserves the invariant. A child that is gone is seen before time passes, so its waiter is on time. *)
LEMMA SeeExitKeeps ==
  ASSUME CallInv, NEW w \in Waiter, SeeExit(w)
  PROVE  CallInv'
<1>1. TypeOK'
  BY DEF CallInv, TypeOK, SeeExit, Captured, Enter
<1>2. XctxOnTime'
  BY DEF CallInv, TypeOK, XctxOnTime, SeeExit, Captured, Enter
<1>3. SupervisorOnTime'
  BY DEF CallInv, TypeOK, SupervisorOnTime, SeeExit, Captured, Enter
<1>4. TargetWatched'
  BY DEF CallInv, TypeOK, TargetWatched, SeeExit, Captured, Enter
<1>5. NoOrphan'
  BY DEF CallInv, TypeOK, NoOrphan, InnerFirst, SeeExit, Captured, Enter
<1>6. OutputsAgree'
  BY DEF CallInv, TypeOK, OutputsAgree, SeeExit, Captured, Enter
<1>7. ReportHeard'
  BY DEF CallInv, TypeOK, ReportHeard, ReportInTime, AnswerOf, SeeExit,
        Captured, Enter
<1> QED BY <1>1, <1>2, <1>3, <1>4, <1>5, <1>6, <1>7 DEF CallInv

(* ReachDeadline preserves the invariant. With InnerFirst the supervisor is past its wait when xctx kills it. *)
LEMMA ReachDeadlineKeeps ==
  ASSUME CallInv, NEW w \in Waiter, ReachDeadline(w)
  PROVE  CallInv'
<1>1. TypeOK'
  BY DEF CallInv, TypeOK, ReachDeadline, Kill, Enter
<1>2. XctxOnTime'
  BY DEF CallInv, TypeOK, XctxOnTime, ReachDeadline, Kill, Enter
<1>3. SupervisorOnTime'
  BY DEF CallInv, TypeOK, SupervisorOnTime, ReachDeadline, Kill, Enter
<1>4. TargetWatched'
  BY DEF CallInv, TypeOK, TargetWatched, ReachDeadline, Kill, Enter
<1>5. NoOrphan'
  BY DEF CallInv, TypeOK, XctxOnTime, SupervisorOnTime, TargetWatched,
        NoOrphan, InnerFirst, ReachDeadline, Kill, Enter
<1>6. OutputsAgree'
  BY DEF CallInv, TypeOK, OutputsAgree, ReachDeadline, Kill, Enter
<1>7. ReportHeard'
  BY DEF CallInv, TypeOK, XctxOnTime, SupervisorOnTime, TargetWatched,
        ReportHeard, ReportInTime, AnswerOf, ReachDeadline, Kill, Enter
<1> QED BY <1>1, <1>2, <1>3, <1>4, <1>5, <1>6, <1>7 DEF CallInv

(* SeeDeath preserves the invariant. *)
LEMMA SeeDeathKeeps ==
  ASSUME CallInv, NEW w \in Waiter, SeeDeath(w)
  PROVE  CallInv'
<1>1. TypeOK'
  BY DEF CallInv, TypeOK, SeeDeath, Captured, Enter
<1>2. XctxOnTime'
  BY DEF CallInv, TypeOK, XctxOnTime, SeeDeath, Captured, Enter
<1>3. SupervisorOnTime'
  BY DEF CallInv, TypeOK, SupervisorOnTime, SeeDeath, Captured, Enter
<1>4. TargetWatched'
  BY DEF CallInv, TypeOK, TargetWatched, SeeDeath, Captured, Enter
<1>5. NoOrphan'
  BY DEF CallInv, TypeOK, NoOrphan, InnerFirst, SeeDeath, Captured, Enter
<1>6. OutputsAgree'
  BY DEF CallInv, TypeOK, OutputsAgree, SeeDeath, Captured, Enter
<1>7. ReportHeard'
  BY DEF CallInv, TypeOK, ReportHeard, ReportInTime, AnswerOf, SeeDeath,
        Captured, Enter
<1> QED BY <1>1, <1>2, <1>3, <1>4, <1>5, <1>6, <1>7 DEF CallInv

(* GiveUp preserves the invariant. *)
LEMMA GiveUpKeeps ==
  ASSUME CallInv, NEW w \in Waiter, GiveUp(w)
  PROVE  CallInv'
<1>1. TypeOK'
  BY DEF CallInv, TypeOK, GiveUp, Captured, Enter
<1>2. XctxOnTime'
  BY DEF CallInv, TypeOK, XctxOnTime, GiveUp, Captured, Enter
<1>3. SupervisorOnTime'
  BY DEF CallInv, TypeOK, SupervisorOnTime, GiveUp, Captured, Enter
<1>4. TargetWatched'
  BY DEF CallInv, TypeOK, TargetWatched, GiveUp, Captured, Enter
<1>5. NoOrphan'
  BY DEF CallInv, TypeOK, NoOrphan, InnerFirst, GiveUp, Captured, Enter
<1>6. OutputsAgree'
  BY DEF CallInv, TypeOK, OutputsAgree, GiveUp, Captured, Enter
<1>7. ReportHeard'
  BY DEF CallInv, TypeOK, XctxOnTime, TargetWatched, ReportHeard,
        ReportInTime, AnswerOf, GiveUp, Captured, Enter
<1> QED BY <1>1, <1>2, <1>3, <1>4, <1>5, <1>6, <1>7 DEF CallInv

(* KilledByOthers preserves the invariant. A supervisor killed by others is lost; the death of xctx changes nothing. *)
LEMMA KilledByOthersKeeps ==
  ASSUME CallInv, NEW w \in Waiter, KilledByOthers(w)
  PROVE  CallInv'
<1>1. TypeOK'
  BY DEF CallInv, TypeOK, KilledByOthers
<1>2. XctxOnTime'
  BY DEF CallInv, TypeOK, XctxOnTime, KilledByOthers
<1>3. SupervisorOnTime'
  BY DEF CallInv, TypeOK, SupervisorOnTime, KilledByOthers
<1>4. TargetWatched'
  BY DEF CallInv, TypeOK, TargetWatched, KilledByOthers
<1>5. NoOrphan'
  <2>1. CASE w = "supervisor"
    BY <2>1 DEF CallInv, TypeOK, NoOrphan, KilledByOthers
  <2>2. CASE w = "xctx"
    <3>1. lost' = lost
      BY <2>2, Zenon DEF CallInv, TypeOK, KilledByOthers
    <3> QED BY <2>2, <3>1 DEF CallInv, TypeOK, NoOrphan, InnerFirst,
        KilledByOthers
  <2> QED BY <2>1, <2>2
<1>6. OutputsAgree'
  BY DEF CallInv, TypeOK, OutputsAgree, KilledByOthers
<1>7. ReportHeard'
  <2>1. CASE w = "supervisor"
    BY <2>1 DEF CallInv, TypeOK, ReportHeard, KilledByOthers
  <2>2. CASE w = "xctx"
    <3>1. lost' = lost
      BY <2>2, Zenon DEF CallInv, TypeOK, KilledByOthers
    <3> QED BY <2>2, <3>1 DEF CallInv, TypeOK, TargetWatched, ReportHeard,
        ReportInTime, AnswerOf, KilledByOthers
  <2> QED BY <2>1, <2>2
<1> QED BY <1>1, <1>2, <1>3, <1>4, <1>5, <1>6, <1>7 DEF CallInv

(* StartTarget preserves the invariant. *)
LEMMA StartTargetKeeps ==
  ASSUME CallInv, StartTarget
  PROVE  CallInv'
<1>1. TypeOK'
  BY DEF CallInv, TypeOK, StartTarget, RunExternal, Enter
<1>2. XctxOnTime'
  BY DEF CallInv, TypeOK, XctxOnTime, StartTarget, RunExternal, Enter
<1>3. SupervisorOnTime'
  BY DEF CallInv, TypeOK, SupervisorOnTime, StartTarget, RunExternal, Enter
<1>4. TargetWatched'
  BY DEF CallInv, TypeOK, TargetWatched, StartTarget, RunExternal, Enter
<1>5. NoOrphan'
  BY DEF CallInv, TypeOK, TargetWatched, NoOrphan, InnerFirst, StartTarget, RunExternal, Enter
<1>6. OutputsAgree'
  BY DEF CallInv, TypeOK, TargetWatched, OutputsAgree, StartTarget, RunExternal, Enter
<1>7. ReportHeard'
  BY DEF CallInv, TypeOK, ReportHeard, ReportInTime, AnswerOf,
        StartTarget, RunExternal, Enter
<1> QED BY <1>1, <1>2, <1>3, <1>4, <1>5, <1>6, <1>7 DEF CallInv

(* StartAdapter preserves the invariant. *)
LEMMA StartAdapterKeeps ==
  ASSUME CallInv, StartAdapter
  PROVE  CallInv'
<1>1. TypeOK'
  BY DEF CallInv, TypeOK, StartAdapter, Enter
<1>2. XctxOnTime'
  BY DEF CallInv, TypeOK, XctxOnTime, StartAdapter, Enter
<1>3. SupervisorOnTime'
  BY DEF CallInv, TypeOK, SupervisorOnTime, StartAdapter, Enter
<1>4. TargetWatched'
  BY DEF CallInv, TypeOK, TargetWatched, StartAdapter, Enter
<1>5. NoOrphan'
  BY DEF CallInv, TypeOK, TargetWatched, NoOrphan, InnerFirst, StartAdapter, Enter
<1>6. OutputsAgree'
  BY DEF CallInv, TypeOK, TargetWatched, OutputsAgree, StartAdapter, Enter
<1>7. ReportHeard'
  BY DEF CallInv, TypeOK, ReportHeard, ReportInTime, AnswerOf,
        StartAdapter, Enter
<1> QED BY <1>1, <1>2, <1>3, <1>4, <1>5, <1>6, <1>7 DEF CallInv

(* A command of an adapter preserves the invariant: no other kind runs one. *)
LEMMA AdapterRunsCommandKeeps ==
  ASSUME CallInv, AdapterRunsCommand
  PROVE  CallInv'
<1>1. TypeOK'
  BY DEF CallInv, TypeOK, AdapterRunsCommand, RunExternal,
        Enter
<1>2. XctxOnTime'
  BY DEF CallInv, TypeOK, XctxOnTime, AdapterRunsCommand, RunExternal,
        Enter
<1>3. SupervisorOnTime'
  BY DEF CallInv, TypeOK, SupervisorOnTime, AdapterRunsCommand, RunExternal,
        Enter
<1>4. TargetWatched'
  BY DEF CallInv, TypeOK, TargetWatched, AdapterRunsCommand, RunExternal,
        Enter
<1>5. NoOrphan'
  BY DEF CallInv, TypeOK, TargetWatched, NoOrphan, InnerFirst, AdapterRunsCommand, RunExternal,
        Enter
<1>6. OutputsAgree'
  BY DEF CallInv, TypeOK, TargetWatched, OutputsAgree, AdapterRunsCommand, RunExternal,
        Enter
<1>7. ReportHeard'
  BY DEF CallInv, TypeOK, ReportHeard, ReportInTime, AnswerOf,
        AdapterRunsCommand, RunExternal,
        Enter
<1> QED BY <1>1, <1>2, <1>3, <1>4, <1>5, <1>6, <1>7 DEF CallInv

(* The return of an adapter preserves the invariant. *)
LEMMA AdapterReturnsKeeps ==
  ASSUME CallInv, AdapterReturns
  PROVE  CallInv'
<1>1. TypeOK'
  BY DEF CallInv, TypeOK, AdapterReturns, Exit
<1>2. XctxOnTime'
  BY DEF CallInv, TypeOK, XctxOnTime, AdapterReturns, Exit
<1>3. SupervisorOnTime'
  BY DEF CallInv, TypeOK, SupervisorOnTime, AdapterReturns, Exit
<1>4. TargetWatched'
  BY DEF CallInv, TypeOK, TargetWatched, AdapterReturns, Exit
<1>5. NoOrphan'
  BY DEF CallInv, TypeOK, TargetWatched, NoOrphan, InnerFirst, AdapterReturns, Exit
<1>6. OutputsAgree'
  BY DEF CallInv, TypeOK, TargetWatched, OutputsAgree, AdapterReturns, Exit
<1>7. ReportHeard'
  BY DEF CallInv, TypeOK, TargetWatched, ReportHeard, ReportInTime, AnswerOf,
        AdapterReturns, Exit
<1> QED BY <1>1, <1>2, <1>3, <1>4, <1>5, <1>6, <1>7 DEF CallInv

(* RefuseToStart preserves the invariant. *)
LEMMA RefuseToStartKeeps ==
  ASSUME CallInv, RefuseToStart
  PROVE  CallInv'
<1>1. TypeOK'
  BY DEF CallInv, TypeOK, RefuseToStart, Exit
<1>2. XctxOnTime'
  BY DEF CallInv, TypeOK, XctxOnTime, RefuseToStart, Exit
<1>3. SupervisorOnTime'
  BY DEF CallInv, TypeOK, SupervisorOnTime, RefuseToStart, Exit
<1>4. TargetWatched'
  BY DEF CallInv, TypeOK, TargetWatched, RefuseToStart, Exit
<1>5. NoOrphan'
  BY DEF CallInv, TypeOK, TargetWatched, NoOrphan, InnerFirst, RefuseToStart,
        Exit
<1>6. OutputsAgree'
  BY DEF CallInv, TypeOK, OutputsAgree, RefuseToStart, Exit
<1>7. ReportHeard'
  BY DEF CallInv, TypeOK, XctxOnTime, SupervisorOnTime, TargetWatched,
        ReportHeard, ReportInTime, AnswerOf, RefuseToStart, Exit
<1> QED BY <1>1, <1>2, <1>3, <1>4, <1>5, <1>6, <1>7 DEF CallInv

(* Report preserves the invariant. *)
LEMMA ReportKeeps ==
  ASSUME CallInv, Report
  PROVE  CallInv'
<1>1. TypeOK'
  BY DEF CallInv, TypeOK, Report, Passthrough, Exit
<1>2. XctxOnTime'
  BY DEF CallInv, TypeOK, XctxOnTime, Report, Passthrough, Exit
<1>3. SupervisorOnTime'
  BY DEF CallInv, TypeOK, SupervisorOnTime, Report, Passthrough, Exit
<1>4. TargetWatched'
  BY DEF CallInv, TypeOK, TargetWatched, Report, Passthrough, Exit
<1>5. NoOrphan'
  BY DEF CallInv, TypeOK, TargetWatched, NoOrphan, InnerFirst, Report,
        Passthrough, Exit
<1>6. OutputsAgree'
  BY DEF CallInv, TypeOK, OutputsAgree, Report, Passthrough, Exit
<1>7. ReportHeard'
  BY DEF CallInv, TypeOK, XctxOnTime, SupervisorOnTime, TargetWatched,
        OutputsAgree, ReportHeard, ReportInTime, AnswerOf, Report,
        Passthrough, Exit
<1> QED BY <1>1, <1>2, <1>3, <1>4, <1>5, <1>6, <1>7 DEF CallInv

(* Apply preserves the invariant. *)
LEMMA ApplyKeeps ==
  ASSUME CallInv, Apply
  PROVE  CallInv'
<1>1. TypeOK'
  BY DEF CallInv, TypeOK, Apply
<1>2. XctxOnTime'
  BY DEF CallInv, TypeOK, XctxOnTime, Apply
<1>3. SupervisorOnTime'
  BY DEF CallInv, TypeOK, SupervisorOnTime, Apply
<1>4. TargetWatched'
  BY DEF CallInv, TypeOK, TargetWatched, Apply
<1>5. NoOrphan'
  BY DEF CallInv, TypeOK, NoOrphan, InnerFirst, Apply
<1>6. OutputsAgree'
  BY DEF CallInv, TypeOK, OutputsAgree, Apply
<1>7. ReportHeard'
  BY DEF CallInv, TypeOK, ReportHeard, ReportInTime, AnswerOf, Apply
<1> QED BY <1>1, <1>2, <1>3, <1>4, <1>5, <1>6, <1>7 DEF CallInv

(* TargetExits preserves the invariant. *)
LEMMA TargetExitsKeeps ==
  ASSUME CallInv, TargetExits
  PROVE  CallInv'
<1>1. TypeOK'
  BY DEF CallInv, TypeOK, TargetExits, Exit
<1>2. XctxOnTime'
  BY DEF CallInv, TypeOK, XctxOnTime, TargetExits, Exit
<1>3. SupervisorOnTime'
  BY DEF CallInv, TypeOK, SupervisorOnTime, TargetExits, Exit
<1>4. TargetWatched'
  BY DEF CallInv, TypeOK, TargetWatched, TargetExits, Exit
<1>5. NoOrphan'
  BY DEF CallInv, TypeOK, NoOrphan, InnerFirst, TargetExits, Exit
<1>6. OutputsAgree'
  BY DEF CallInv, TypeOK, OutputsAgree, TargetExits, Exit
<1>7. ReportHeard'
  BY DEF CallInv, TypeOK, ReportHeard, ReportInTime, AnswerOf, TargetExits,
        Exit
<1> QED BY <1>1, <1>2, <1>3, <1>4, <1>5, <1>6, <1>7 DEF CallInv

(* Return preserves the invariant. *)
LEMMA ReturnKeeps ==
  ASSUME CallInv, Return
  PROVE  CallInv'
<1>1. TypeOK'
  BY DEF CallInv, TypeOK, Return, AnswerOf
<1>2. XctxOnTime'
  BY DEF CallInv, TypeOK, XctxOnTime, Return, AnswerOf
<1>3. SupervisorOnTime'
  BY DEF CallInv, TypeOK, SupervisorOnTime, Return, AnswerOf
<1>4. TargetWatched'
  BY DEF CallInv, TypeOK, TargetWatched, Return, AnswerOf
<1>5. NoOrphan'
  BY DEF CallInv, TypeOK, NoOrphan, InnerFirst, Return, AnswerOf
<1>6. OutputsAgree'
  BY DEF CallInv, TypeOK, OutputsAgree, Return, AnswerOf
<1>7. ReportHeard'
  BY DEF CallInv, TypeOK, ReportHeard, ReportInTime, Return, AnswerOf
<1> QED BY <1>1, <1>2, <1>3, <1>4, <1>5, <1>6, <1>7 DEF CallInv

(* Dies preserves the invariant. *)
LEMMA DiesKeeps ==
  ASSUME CallInv, NEW p \in Process, Dies(p)
  PROVE  CallInv'
<1>1. TypeOK'
  BY DEF CallInv, TypeOK, Dies
<1>2. XctxOnTime'
  BY DEF CallInv, TypeOK, XctxOnTime, Dies
<1>3. SupervisorOnTime'
  BY DEF CallInv, TypeOK, SupervisorOnTime, Dies
<1>4. TargetWatched'
  BY DEF CallInv, TypeOK, TargetWatched, Dies
<1>5. NoOrphan'
  BY DEF CallInv, TypeOK, NoOrphan, InnerFirst, Dies
<1>6. OutputsAgree'
  BY DEF CallInv, TypeOK, OutputsAgree, Dies
<1>7. ReportHeard'
  BY DEF CallInv, TypeOK, ReportHeard, ReportInTime, AnswerOf, Dies
<1> QED BY <1>1, <1>2, <1>3, <1>4, <1>5, <1>6, <1>7 DEF CallInv

(* Tick preserves the invariant. Time passes only up to the nearest deadline of a process that runs. *)
LEMMA TickKeeps ==
  ASSUME CallInv, Tick
  PROVE  CallInv'
<1>1. TypeOK'
  BY DEF CallInv, TypeOK, Tick, MayWait
<1>2. XctxOnTime'
  BY DEF CallInv, TypeOK, XctxOnTime, Tick, MayWait
<1>3. SupervisorOnTime'
  BY DEF CallInv, TypeOK, SupervisorOnTime, Tick, MayWait
<1>4. TargetWatched'
  BY DEF CallInv, TypeOK, TargetWatched, Tick, MayWait
<1>5. NoOrphan'
  BY DEF CallInv, TypeOK, NoOrphan, InnerFirst, Tick, MayWait
<1>6. OutputsAgree'
  BY DEF CallInv, TypeOK, OutputsAgree, Tick, MayWait
<1>7. ReportHeard'
  BY DEF CallInv, TypeOK, ReportHeard, ReportInTime, AnswerOf, Tick, MayWait
<1> QED BY <1>1, <1>2, <1>3, <1>4, <1>5, <1>6, <1>7 DEF CallInv

(* The invariant holds initially ...                                       *)
LEMMA CallInvInit == Init => CallInv
<1> SUFFICES ASSUME Init
             PROVE  CallInv
  OBVIOUS
<1>1. TypeOK
  <2>1. life \in [Process -> Life] /\ phase \in [Waiter -> Phase]
    BY DEF Init
  <2>2. deadline \in [Waiter -> Nat]
    BY DEF Init
  <2>3. kind \in Kind
    <3>1. kind \in Kinds
      BY DEF Init
    <3> QED BY <3>1
  <2>4. answer \in Answer /\ applied \in BOOLEAN /\ lost \in BOOLEAN
    BY DEF Init
  <2>5. timedOut \in [Waiter -> BOOLEAN]
    BY Zenon DEF Init
  <2>6. printed \in [Process -> {"none"} \cup Output]
    BY Zenon DEF Init
  <2> QED BY <2>1, <2>2, <2>3, <2>4, <2>5, <2>6 DEF Init, TypeOK
<1>2. XctxOnTime /\ SupervisorOnTime /\ TargetWatched
  BY DEF Init, XctxOnTime, SupervisorOnTime, TargetWatched
<1>3. NoOrphan /\ OutputsAgree
  BY DEF Init, NoOrphan, OutputsAgree
<1>4. ReportHeard
  BY DEF Init, ReportHeard
<1> QED BY <1>1, <1>2, <1>3, <1>4 DEF CallInv

(* ... and every step preserves it.                                        *)
LEMMA CallInvNext == CallInv /\ [Next]_vars => CallInv'
<1> SUFFICES ASSUME CallInv, [Next]_vars
             PROVE  CallInv'
  OBVIOUS
<1>1. CASE \E w \in Waiter : Capture(w)
  BY <1>1, SeeExitKeeps, ReachDeadlineKeeps, SeeDeathKeeps, GiveUpKeeps
     DEF Capture
<1>2. CASE \E w \in Waiter : KilledByOthers(w)
  BY <1>2, KilledByOthersKeeps
<1>3. CASE Supervise
  BY <1>3, StartTargetKeeps, StartAdapterKeeps, RefuseToStartKeeps,
     ReportKeeps DEF Supervise
<1>8. CASE AdapterRunsCommand \/ AdapterReturns
  BY <1>8, AdapterRunsCommandKeeps, AdapterReturnsKeeps
<1>4. CASE Apply \/ TargetExits \/ Return
  BY <1>4, ApplyKeeps, TargetExitsKeeps, ReturnKeeps
<1>5. CASE \E p \in Process : Dies(p)
  BY <1>5, DiesKeeps
<1>6. CASE Tick
  BY <1>6, TickKeeps
<1>7. CASE UNCHANGED vars
  BY <1>7 DEF vars, CallInv, TypeOK, XctxOnTime, SupervisorOnTime,
         TargetWatched, NoOrphan, OutputsAgree, ReportHeard, AnswerOf
<1> QED BY <1>1, <1>2, <1>3, <1>4, <1>5, <1>6, <1>7, <1>8 DEF Next

(* The inductive invariant, for all timeouts.                              *)
THEOREM CallInvariant == Spec => []CallInv
<1>1. Init => CallInv
  BY CallInvInit
<1>2. CallInv /\ [Next]_vars => CallInv'
  BY CallInvNext
<1> QED BY <1>1, <1>2, PTL DEF Spec

(* xctx has its answer at OuterTimeout + 2 * Grace at the latest, for all  *)
(* timeouts and whatever supervisor and target do (capture_process).       *)
THEOREM CallerIsBounded == Spec => []HardTimeout
<1>1. CallInv => HardTimeout
  BY DEF CallInv, TypeOK, XctxOnTime, HardTimeout
<1> QED BY <1>1, CallInvariant, PTL

(* A living supervisor ends its target within Startup + InnerTimeout.      *)
THEOREM TargetIsBounded == Spec => []SupervisedTargetEnds
<1>1. CallInv => SupervisedTargetEnds
  BY DEF CallInv, TypeOK, SupervisorOnTime, TargetWatched,
         SupervisedTargetEnds
<1> QED BY <1>1, CallInvariant, PTL

(* An object answered is what the target printed and did, for all timeouts. *)
THEOREM AnswerIsTruthful == Spec => []AnswerIsTheTargets
<1>1. CallInv => AnswerIsTheTargets
  BY DEF CallInv, OutputsAgree, AnswerIsTheTargets
<1> QED BY <1>1, CallInvariant, PTL

(* If the supervisor's timeout fires first, no target outlives the answer: *)
(* the configuration of the entrypoint and of the connector decides.       *)
THEOREM NoOrphanAfterAnswer ==
  ASSUME InnerFirst
  PROVE  Spec => []NothingFollowsTheAnswer
<1>1. CallInv => NothingFollowsTheAnswer
  BY DEF CallInv, TypeOK, TargetWatched, NoOrphan, NothingFollowsTheAnswer,
         NothingWorksOn, Working
<1> QED BY <1>1, CallInvariant, PTL

(* If there is even time to report, a timeout of the target reaches the    *)
(* caller as the structured object the middleware makes of it.             *)
THEOREM TimeoutIsReported ==
  ASSUME ReportInTime
  PROVE  Spec => []TimeoutIsStructured
<1>1. CallInv => TimeoutIsStructured
  <2> SUFFICES ASSUME CallInv, kind = "passthrough", answer # "none", ~lost,
                      life["target"] \notin {"unborn", "exited"}
               PROVE  answer = "error_object" \/ printed["supervisor"] = "long"
    BY DEF TimeoutIsStructured
  <2>1. /\ phase["xctx"] = "done"
        /\ life["supervisor"] = "exited"
        /\ answer = AnswerOf(printed["supervisor"])
        /\ ~timedOut["xctx"]
    BY DEF CallInv, TargetWatched, ReportHeard
  <2>2. life["target"] \in {"dying", "dead"}
    BY <2>1 DEF CallInv, TypeOK, TargetWatched
  <2> QED BY <2>1, <2>2 DEF CallInv, ReportHeard, AnswerOf
<1> QED BY <1>1, CallInvariant, PTL

=============================================================================
