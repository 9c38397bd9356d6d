---------------------------- MODULE ConnectorCall ----------------------------
(***************************************************************************)
(* One call of a live connector: xctx starts the connector supervisor, and *)
(* the supervisor (the middleware) either starts the pass-through target   *)
(* or runs an adapter module of its own, which may start one command after *)
(* the other.  Whoever starts a child waits for it in capture_process with *)
(* a timeout of its own.  Every child leads a session of its own, so the   *)
(* kill of a child does not reach the child's child.                       *)
(*                                                                         *)
(* Time is discrete and counted from the start of the call.  A tick is a   *)
(* poll interval: within it a waiting process sees that its child is gone, *)
(* or that its deadline has come, whichever it looks at first.             *)
(*                                                                         *)
(* Sources: libs/xctx/process/capture.py, libs/xctx/ports/                 *)
(* external_command.py, libs/xctx_connectors/middleware.py, runtime.py.    *)
(***************************************************************************)
EXTENDS Naturals

CONSTANTS
    Kinds,         \* connectors a call may have, see Kind
    OuterTimeout,  \* entrypoint.timeout_seconds of the subdomain
    InnerTimeout,  \* connector.timeout_seconds of the subdomain: of the
                   \* pass-through target, or of each command
    Grace,         \* KILL_GRACE_SECONDS
    Startup,       \* a supervisor that is not killed has come to its
                   \* target or adapter, or has printed a refusal, by then
    Wrapup,        \* it needs at most this long from the end of a
                   \* pass-through target to its own exit
    Horizon        \* bound of the model: the clock stops here

\* "passthrough" is connector.kind xctx_native_passthrough.  The two others
\* are external_command: an adapter that does its work itself (the game), and
\* one that also runs commands by run_external (the file manager).
Kind == {"passthrough", "adapter", "commands"}

ASSUME KindsAssumption == Kinds \subseteq Kind

ASSUME TimesAssumption ==
    /\ OuterTimeout \in Nat \ {0}
    /\ InnerTimeout \in Nat \ {0}
    /\ {Grace, Startup, Wrapup, Horizon} \subseteq Nat

VARIABLES
    kind,      \* of the connector that is called
    now,       \* the clock
    life,      \* each process: "unborn", "running", "exited", "dying"
               \* (SIGKILL is pending), "dead"
    phase,     \* where each of the two waiting processes is
    deadline,  \* when that phase ends at the latest
    timedOut,  \* the wait ended with a kill
    born,      \* when the target was started
    printed,   \* what a process left on its standard output, and its exit
    answer,    \* what call_external_command returned to its caller
    applied,   \* the effect of the call has taken place
    lost       \* somebody else killed the supervisor

vars == <<kind, now, life, phase, deadline, timedOut, born, printed, answer,
          applied, lost>>

\* "target" is the pass-through target or the command the adapter runs.

Process == {"xctx", "supervisor", "target"}
Waiter  == {"xctx", "supervisor"}
Child   == [xctx |-> "supervisor", supervisor |-> "target"]
Timeout == [xctx |-> OuterTimeout, supervisor |-> InnerTimeout]

Life == {"unborn", "running", "exited", "dying", "dead"}

\* "boot" is the supervisor's work before its target or adapter, "report" its
\* work after the target, "adapter" the time an adapter module runs in it;
\* "grace" and "reap" are the two waits of _finish_after_kill.
Phase == {"boot", "wait", "grace", "reap", "report", "adapter", "done"}

\* "silence": exit code 0 and nothing printed; "long": more than
\* max_output_bytes of the process that reads it; "garbage": exit code 0 and
\* no JSON object, or one with a framework-owned key; "failure": another
\* exit code.
Output == {"object", "silence", "error_object", "long", "garbage", "failure"}

Answer == {"none", "object", "error_object", "xctx_error"}

TypeOK ==
    /\ kind \in Kind
    /\ {now, born} \subseteq Nat
    /\ life \in [Process -> Life]
    /\ phase \in [Waiter -> Phase]
    /\ deadline \in [Waiter -> Nat]
    /\ timedOut \in [Waiter -> BOOLEAN]
    /\ printed \in [Process -> {"none"} \cup Output]
    /\ answer \in Answer
    /\ applied \in BOOLEAN
    /\ lost \in BOOLEAN

Init ==
    /\ kind \in Kinds
    /\ now = 0
    /\ born = 0
    /\ life = [xctx |-> "running", supervisor |-> "running",
               target |-> "unborn"]
    /\ phase = [xctx |-> "wait", supervisor |-> "boot"]
    /\ deadline = [xctx |-> OuterTimeout, supervisor |-> Startup]
    /\ timedOut = [w \in Waiter |-> FALSE]
    /\ printed = [p \in Process |-> "none"]
    /\ answer = "none"
    /\ applied = FALSE
    /\ lost = FALSE

-----------------------------------------------------------------------------
Gone(p) == life[p] \in {"exited", "dead"}
Runs(p) == life[p] = "running"

At(w, from) == Runs(w) /\ phase[w] = from

Enter(w, to, duration) ==
    /\ phase' = [phase EXCEPT ![w] = to]
    /\ deadline' = [deadline EXCEPT ![w] = now + duration]

Kill(p) == life' = [life EXCEPT ![p] = IF Runs(p) THEN "dying" ELSE @]

Exit(p, output) ==
    /\ life' = [life EXCEPT ![p] = "exited"]
    /\ printed' = [printed EXCEPT ![p] = output]

(* The phase that follows capture_process.  An adapter has no deadline.    *)
Captured(w) ==
    \/ w = "xctx" /\ Enter(w, "done", 0)
    \/ w # "xctx" /\ kind = "passthrough" /\ Enter(w, "report", Wrapup)
    \/ w # "xctx" /\ kind # "passthrough" /\ Enter(w, "adapter", 0)

-----------------------------------------------------------------------------
(* capture_process, for either of the two processes that wait.             *)

SeeExit(w) ==
    /\ At(w, "wait")
    /\ Gone(Child[w])
    /\ Captured(w)
    /\ UNCHANGED <<kind, now, life, timedOut, born, printed, answer,
                   applied, lost>>

\* Mutation check of ReachDeadline: the deadline passes, nobody is killed.
ReachDeadlineWithoutKill(w) ==
    /\ At(w, "wait")
    /\ now >= deadline[w]
    /\ timedOut' = [timedOut EXCEPT ![w] = TRUE]
    /\ Enter(w, "grace", Grace)
    /\ UNCHANGED <<kind, now, life, born, printed, answer, applied, lost>>

(* The child may have exited since it was polled last.                     *)
ReachDeadline(w) ==
    /\ At(w, "wait")
    /\ now >= deadline[w]
    /\ Kill(Child[w])
    /\ timedOut' = [timedOut EXCEPT ![w] = TRUE]
    /\ Enter(w, "grace", Grace)
    /\ UNCHANGED <<kind, now, born, printed, answer, applied, lost>>

SeeDeath(w) ==
    /\ At(w, "grace") \/ At(w, "reap")
    /\ Gone(Child[w])
    /\ Captured(w)
    /\ UNCHANGED <<kind, now, life, timedOut, born, printed, answer,
                   applied, lost>>

\* Mutation check of GiveUp: the second wait has no timeout.
GiveUpOnce(w) ==
    /\ At(w, "grace")
    /\ now >= deadline[w]
    /\ Enter(w, "reap", Horizon)
    /\ UNCHANGED <<kind, now, life, timedOut, born, printed, answer,
                   applied, lost>>

(* A killed child that does not go away is killed again, then left alone.  *)
GiveUp(w) ==
    /\ now >= deadline[w]
    /\ \/ At(w, "grace") /\ Enter(w, "reap", Grace)
       \/ At(w, "reap") /\ Captured(w)
    /\ UNCHANGED <<kind, now, life, timedOut, born, printed, answer,
                   applied, lost>>

Capture(w) == SeeExit(w) \/ ReachDeadline(w) \/ SeeDeath(w) \/ GiveUp(w)

-----------------------------------------------------------------------------
(* The supervisor: middleware.main.                                        *)

(* run_external, for the pass-through target and for a command.            *)
RunExternal ==
    /\ life' = [life EXCEPT !["target"] = "running"]
    /\ born' = now
    /\ timedOut' = [timedOut EXCEPT !["supervisor"] = FALSE]
    /\ printed' = [printed EXCEPT !["target"] = "none"]
    /\ Enter("supervisor", "wait", InnerTimeout)
    /\ UNCHANGED <<kind, now, answer, applied, lost>>

StartTarget ==
    /\ kind = "passthrough"
    /\ At("supervisor", "boot")
    /\ RunExternal

(* An unusable context, target or environment becomes an error object; an  *)
(* interpreter that does not even get to main exits with a failure.        *)
RefuseToStart ==
    /\ At("supervisor", "boot")
    /\ \E output \in {"error_object", "failure"} : Exit("supervisor", output)
    /\ UNCHANGED <<kind, now, phase, deadline, timedOut, born, answer,
                   applied, lost>>

(* An adapter module is imported and called in the supervisor itself.      *)
StartAdapter ==
    /\ kind # "passthrough"
    /\ At("supervisor", "boot")
    /\ Enter("supervisor", "adapter", 0)
    /\ UNCHANGED <<kind, now, life, timedOut, born, printed, answer, applied,
                   lost>>

(* Mutation checks of Passthrough: the exit code is not looked at; a       *)
(* timeout ends the supervisor with a failure.                             *)
PassthroughIgnoresExit(output) ==
    IF timedOut["supervisor"] THEN "error_object" ELSE "object"

PassthroughFailsOnTimeout(output) ==
    CASE timedOut["supervisor"]            -> "failure"
      [] output \in {"object", "silence"}  -> "object"
      [] OTHER                             -> "error_object"

(* What _passthrough makes of the target's output.  Output cut at the      *)
(* limit is no JSON any more; {} stands for no output at all.              *)
Passthrough(output) ==
    CASE timedOut["supervisor"]            -> "error_object"
      [] output \in {"object", "silence"}  -> "object"
      [] OTHER                             -> "error_object"

(* The object it prints, which the connector's own keys may have made too  *)
(* long for the limit of xctx.                                             *)
Report ==
    /\ At("supervisor", "report")
    /\ \E output \in {Passthrough(printed["target"]), "long"} :
           Exit("supervisor", output)
    /\ UNCHANGED <<kind, now, phase, deadline, timedOut, born, answer,
                   applied, lost>>

Supervise == StartTarget \/ StartAdapter \/ RefuseToStart \/ Report

-----------------------------------------------------------------------------
(* The adapter module.  Nothing bounds the time it takes or the number of  *)
(* commands it runs; the last process of a command that was killed in vain *)
(* stays, and plays no further part.                                       *)

AdapterRunsCommand ==
    /\ kind = "commands"
    /\ At("supervisor", "adapter")
    /\ RunExternal

(* It returns an object, raises, prints something of its own, or exits.    *)
AdapterReturns ==
    /\ At("supervisor", "adapter")
    /\ \E output \in Output :
          /\ output \in {"object", "silence"} => applied
          /\ Exit("supervisor", output)
    /\ UNCHANGED <<kind, now, phase, deadline, timedOut, born, answer,
                   applied, lost>>

-----------------------------------------------------------------------------
(* The target, a program xctx knows nothing about: what it prints as a     *)
(* result it has done.                                                     *)

Working == Runs("target") \/ At("supervisor", "adapter")

(* The target, or the adapter, does what the call is for.                  *)
Apply ==
    /\ Working
    /\ ~applied
    /\ applied' = TRUE
    /\ UNCHANGED <<kind, now, life, phase, deadline, timedOut, born,
                   printed, answer, lost>>

TargetExits ==
    /\ Runs("target")
    /\ \E output \in Output \ {"error_object"} :
          /\ output \in {"object", "silence"} => applied
          /\ Exit("target", output)
    /\ UNCHANGED <<kind, now, phase, deadline, timedOut, born, answer,
                   applied, lost>>

-----------------------------------------------------------------------------
(* call_external_command: the supervisor's output becomes an answer; {}    *)
(* stands for no output at all.                                            *)

AnswerOf(output) ==
    CASE timedOut["xctx"]                 -> "xctx_error"
      [] output \in {"object", "silence"} -> "object"
      [] output = "error_object"          -> "error_object"
      [] OTHER                            -> "xctx_error"

Return ==
    /\ At("xctx", "done")
    /\ life' = [life EXCEPT !["xctx"] = "exited"]
    /\ answer' = AnswerOf(printed["supervisor"])
    /\ UNCHANGED <<kind, now, phase, deadline, timedOut, born, printed,
                   applied, lost>>

-----------------------------------------------------------------------------
(* The machine: a pending kill takes its time, somebody may kill xctx or   *)
(* the supervisor, and time passes unless a process still has to act.      *)

Dies(p) ==
    /\ life[p] = "dying"
    /\ life' = [life EXCEPT ![p] = "dead"]
    /\ UNCHANGED <<kind, now, phase, deadline, timedOut, born, printed,
                   answer, applied, lost>>

KilledByOthers(p) ==
    /\ Runs(p)
    /\ life' = [life EXCEPT ![p] = "dead"]
    /\ lost' = (lost \/ p = "supervisor")
    /\ UNCHANGED <<kind, now, phase, deadline, timedOut, born, printed,
                   answer, applied>>

MayWait(w) ==
    Runs(w) /\ phase[w] # "adapter" =>
        /\ now < deadline[w]
        /\ phase[w] \in {"wait", "grace", "reap"} => ~Gone(Child[w])

Tick ==
    /\ now < Horizon
    /\ \A w \in Waiter : MayWait(w)
    /\ now' = now + 1
    /\ UNCHANGED <<kind, life, phase, deadline, timedOut, born, printed,
                   answer, applied, lost>>

Next ==
    \/ \E w \in Waiter : Capture(w) \/ KilledByOthers(w)
    \/ Supervise \/ AdapterRunsCommand \/ AdapterReturns
    \/ Apply \/ TargetExits \/ Return
    \/ \E p \in Process : Dies(p)
    \/ Tick

Spec == Init /\ [][Next]_vars

(* Processes that run are scheduled, and time passes: the many commands of *)
(* an adapter take their time, too.                                        *)
FairSpec ==
    /\ Spec
    /\ \A w \in Waiter : WF_vars(Capture(w))
    /\ WF_vars(Supervise) /\ WF_vars(Return) /\ SF_vars(Tick)

-----------------------------------------------------------------------------
(* The inner timeout fires while the outer one still waits.                *)
InnerFirst == Startup + InnerTimeout < OuterTimeout

(* The supervisor can even report it before the outer one fires.           *)
ReportInTime == Startup + InnerTimeout + 2 * Grace + Wrapup < OuterTimeout

(* The hard timeout: as long as xctx itself lives it has its answer soon   *)
(* after OuterTimeout, whatever the processes below it do.                 *)
HardTimeout == Runs("xctx") => now <= OuterTimeout + 2 * Grace

(* A target or command is never left to itself by a supervisor that lives: *)
(* it runs no longer than its timeout, even when xctx is killed meanwhile. *)
SupervisedTargetEnds ==
    Runs("target") /\ Runs("supervisor") => now <= born + InnerTimeout

(* Once xctx has its answer, nothing the call started works any more, so   *)
(* no effect follows an answer (capture.py promises process-tree cleanup). *)
NothingWorksOn == answer # "none" /\ ~lost => ~Working

(* The same for every call but those of an adapter that runs commands,     *)
(* whose last command may begin at any time before the outer deadline.     *)
NothingFollowsTheAnswer == kind # "commands" => NothingWorksOn

(* A result object is the answer only to a call whose effect took place;   *)
(* a pass-through target has then ended by itself and printed all of it.   *)
AnswerIsTheTargets ==
    answer = "object" =>
        /\ applied
        /\ kind = "passthrough" => printed["target"] \in {"object", "silence"}

(* A pass-through target that has to be killed is reported by an object    *)
(* that says so.                                                           *)
TimeoutIsStructured ==
    /\ kind = "passthrough"
    /\ answer # "none"
    /\ life["target"] \notin {"unborn", "exited"}
    /\ ~lost
    => answer = "error_object" \/ printed["supervisor"] = "long"

(* The call comes back.                                                    *)
CallReturns == <>(answer # "none" \/ life["xctx"] = "dead")

=============================================================================
