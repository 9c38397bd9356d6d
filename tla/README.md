# xctx in TLA+

`xctx` is a command-line protocol between an agent and configured *agent
domains*. An agent discovers what a domain offers, observes data, plans an
effect, executes the plan with an explicit `--commit`, audits the surface, and
asks for repairs. Every invocation is one operating-system process; processes
share nothing but files, and talk to domain adapters by starting them.

This directory holds the TLA+ modules that model the program, the TLC
configurations that check them on small instances, and the TLAPS proofs of
their main properties. Paths below are relative to the repository.

    tlc -config PlannedEffect_race.cfg MCPlannedEffect     # a run
    tlapm PlannedEffectProofs.tla                          # the proofs

## 1. Inventory

| component | state it keeps | operations | who it talks to |
|---|---|---|---|
| planned effects (`libs/xctx/domain/planning_*.py`) | per plan receipt: plan record, manifest, master plan, sub plan, commit, result and claim file | `plan`, `execute [--commit]`, `observe` of a handle | store; adapter through the connector call |
| store (`store/plans.py`, `store/runtime_artifacts.py`) | the files themselves | atomic replace, exclusive create, read | everybody |
| plan binding (`config/loader.py`, `store/fingerprints.py`, `planning_ledger.py`) | the loaded store of one process | load, fingerprint, compare, mark committed | operator who edits the YAML |
| connector call (`ports/external_command.py`, `process/capture.py`, `xctx_connectors/middleware.py`, `runtime.py`) | two nested child processes, their timeouts, their captured output | start, wait, kill, report, parse | adapter |
| `guess_the_number_game` adapter | one JSON file per game | choose, submit a guess, observe | started by the connector call |
| `file_manager` adapter | none (reads a directory) | list a page, read a file | started by the connector call; shares the directory with everybody |
| stock hub (`xctx_live/instruments.py`, `filings.py`, two example adapters) | none (reads bundled tables) | look up an instrument, a series, a filing form; list a page | started by the connector call; each connector emits commands for the other |
| audit (`domain/audit.py`) | the checks collected so far | framework checks, one connector after the other, verdict | connector call |
| discover, observe (`domain/discovery.py`, `observation.py`, `routing.py`) | none | resolve a reference, refuse with moves, call an adapter | connector call |
| argument vector, options, actions, command policy (`process/argv.py`, `protocol/option_*.py`, `domain/actions.py`, `protocol/command_policy.py`) | none; four scanners read the same words one after the other | functions of the command line and the store | discover, observe, plan |
| repair (`domain/repair.py`) | none; the id of a finding carries a status from the audit to the repair | resolve, refuse, show the path | operator who edits the YAML between the two |
| projection, guidance, redaction, emission | none | functions of a payload | stdout |

What is hard in it, and what makes each part correct:

* **Several `execute --commit` of one plan.** There is no lock and no daemon.
  The only atomic test-and-set is the exclusive creation of the claim file; all
  other decisions are taken on copies read earlier. Correct means: the adapter
  of a plan is started at most once, whatever it did is recorded truthfully and
  for good, and every process ends.
* **Crashes between any two of about twenty file operations.** What is on disk
  must never look like a settled plan that is not, nor like an untouched plan
  that is not.
* **Two nested timeouts.** xctx waits for the connector supervisor, which waits
  for its target, or runs an adapter that waits for one command after the other,
  each with a timeout of its own and each child in a session of its own. Correct means: the caller is bounded, the target does not outlive
  the answer, and the answer does not lie about it.
* **A configuration that is read twice**, once to be used and once to be hashed.
* **Adapters that keep state in files without locks.**
* **An audit over connectors that may answer anything, or are not asked at all.**
  Correct means that it fails closed, and that a pass of everything has passed
  over nothing.
* **A command line read by four scanners over freely chosen names.** A token may
  name a subdomain, an action, a shortcut or an adapter command; a word may be
  a flag to one scanner and a value to the next. Correct means: a line has one
  meaning or is refused, the audit warns of every name that would be refused, a
  refusal leads out, and the adapter reads what the framework has checked.

* **Pages of a list that is not kept.** The offset of one page is applied to the
  list as the next process finds it. Correct means: a walk misses nothing that
  stayed where it was, is not refused on the way, and ends once the list is left
  alone.
* **Identifiers that are looked up by several rules**, exact and by text, by two
  connectors, over data in which records and series are linked in two ways.
  Correct means: a command an answer offers finds the object it was offered for,
  and the prices of one company never pass for another's.
* **A finding that grows stale** between the audit and the repair.

`PROJECT.json` lists the hazards of this code one by one, at their lines, with
the properties that cover them.

## 2. Modules

| module | models | properties |
|---|---|---|
| `OneShotPlan` | the promise of a planned effect, without files or processes | (abstract specification) |
| `PlannedEffect` | `plan` and `execute --commit` file by file, adapter, crashes, write errors, power loss | all of section 3.1 |
| `PlannedEffectInvariant` | its inductive invariant, in parts | `ExecutionInv` |
| `PlannedEffectProofs` | theorems | 11 |
| `MCPlannedEffect` | instances for TLC | |
| `PlanBinding` (`MC`, `Proofs`) | load, hash, record, compare, commit of a read-only plan, edits | section 3.2 |
| `ConnectorCall` (`Proofs`) | the nested waits of the three kinds of connector, and what becomes of the output | section 3.3 |
| `GuessGame` (`MC`, `Proofs`) | the game file between overlapping submissions | section 3.4 |
| `Audit` | selection, loop, normalisation, findings, verdict | section 3.5 |
| `Repair` (EXTENDS `Audit`; `MCAudit`, `AuditProofs`) | findings, edits of the configuration, the repair of a finding | section 3.5 |
| `Routing` | what a name of a loaded store means, to the resolver and to the audit | (operators) |
| `Arguments` | the scanners: declared flags, options of observe and plan, the connector's controls | (operators) |
| `Invocation` (`MC`) | one invocation from its global flags to its answer, and the one that follows it up | section 3.6 |
| `InvocationInvariant` | its inductive invariants, in parts | (for the proofs) |
| `InvocationProofs` | theorems about `Routing`, `Arguments` and `Invocation` | 11 |
| `Listing` (`Proofs`) | a walk along the pages of a directory or a table | section 3.7 |
| `Lookup` | how the stock hub finds what an identifier names | (operators) |
| `Browsing` (EXTENDS both; `MC`, `Proofs`) | enquiries and the chains of commands their answers offer | section 3.7 |

How they fit together. `PlanBinding` leads an execute up to the decision that
the plan is bound and not committed; `PlannedEffect` goes on from there for
plans with an effect, and abstracts the comparison to a nondeterministic
`StaleContext`. Where `PlannedEffect` says *adapter*, `ConnectorCall` says what
really happens between the start of the adapter and its payload: its
`NothingFollowsTheAnswer` decides whether an adapter can outlive its timeout,
which is the constant `AdapterOutlivesTimeout` of `PlannedEffect`; the run
`race` assumes the worse case. `GuessGame` is one such adapter; that it runs at
most once per plan is what `PlannedEffect` promises it. `Audit` calls
connectors whose answers are the `Reply`s a `ConnectorCall` can end with.
`Invocation` ends where the others begin: an accepted `plan` is the intent that
`PlannedEffect` goes on with, `execute` and `audit` are handed over, and a call
of an adapter is a `ConnectorCall`. It EXTENDS `Arguments`, which EXTENDS
`Routing`; these two have no variables, so that operators over a store can be
reasoned about alone. `Repair` takes the findings of a published `Audit` and
goes on with a configuration that somebody edits. `Listing` and `Lookup` are
the two halves of the read side, composed by `Browsing`: an agent either walks
along a list, or asks an operation and follows what it offers. `PlannedEffect` is related to `OneShotPlan` by `INSTANCE ... WITH`; the others
are composed by these interfaces, as their product would only multiply
independent states.

## 3. The models, and what the runs show

### 3.1 PlannedEffect

*State.* `ledger` maps each file of a receipt to the status a reader sees.
`pc` says which file operation each execute does next, or how it ended;
`seenRecord`, `seenEvidence`, `seenClaim` and `verdict` are what it carries in
memory from one operation to the next. `planner` is the same for the one `plan` process.
`adapter`, `reply`, `applied` describe the adapter process, `invocations` is a
history. `syncedRecord` is what a power loss leaves of the plan record, the
only file written without `fsync`.

Whether a claim is stale is judged in two steps that are far apart: the file is
read (`ReadClaim`, `RereadClaim`), and later the clock is read and compared with
the heartbeat in the *copy* (`JudgeClaim`, `RejudgeClaim`). Time is no part of
the state. A process may be held up for an hour between any two steps, the
reader between its two reads as well as the owner between two heartbeats, so
`mayBeOld` holds the executes whose copy may be judged old: all of them, unless
`NoLongPause` says that nobody is held up that long *and* the claim has a
living owner. An old copy of an unsettled claim is abandoned whatever the file
says by then (`Abandon`).

*Actions.* One action is one read or one atomic write of one file, in the order
of the code; guards are its early returns:

| actions | code |
|---|---|
| `PlanMasterPlan` ... `RecordPlan`, `PlannerStops` | `planning_planned_effects.py`, `planning_materialization.py`, `plans.py` |
| `Resolve`, `RefuseWithoutCommit`, `StaleContext`, `Bind` | `planning_execute.py:16-109` |
| `VerifyMaterialization`, `ReadCommit`, `ReadResult`, `ReadClaim`, `JudgeClaim`, `Abandon`, `CreateClaim`, `RereadClaim`, `RejudgeClaim` | `planning_planned_effect_preflight.py:86-220`, `planning_commit_state.py` |
| `FillClaim` ... `StartClaim` | `runtime_artifacts.py:122-144`, `planning_planned_effect_start.py` |
| `Invoke`, `AdapterApplies`, `AdapterExits`, `ReceiveReply`, `AdapterTimesOut`, `InvokeFails` | `planning_planned_effect_execution.py:53-87` |
| `FinalizeClaim`, `SettleCommit` ... `SettleClaim` | `planning_planned_effect_terminal.py` |
| `Crash`, `LedgerError`, `StartFails`, `SyncRecord`, `PowerLoss` | faults |

A power loss may leave the old plan record, the new one or an unreadable one as
long as it is not synced, and of a claim that was created but not filled the
empty file or nothing.

Initial states are a receipt nobody touched and the damaged receipts of
`tests/test_planned_effects_smoke.py:1340-1409`.

*Runs* (module `MCPlannedEffect`).

| run | instance | result |
|---|---|---|
| `race` | 3 executes, all faults, pauses of any length, an adapter that outlives its timeout; symmetry; 735,931 states | the safety properties below hold, and `PlannedEffect` implements `OneShotPlan` |
| `fair` | 2 executes, nobody held up for an hour, fairness; 59,278 states | the inductive invariant, the claim properties and both liveness properties hold |
| `late_abandon` | 2 executes, owners and readers may be suspended | `TerminalClaimStable` is violated |
| `start_failure` | 2 executes, fairness | `StartFailureIsRecorded` is violated |

`AtMostOneInvocation`, `SuccessMeansApplied`, `EvidenceBeforeEffect`,
`CommittedRecordIsSettled`, `TerminalClaimClosesBooks`,
`AlreadyCommittedIsFinal`, `ClaimOnlyUntouchedPlan`, `OutcomeIsFinal`,
`ImplementsOneShot`, `AbandonedMeansOwnerGone`, `TerminalClaimStable`,
`EveryExecuteEnds` and `StartedEffectIsRecorded` are stated with a comment each
at the end of the module. `CommittedRecordIsSettled` and
`AlreadyCommittedIsFinal` are checked as parts, or consequences, of
`ExecutionInv` (run `fair`) and proved (`SettledBooks`).

*Bounds.* The only bound is the number of executes. Two are enough for every
race of a reader with an owner; the third is the one who abandons the claim of
the first while the second creates, rereads or settles it. Nothing in an
execute counts, so a fourth can only repeat what a third does; the theorems
hold for any number.

*Fairness.* `FairSpec` has weak fairness of `Planner` and of `Execute(e)` for
each execute: the operating system schedules a process that can run. A process
that awaits its adapter can always go on, as `capture_process` has a deadline,
so no fairness of the adapter is assumed. Crashes and faults have none.

### 3.2 PlanBinding

*State.* `disk` gives each configuration file its content; every process has the
snapshot it `loaded` (the store it works on), the one it `hashed` (the
fingerprint, which stands for its bytes), and an execute the `copy` of the plan
record it resolved. `LoadOrder` and `HashOrder` are the two orders in which the
code reads the files. `disturbed` and `late` are histories.

*Actions.* `Load` and `Hash` read one file each; `Resolve`, `Decide`,
`MarkCommitted`, `RecordPlan` are the code between; `LoadFails`, `WriteFails`,
`Crash` its failures; `Edit` the operator.

| run | instance | result |
|---|---|---|
| `quiet` | 2 executes, 2 files with 2 contents, 2 edits; 193,376 states | an undisturbed execute is bound exactly if it runs on the planned configuration; an execute that begins after the commit is refused |
| `torn` | 1 execute, 1 edit | `BindingProven` is violated: the edit hits a file between load and hash |

*Bounds.* Two files in opposite orders are the least that can be torn both
ways; two edits allow a change and its reversal. The protocol version, which is
part of the hash, is part of a file. The set of files is fixed. A file that
cannot be read when it is hashed is one of the contents.

### 3.3 ConnectorCall

*State.* The `kind` of connector that is called; a discrete clock; the `life` of
the three processes `xctx`, `supervisor` and `target`; for the two that wait,
the `phase` of `capture_process` they are in and its `deadline`; when the
target was `born`; what each process `printed`; the `answer`.

There are three kinds. A pass-through supervisor starts one target, waits for
it with the inner timeout, and reports. For `connector.kind: external_command`
it imports an adapter and calls it in its own process, without any timeout: the
`adapter` that works alone (the game), and the one that also runs `commands`
(the file manager), one after the other, whenever it likes, each with the inner
timeout for itself (`runtime.run_external`).

*Actions.* `SeeExit`, `ReachDeadline`, `SeeDeath`, `GiveUp` are
`_wait_with_deadline` and `_finish_after_kill`, the same code in two
processes; `StartTarget`, `StartAdapter`, `RefuseToStart`, `Report` the
supervisor's own work; `AdapterRunsCommand`, `AdapterReturns` the adapter's;
`Return` the rest of `call_external_command`. `Dies` delivers a pending
SIGKILL, at once, late or never (a process in an uninterruptible sleep);
`KilledByOthers` kills xctx or the supervisor. `Tick` may not pass a moment at
which a waiting process has to act: a polling process acts within its interval.

| run | kinds | times (outer, inner, grace, start-up, wrap-up) | result |
|---|---|---|---|
| `margin` | all three | 8, 3, 1, 1, 1; 256,825 states | all properties hold |
| `orphan` | pass-through | 3, 3, 1, 1, 1 | `NothingWorksOn` is violated |

`orphan` has the proportions of the stock hub's `equity_filing` and
`market_data_gateway`, where both timeouts are 30 seconds. In `margin` the
inner timeout leaves the supervisor the time to end its target and report it.
What holds for which kind: the bounds on the caller and on a supervised target
(`HardTimeout`, `SupervisedTargetEnds`) and the truth of the answer
(`AnswerIsTheTargets`) for all three; that nothing works on after the answer
(`NothingFollowsTheAnswer`) for a pass-through target if the inner timeout comes
first, for an adapter that works alone whatever the times (it dies with the
supervisor), and *not* for an adapter that runs commands: a command begun late
outlives the supervisor, however long the outer timeout is. With
`Kinds = {"commands"}` TLC finds `NothingWorksOn` violated for every choice of
times, also for the 2 to 1 of the file manager. `TimeoutIsStructured` speaks of
pass-through targets only.

`Horizon` bounds the clock a few ticks after the last moment a living caller can
still wait. The proofs have no horizon to speak of: they hold for any of its
values.

*Fairness.* Weak fairness of each waiting process, and of the supervisor's and
the caller's own steps; strong fairness of time, because an adapter that starts
command after command enables and disables the next tick for ever, while in
fact each of them takes some time. None of the target, of the adapter, of the
kill or of anything outside.

*What the model takes from the adapter contract*: a target that exits with code
0 and a result object, or silently with code 0, has done what it was asked.

### 3.4 GuessGame

*State.* The `game` file; the `stage` and `guess` of each submission; the `copy`
its adapter has read. *Actions*: `Choose`, `PlanGuess` (the preflight
validator), `Read` and `Write` (the two halves of `_submit_guess`, between
which another adapter may run), `Fail`.

Run `overlap`: three submissions, games of up to four numbers, symmetry; 47,524
states. `SecretWithinRange`, `Explained`, `KeptUnlessOverlapped` and
`BinarySearchBound` hold. A full binary search of four numbers takes three
guesses, and three submissions are one more than the least that can overlap.
That the last one of two overlapping writers wins, so that an answered guess
can disappear, is part of the model and the exception in
`KeptUnlessOverlapped`; nothing in the repository promises otherwise.

### 3.5 Audit and Repair

*State.* The request (scope, lane, configured status, what the framework checks
would find), the places of the connectors still to be asked, the checks so far,
the verdict. `Repair` adds the configuration as the next process finds it
(`now`, `present`, `path`), the findings of the last audit (`noted`), and the
repair that was asked for with its answer and moves.
*Actions*: `CheckFramework`, `AskNext` (one turn of the loop with any answer),
`Abort` (an error that is no `XctxError`), `Publish`; then `Edit` (a target
changes its status, gets or loses a repair path, or disappears), `RepairOf` (a
finding or a bare target), `AuditAgain` (the move of a refusal).

Run `verdict`: two domains with three subdomains, four configurations, every
scope and lane, 17 kinds of reply, up to two edits; 1,789,604 states.
`FailsClosed`, `EveryoneIsAsked`, `PassCoversTheScope` and `RepairFitsFinding`
hold. `PassCoversTheScope` matters because connectors that are not online are
passed over in silence: what keeps an audit of all lanes from passing over them
is that the findings of the framework see each of them. `FailsClosed` speaks of
every detail level: `max` shows all checks, the others neither passes nor skips
(`Shown`); the counts of what is left out are not modelled.
Two checks in a list are enough for one to hide the other; a domain with two
connectors and one with a single one distinguish all scopes; two edits let a
status change and change back. The repair follows an audit of the framework
lane only: no connector has a part in the findings.

What an audit calls repairable is what has a repair path, whatever its status,
while a repair refuses everything that is down for maintenance; that no such
target has a path is checked by a development tool only
(`check_xctx_yaml_surface.py`), and is a hypothesis of `RepairFitsFinding`.

### 3.6 Invocation

*State.* `store` is the loaded configuration: subdomains and actions by name,
their options, which subdomains are online, the admitted commands and formats.
`argv` is what is left of the command line, `sel` the `ArgvSelection`,
`request` the command with its reference and arguments, `answer` what is
emitted: a listing, the interface of an action, a call of an adapter, or a
refusal with its `moves`. `previous` is the request and answer this invocation
follows up, so that a behaviour has two invocations: the agent follows a move
(`Follow`), or says the same in other words (`Rephrase`).

*Actions.*

| actions | code |
|---|---|
| `DoubleDash`, `UnsupportedFlag`, `DetailFlag`, `DetailLevel`, `FormatFlag`, `EndOfFlags` | the loop of `extract_global_options` |
| `LoadFails`, `RefuseFormat`, `Prepare`, `Orient`, `RefuseCommand`, `Admit`, `Delegate` | `run` in `process/runtime.py` |
| `DiscoverById` ... `DiscoverUnknown`, `RefuseAmbiguous` | `commands/discover.py`, `discover_payload` and the resolvers it tries in turn |
| `ObserveSubdomain`, `ObserveUnknown` | `commands/observe.py`, `observe_payload` |
| `PlanAction`, `PlanUnknown` | `_plan_full_payload`, `resolve_planned_action`, `parse_planned_action_args`, the preflight |

A scanner is a set of flags that take the next word; `Heads` gives the places at
which it looks at a word instead of skipping it, so that two scanners that
disagree differ in their heads. `Arguments` has one operator per scanner.

Run `reading`: two domains with three subdomains and one action of every sort;
eight configurations (sound, a shortcut named like a subdomain, a shortcut
published twice, a subdomain offline, defaults that clash with the bounds,
options that are all optional and unbounded beside a default projection, an
option declared twice, a curtailed command surface); every reference of up to
three parts, all strings of up to four words behind the references whose
options interact (plus a required option before them for `plan`), all prefixes
of up to three global flags; 244,923 states. The moves of a refusal are commands to
follow; templates with a hole for the agent to fill are none.

| property | what it relates |
|---|---|
| `PrefixIsUnambiguous` | the flag loop and a definition of its meaning that does not depend on order |
| `AuditPredictsRouting` | the resolver and the audit's affordance check |
| `MovesLeadOut` | a refusal and the answer to the command it offers |
| `SynonymsAgree` | the answers to a shortcut and its action, to `--id` and a positional |
| `PlanIsChecked` | the declaration of an action and what its adapter gets |
| `AdapterReadsWhatWasChecked` | `validate_declared_action_args`, the reported projection and the connector's `parse_controls` |

The inductive invariants of the proofs, `InvocationInv` and `CallsInv`, hold in
this run too; `MCInvocation` knows them, so that naming them in the `.cfg`
checks them, in about twenty seconds, after a change of the model.

*Bounds.* A scanner keeps one word of memory (a flag waits for its value), so
two words distinguish any two of them; four let a skipped word hide a flag with
a value of its own, the second occurrence of an option or of a group. Longer
references are refused like those of three parts. Words are members of small
sets; an option has one flag; `Inline` words are those written `flag=value`.

The exceptions in these properties are facts about the code worth knowing:

* An ambiguity refusal offers the refused reference itself first
  (`domain/actions.py:98-104`); following it meets the same refusal. `docs/configuration.md:46`
  and `docs/protocol.md:82` only promise the qualified actions.
* `validate_declared_action_args` takes the word behind every declared flag for
  its value, also behind a boolean one: a trailing boolean flag of a plan is
  refused, and a word behind one escapes the check of positional words. Worse,
  from a flag on which the two scanners part they may stay out of step to the
  end of the line: the next word for the one is the next but one for the other.
  `PlanIsChecked` therefore excepts every positional word behind such a flag,
  not only the one next to it.
* Where nobody names a projection the framework reports the default of the
  configuration, and the connector uses its own.
* A shortcut and its action have different defaults: a missing
  `query_required` asks for a query through the shortcut only, a missing
  `entrypoint_command` runs `discover` through the shortcut and the action's
  own name otherwise.
* A subdomain that is offline is still called through `domain::subdomain::action`
  and by `plan`.
* Options declared for a subdomain with a long flag cannot be given to `plan`:
  the first scanner knows only those of the action.
* A plan's defaults count as given in the check of exclusive groups.
* `observe domain words` shows the domain and ignores the words, while
  `observe domain --id word` is refused; `observe domain::subdomain --id
  <result handle>` returns the protocol's result, while the positional form
  asks the adapter.

### 3.7 Listing, Lookup and Browsing

*State of `Listing`.* The `surface` (a directory, the instruments, the filing
taxonomy, the priority buckets), what is `present` with which `mtime`, what the
filter selects, which name is `barred`; the call in progress: the entries it has
`listed`, those it has `stated`, the `keys` it was told; the `cursor` the agent
was given, how often it has `seen` each entry, and how the `walk` stands.
`steady`, `receded` and `advanced` are histories of what happened to the
directory. A name is barred if `_safe_path`, which reads an entry's name as an
identifier before it looks for the file, refuses it: a link that leads out of
the safe root, or a name like `file:docs` whose rest is something of the other
kind. What is barred stays so during a walk. (A name that reads as another
existing entry of the same kind is shown under the id of that one; this is not
modelled.)

*Actions.* `Read` (the entries are listed), `StatEntry` and `StatFails` (the
sort key, one `stat` after the other), `AnswerPage`, `AnswerBuckets` and
`PageFails` (the slice, and the projection that asks each entry once more);
`Refuse` and `NotFound`. `Create`, `Touch`, `Backdate`, `Remove`,
`RemoveDirectory` may happen between any two of them. Listing the names and
asking each for its kind is one step of the model: what appears in between is
not listed, what disappears is no entry.

A size over the maximum is refused for all lists: by
`validate_declared_action_args`, which reads the maximum the action declares,
before any adapter is started (`LimitRefused`).

*State of `Browsing`.* The `library`: the records with ticker, issuer number,
aliases and `hint`, the number of their series; the series with their numbers
and the tickers they carry now, the one with the newest data first; what the
text of each would match. Then what was `asked`, and the `answer`: the objects
it is about, and the commands it offers, each with the object it is offered for.
`Enquire` asks any operation for any query; `Follow` runs a command that was
offered. Each operation of the two connectors is an operator that yields its
answers. A record offers the series that its hint names; a series is looked up by
the ticker in the command. Nothing in the loader ties the two together, and
nothing in the model does (`WellFormed`).

Run `walk`: three entries, two times, pages of one and two, two changes of the
directory, at most one barred name; and for the enquiries two companies, or one
with two share classes, of which the first may have had the ticker of the second,
with nine patterns of hints and series (crossed, missing, renamed, two under one
ticker, one that two records name or none) and six combinations of text matches;
922,332 states.

| property | what it relates |
|---|---|
| `UntouchedIsNotMissed` | the pages of a walk and the changes during it |
| `RemovalsDoNotRepeat` | the same, the other way round |
| `FollowedPageIsAnswered` | the offset and size that one answer of a table names, and the checks of the next call |
| `WalkEnds` | liveness: a walk ends if the directory is changed finitely often and no name in it is barred |
| `OfferIsKept` | the command one connector offers and the answer of the other |
| `PriceIsOfThatCompany` | the identifier and the series behind the detour over the instrument |

*Bounds.* With three entries and pages of one, an entry can move past the
cursor in both directions while another stays; two changes let a removal and an
arrival cancel in number. Two records and two series are the least where one can
hide the other, or be found in its place; a third identifier kind adds nothing,
as an identifier names a record as a whole or by its text. A query is a word
behind a tag.

*What is assumed of the data.* `WellFormed` says no more than what the loader
guarantees: no ticker has two records, no number two series. `OfferIsKept` holds
of all such data, with its exceptions. `PriceIsOfThatCompany` is about data that
agree (`Coherent`: every series is named by a record, a record's ticker is the
one its series carries, no ticker is an alias of another record). The loader does
not check that; the bundled data are so. Section 5 says what happens otherwise.

*Fairness.* Weak fairness of the agent and the adapter together: a process that
was started runs, and the agent goes on. `WalkEnds` does depend on `MaxChanges`,
which bounds what others do to the directory, though not on its value: somebody
who creates an entry before every page keeps a walk going for ever, and somebody
who removes one during every page makes every page fail.

Exceptions in these properties are facts about the code worth knowing:

* A ticker that is an alias of an earlier record finds that record
  (`find_instrument_exact` takes the first in list order).
* A series is offered because a record's hint names it, by the ticker of the
  record; if the series carries another ticker, or a newer one carries the same,
  the offered command finds nothing or the other series.
* `observe_any` and `discover_with_query` look among the instruments before the
  taxonomy, and find them by text too: the emitted identifier of a form can be
  answered with a company. With the bundled data `form:C`, `form:C/A`,
  `form:F-N` and `form:F-N/A` are, and 108 of the 412 bare codes.
* `next_page_run_cmd` of `list_instruments` does not quote its filters; a value
  of two words (`NYSE Arca`) is refused on the second page.
* A barred name makes every page it falls on an error, so that a walk cannot get
  past it.

## 4. Proofs

All theorems hold for every value of the constants; no fact is assumed but the
named `ASSUME`s of the modules (types of the constants). Each `...Proofs` module
proves an inductive invariant, one lemma per action or group of actions, and
derives the properties from it.

* **PlannedEffectProofs.** `ExecutionInv` is the invariant. `AtMostOneInvocation`
  alone is not inductive: it needs that there is one owner, which rests on the
  claim file never disappearing (`ClaimantInv`); that a process about to create
  the claim has not been overtaken by somebody else's commit or result
  (`EvidenceInv`: while there is no claim nobody writes them, so what was not
  seen is still not there); and what the files look like at each control point
  of an owner (`OwnerInv`). `RecordInv` says that every copy of a committed
  record, on disk, in the page cache or in memory, is of a settled plan; it is
  what carries `AlreadyCommittedIsFinal` across a power loss. `CopyInv` says
  that a copy of a terminal claim is of a plan whose result is terminal. `PauseInv`
  is the only part that uses `NoLongPause`: from the moment at which a copy of the
  claim may be judged old, its owner is gone, and nobody is left to settle it.
  Theorems: `TypeCorrect`, `Inductive`,
  `OneInvocation`, `TruthfulSuccess`, `WriteAhead`, `SettledBooks`,
  `FinalOutcome`, `UntouchedPlan`, `AbandonedIsOrphan`, `StableTerminalClaim`, and
  `Refinement` (`Spec => OneShot!Spec`: initial states map to initial states,
  each step to a step or a stutter).
* **PlanBindingProofs.** For each process the invariant relates the part of the
  files it has loaded or hashed to the disk, as long as it is not disturbed; a
  finished reading of an undisturbed process therefore gives equal snapshots,
  and equal fingerprints give equal configurations. Theorems
  `QuietExecuteIsBound`, `LateExecuteIsRefused`.
* **ConnectorCallProofs.** For all three kinds of connector, the invariant gives each phase the interval its
  deadline lies in, counted from the start of the call, and says of every
  waiting process that the clock has not passed its deadline. The arithmetic of
  the phases then yields the bounds. `NothingFollowsTheAnswer` is about
  pass-through targets and adapters that work alone; its theorem
  `NoOrphanAfterAnswer` needs
  `InnerFirst` (Startup + InnerTimeout < OuterTimeout), `TimeoutIsReported`
  needs `ReportInTime` (two graces and the wrap-up more): these two
  inequalities are what a configuration must satisfy; the run `orphan` shows
  what happens without the first.
* **GuessGameProofs.** The invariant holds of the file and of every copy of it:
  the secret lies in the current range, the range excludes the wrong guesses,
  `yes` comes last. `HalvingInv` says of both that with `k` wrong guesses, all
  of them the proposed ones, what is left times `2^k` fits into the whole range;
  the powers are a recursive function, of which only the step from `k` to
  `k + 1` is needed. Theorems `SecretIsFindable`, `FileIsCoherent`,
  `AnsweredGuessIsKept`, `PlayIsShort`.
* **InvocationProofs.** Its base are the judges of names: for every store whose
  actions have distinct keys (`IsStore`, what the loader's mappings guarantee) a
  name has one meaning by the audit's account exactly if the resolver refuses it
  neither as ambiguous nor as duplicate (`OneMeaning`, `AuditDecidesRouting`),
  and a shortcut that is not refused stands for one action
  (`ShortcutRunsItsAction`): sources of two actions differ by their keys, those
  of an action and of a subdomain by their number of parts.

  `InvocationInv` is the invariant. No property of the run is inductive: each
  speaks of the end of an invocation, some of the ends of two. `FlagsInv` says
  what the loop has selected after `k` words, and that what it refuses is one of
  four kinds of prefix, none of which a later word can mend. `RouteInv` carries
  the words unchanged to the command and says what an answer owes to the
  reference it answers (`Answered`): it refuses a name exactly if the name has
  two meanings (`RefusalFits`); it refuses no reference that a move offers
  (`OffersFit`, `RefIsFound`); it runs the action the reference denotes, under
  whichever of its names (`ActionRan`, `SynonymsFit`); it observes an object
  however it was named (`ObjectObserved`). These are statements about one
  configuration and one request, so that `HistoryInv` can keep them for the
  first invocation while the second runs, and two answers are compared by
  comparing each with what it owes. There is one lemma per action that gives an
  answer. Theorems `Inductive`, `PrefixIsRead`, `AuditAndResolverAgree`,
  `OffersAreFound`, `SameRequestSameAnswer`.

  `CallsInv` rests on lemmas about the scanners for words of any length. `Heads`
  and `WordsAt` are recursive functions, about which nothing can be shown by
  induction here; but the least number of a set exists
  (`LeastNumber`, from the library's well-founded order on the naturals), so a
  least counterexample does instead. That way a scan of every length exists
  (`ScanExists`) and is what `Heads` computes (`HeadsScan`), and where two
  scanners part there is a first place at which one of them gives a flag a value
  and the other does not (`ScannersPart`) - which is why a word that escapes the
  check of a plan stands behind a flag in dispute. Theorems `CallsAreChecked`,
  `PlansAreChecked`, `AdapterReadsTheSame`.

  What is assumed of the constants: of words, that those with two dashes have
  one, that the flags the code names are among them, and that no number begins
  with two dashes (`WordAssumption`); of the cases, that a configuration is one
  the loader lets through - `query_required` is given as something true or
  something false, or missing, which is all that `domain/discovery.py:227-264`
  tells apart, and what an action declares as flags begins with `--`
  (`domain/actions.py:236-266`) - that the words before a command are flags with their values, and that a command is
  none of these words (`CasesAssumption`); and that a missing value is told apart
  from every given one (`UnsetAssumption`).
* **AuditProofs.** `AuditInv`: the connectors asked and those still to be asked
  make up the scope, the checks of a connector contain a failing one exactly if
  its reply was unhealthy (`FailingReply`, about `Normalised`), and the verdict
  is that of the checks. Theorems `ClosedFailure`, `NobodyIsLeftOut`,
  `PassIsComplete` (a pass leaves no finding, so that all of the scope was online
  and asked; and no failing check, as none is counted in a finite set only if
  there is none). For
  `Repair`, `RepairInv` says that the findings of the last audit describe the
  configuration until somebody edits it, and that an answer is the one the
  configuration gives now; theorem `RepairIsCurrent`.
* **ListingProofs.** At every moment there is an order in which the next page
  would be, or is being, cut off (`View` and `ViewKeys`: what is listed and told
  so far, and the directory itself for the rest), and the cursor separates in
  it what was shown from what was not. While nothing recedes, the rank of an
  entry that stays only grows, so that one not yet shown lies at or behind the
  cursor (`MissInv`); while nothing advances it only shrinks, so that one
  already shown lies before it (`RepeatInv`). `OffsetInv` keeps the offset of a
  table within its list; that the size of a followed page, also that of all the
  buckets, is not over the maximum is part of the type invariant. Theorems
  `ListingInductive`, `NothingIsMissed`, `NothingIsRepeated`, and
  `OffsetsAreAccepted` (`FollowedPageIsAnswered`).
* **BrowsingProofs.** `BrowsingInv` adds to the two properties that every
  command on offer is one of the shapes that the rows of existing objects emit
  (`Good`). The steps then follow from lemmas about `Lookup`: an identifier
  emitted for a record finds that record, or an earlier one that carries it; an
  identifier emitted for a series finds the newest series that carries its
  ticker; the detour over the instrument stays with its company if the data
  agree. Theorems `BrowsingInductive`, `OffersAreKept`, `PricesAreRight`. They
  assume of the data only that tickers and numbers are unique
  (`LibraryAssumption`, `WellFormed`), that a ticker is neither a number nor a
  text of several words (`WordAssumption`), and that the amendment of a code is a
  code of its kind (`TaxonomyAssumption`); `Coherent` is a hypothesis within
  `PriceIsOfThatCompany`.

Only model-checked: liveness (`EveryExecuteEnds`, `StartedEffectIsRecorded`,
`CallReturns`, `WalkEnds`), because the prover has no rules for fairness and
`ENABLED`. Every invariant and every action property that a passing run checks
is stated by a theorem.

## 5. Where program and documentation part

Four runs are expected to find a violation; each checks one property that the
repository's own text states.

| run | text | what happens |
|---|---|---|
| `late_abandon` | "terminal claims must not be rewritten" | a stale copy of the claim is written back as abandoned over the claim its owner has settled meanwhile; takes an owner or a reader suspended for an hour |
| `start_failure` | "The result handle records the failure state." | a write error in `mark_execution_started` ends in `UnboundLocalError`; the result stays running |
| `orphan` | "hard timeouts, and process-tree cleanup" | with equal timeouts the target works on after its supervisor was killed and the caller was answered (`NothingWorksOn`) |
| `torn` | "can prove it is bound to what was rehearsed" | the fingerprint is of bytes the process has not loaded |

Not the subject of a run, but known: `docs/development_planned_effects_smoke.md:14`
says "a plan can be committed only once", and two overlapping executes of a
read-only plan, which has no claim, are both accepted (`PlanBinding` has the
behaviour; `SequentialOneShot` is what holds). Nothing is mutated by such a
plan. Three more are facts of the models that no run is about:

* The file manager runs several commands one after the other
  (`libs/xctx_connectors/runtime.py:275`, called at
  `file_manager/external_command_adapter.py:138` and `:166`), each with a timeout
  of its own, within one call. The call is ended by the timeout of the entrypoint,
  and a command begun just before works on, whatever the two timeouts are
  (section 3.3).
* A ticker that now belongs to another company leads there:
  `libs/xctx_live/instruments.py:783` takes the first record that carries the
  word, as its ticker or as an alias, although the row of the other record offers
  that very word with "Observe the canonical instrument record." (`:407`), and the
  search explains that "Exact ticker, instrument id, and CIK matches rank before
  exact aliases" (`:1551`). `Coherent` excludes such data.
* A failed search of series notes that an instrument is known but has no series
  (`:1567`) also where it has one that the search does not find (`:922-924`): for
  an alias, and for an identifier behind `ticker:`, where the search compares the
  words with the text of the series only. With the bundled data, `BSIG` (now
  `AAMI`) and `ticker:aapl` are such queries.

The exceptions listed in sections 3.5, 3.6 and 3.7 are of the same kind.

## 6. Not modelled

* Formatting and wording: guidance, descriptions, option surfaces, emission, the
  projection of anything but the audit. They change no state.
* Redaction: regular expressions over text.
* In `Invocation`: the payloads of listings and interfaces, the discovery of
  artifacts, the parsers of `execute`, `audit`, `repair` and `other`, option
  patterns and floats, and how one option may be written in YAML in several
  ways. `_minimal_output_format`, which looks for `--json` and `--yaml` in the
  whole command line when the configuration cannot be loaded, is output only.
* Of the `file_manager`: reading the text of a file (which cuts at
  `max_content_bytes`, possibly inside a character), its overview and its audit.
  Of the stock hub: the numbers of a price range and its CSV file, statistics,
  overviews and audits, and how words are split from options. They read once
  and change no state.
* In `PlannedEffect`: the parsing of the intent, the digests (a receipt is one
  system), result expiry. In `PlanBinding` and `GuessGame`: power loss.
* Clocks, other than through `mayBeOld` and the ticks of `ConnectorCall`;
  process handling under Windows.

## 7. Plan

Done: `PlannedEffect` with its abstract specification, invariant and proofs;
`PlanBinding`, `ConnectorCall`, `GuessGame`, `Audit` with `Repair`, `Listing`
and `Browsing`, `Routing`, `Arguments` and `Invocation`, all with proofs.

Next, in this order:

1. The composition of `ConnectorCall` with the step `Invoke`..`ReceiveReply` of
   `PlannedEffect`, as a refinement.
2. The price range of the stock hub (`--bars`, `--calendar-days`) against a
   reference definition.
