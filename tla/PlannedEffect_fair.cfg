\* Two executes under fair scheduling; nobody is held up for an hour.
SPECIFICATION FairSpec
CONSTANTS
    e1 = e1
    e2 = e2
    e3 = e3
    Executor <- TwoExecutors
    AdapterOutlivesTimeout = FALSE
    NoLongPause = TRUE
INVARIANTS
    ExecutionInv
    AbandonedMeansOwnerGone
PROPERTIES
    TerminalClaimStable
    EveryExecuteEnds
    StartedEffectIsRecorded
CHECK_DEADLOCK FALSE
