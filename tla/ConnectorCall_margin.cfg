\* The supervisor has the time to end its target and to report it.
SPECIFICATION FairSpec
CONSTANTS
    Kinds = {"passthrough", "adapter", "commands"}
    OuterTimeout = 8
    InnerTimeout = 3
    Grace = 1
    Startup = 1
    Wrapup = 1
    Horizon = 12
INVARIANTS
    HardTimeout
    SupervisedTargetEnds
    NothingFollowsTheAnswer
    AnswerIsTheTargets
    TimeoutIsStructured
PROPERTIES
    CallReturns
CHECK_DEADLOCK FALSE
