\* Both timeouts alike: xctx may give up just before the supervisor does.
SPECIFICATION FairSpec
CONSTANTS
    Kinds = {"passthrough"}
    OuterTimeout = 3
    InnerTimeout = 3
    Grace = 1
    Startup = 1
    Wrapup = 1
    Horizon = 7
INVARIANTS
    NothingWorksOn
CHECK_DEADLOCK FALSE
