\* A write of mark_execution_started raises.
SPECIFICATION FairSpec
CONSTANTS
    e1 = e1
    e2 = e2
    e3 = e3
    Executor <- TwoExecutors
    AdapterOutlivesTimeout = FALSE
    NoLongPause = TRUE
PROPERTIES
    StartFailureIsRecorded
CHECK_DEADLOCK FALSE
