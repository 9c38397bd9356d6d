\* A reader or an owner is held up for more than an hour and then goes on.
SPECIFICATION Spec
CONSTANTS
    e1 = e1
    e2 = e2
    e3 = e3
    Executor <- TwoExecutors
    AdapterOutlivesTimeout = FALSE
    NoLongPause = FALSE
PROPERTIES
    TerminalClaimStable
CHECK_DEADLOCK FALSE
