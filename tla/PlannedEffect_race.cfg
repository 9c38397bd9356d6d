\* Three executes race, every fault may happen, and any process may be held up.
SPECIFICATION Spec
CONSTANTS
    e1 = e1
    e2 = e2
    e3 = e3
    Executor <- ThreeExecutors
    AdapterOutlivesTimeout = TRUE
    NoLongPause = FALSE
SYMMETRY Symmetric
INVARIANTS
    AtMostOneInvocation
    SuccessMeansApplied
    EvidenceBeforeEffect
    TerminalClaimClosesBooks
PROPERTIES
    ClaimOnlyUntouchedPlan
    OutcomeIsFinal
    ImplementsOneShot
CHECK_DEADLOCK FALSE
