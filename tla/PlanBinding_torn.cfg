\* One edit while a process is between loading and hashing.
SPECIFICATION Spec
CONSTANTS
    e1 = e1
    e2 = e2
    universe = universe
    domain = domain
    old = old
    new = new
    Executor <- OneExecutor
    File <- TwoFiles
    Content <- TwoContents
    LoadOrder <- ByReference
    HashOrder <- ByPath
    MaxEdits = 1
INVARIANTS
    BindingProven
CHECK_DEADLOCK FALSE
