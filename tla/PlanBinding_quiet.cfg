\* Two executes of a read-only plan, two edits anywhere.
SPECIFICATION Spec
CONSTANTS
    e1 = e1
    e2 = e2
    universe = universe
    domain = domain
    old = old
    new = new
    Executor <- TwoExecutors
    File <- TwoFiles
    Content <- TwoContents
    LoadOrder <- ByReference
    HashOrder <- ByPath
    MaxEdits = 2
INVARIANTS
    QuietBinding
    SequentialOneShot
CHECK_DEADLOCK FALSE
