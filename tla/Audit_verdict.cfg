\* Every scope and lane, any availability, three connectors that may answer
\* anything; then up to two edits and any repair.
SPECIFICATION RepairSpec
CONSTANTS
    game = game
    files = files
    choose = choose
    submit = submit
    home = home
    Domain <- Domains
    Surface <- Surfaces
    DomainOf <- Domainof
    Statuses <- Availabilities
    Breakages <- NoneOrOne
    Reply <- Replies
    Paths <- PathSets
    MaxEdits = 2
INVARIANTS
    FailsClosed
    EveryoneIsAsked
    PassCoversTheScope
    RepairFitsFinding
CHECK_DEADLOCK FALSE
