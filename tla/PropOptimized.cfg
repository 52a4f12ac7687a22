SPECIFICATION SparseSpec
CONSTANTS
    N = 7
    MaxChords = 4
    IterationOrders <- MCOrders
INVARIANTS
    TypeOK
    PathIsVisited
    DegreesAreFree
    RemovedCloses
    FailureJustified
PROPERTIES
    Exhaustive
    CallsEnd
CHECK_DEADLOCK FALSE
