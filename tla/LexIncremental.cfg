SPECIFICATION OrderedSpec
CONSTANTS
    MinOrder = 3
    MaxOrder = 4
    Indexing = "rows"
    K = 0
    Sub = {}
    ReducerMayFail = FALSE
    Starts = {0, 400, 800}
INVARIANTS
    LengthsClosed
    OnePerClass
PROPERTY ImplementsAlgorithm
CHECK_DEADLOCK FALSE
