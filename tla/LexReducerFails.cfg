SPECIFICATION Spec
CONSTANTS
    MinOrder = 3
    MaxOrder = 3
    Indexing = "cols"
    K = 0
    Sub = {}
    ReducerMayFail = TRUE
INVARIANT Canonizing
CHECK_DEADLOCK FALSE
