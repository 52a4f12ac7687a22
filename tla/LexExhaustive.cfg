SPECIFICATION FairSpec
CONSTANTS
    MinOrder = 3
    MaxOrder = 3
    Indexing = "cols"
    K = 0
    Sub = {}
    ReducerMayFail = TRUE
INVARIANTS
    TypeOK
    
PROPERTIES
    Progress
    Ends
CHECK_DEADLOCK FALSE
