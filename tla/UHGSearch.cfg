SPECIFICATION UFairSpec
CONSTANTS
    N = 7
    IterationOrders <- MCOrders
INVARIANTS
    WorldsNested
PROPERTIES
    Enumerates
    SearchEnds
CHECK_DEADLOCK FALSE
