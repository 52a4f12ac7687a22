SPECIFICATION FairSpec
CONSTANTS
    N = 6
    Lengths = {3, 4, 5}
    Posted <- MCPosted
    Kinds = {"no", "atMostOne", "atLeastOne"}
    IterationOrders <- MCOrders
INVARIANT Remembered
PROPERTIES
    Enumerates
    WalkComplete
    CallsEnd
CHECK_DEADLOCK FALSE
