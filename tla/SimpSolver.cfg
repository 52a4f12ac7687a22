SPECIFICATION SimpSpec
CONSTANTS
    MaxVars = 6
    MaxRefs = 40
    SizeLBDQueue = 1
    SizeTrailQueue = 2
    K = 9
    R = 14
    LowerBoundForBlocking = 1
    FirstReduceDB = 2
    IncReduceDB = 1
    SpecialIncReduceDB = 1
    LbLBDFrozenClause = 30
    LbSizeMinimizingClause = 30
    LbLBDMinimizingClause = 6
    Scripts <- MCScripts
    Grow = 0
    ClauseLim = 4
    SubsumptionLim = 4
CHECK_DEADLOCK FALSE
INVARIANTS
    OccurrencesExact 
PROPERTIES
    ImplementsOracle EliminationEnds
