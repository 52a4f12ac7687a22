SPECIFICATION Spec
CONSTANTS
    MaxVars = 6
    MaxRefs = 40
    SizeLBDQueue = 1
    SizeTrailQueue = 2
    K = 9
    R = 14
    LowerBoundForBlocking = 1
    FirstReduceDB = 2
    IncReduceDB = 1
    SpecialIncReduceDB = 1
    LbLBDFrozenClause = 30
    LbSizeMinimizingClause = 30
    LbLBDMinimizingClause = 6
    Scripts <- MCScripts
CHECK_DEADLOCK FALSE
INVARIANTS
    SolverTypeOK ClausesImplied ClausesLive WatchesCover ReasonsImply
    PropagationComplete OrderComplete LearntAsserts
PROPERTIES
    ImplementsOracle CallsEnd
