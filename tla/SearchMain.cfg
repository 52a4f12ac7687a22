SPECIFICATION Spec
CONSTANTS
    N = 6
    CommandLines <- MCCommandLines
INVARIANTS
    OptionsMean
    CasesPartition
CHECK_DEADLOCK FALSE
