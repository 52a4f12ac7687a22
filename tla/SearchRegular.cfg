SPECIFICATION Spec
CONSTANTS
    N = 6
    CommandLines <- MCCommandLines
INVARIANT RegularIsPosted
CHECK_DEADLOCK FALSE
