SPECIFICATION Spec
CONSTANTS
    NBools = 3
    Arrays <- MCArrays
    MaxPosts = 2
    Operations = {"lex", "lexLt", "lexImplication", "lexLtImplication", "and", "or", "and3", "one", "count"}
INVARIANTS
    Exact
    Determined
    CountExact
CHECK_DEADLOCK FALSE
