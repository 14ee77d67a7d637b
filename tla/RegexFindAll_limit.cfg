SPECIFICATION Spec
CONSTANTS
    Lengths <- MCLengths
    NULL = NULL
    INITIAL_CAPACITY = 1
    MAXIMUM_SIZE = 7
    MATCH_SIZE = 2
INVARIANTS
    WithinBlock
CHECK_DEADLOCK FALSE
