SPECIFICATION Spec
CONSTANTS
    Lengths <- MCLengths
    NULL = NULL
    INITIAL_CAPACITY = 1
    MAXIMUM_SIZE = 9
    MATCH_SIZE = 2
INVARIANTS
    MatchesDoNotOverlap
    NothingIsSkipped
PROPERTIES
    ImplementsFindAllSpec
    SearchMovesOn
CHECK_DEADLOCK FALSE
