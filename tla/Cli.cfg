SPECIFICATION Spec
CONSTANTS
    Lengths <- MCLengths
    NULL = NULL
INVARIANTS
    ExitsAreClean
    LinesAreNumbered
    NoMatchIsTrue
PROPERTIES
    ImplementsFindAllSpec
CHECK_DEADLOCK FALSE
