SPECIFICATION Spec
CONSTANTS
    Chars <- MCChars
    Programs <- TinyPrograms
    Texts <- Texts2
    SearchStarts <- MCSearchStarts
    NULL = NULL
    UINT_MAX = 2
INVARIANTS
    WithinArrays
    MarksAreOfThisList
    ArraysBalanced
PROPERTIES
    ImplementsMatchSpec
    IsAnswered
CHECK_DEADLOCK FALSE
