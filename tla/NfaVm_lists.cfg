SPECIFICATION Spec
CONSTANTS
    Chars <- MCChars
    Programs <- ChosenPrograms
    Texts <- Texts2
    SearchStarts <- MCSearchStarts
    NULL = NULL
    UINT_MAX = 2
INVARIANTS
    CurrentIsExact
    LongestIsMaximal
    EarlierStartsFail
CHECK_DEADLOCK FALSE
