SPECIFICATION Spec
CONSTANTS
    Chars <- MCChars
    Texts <- MCTexts
    Asts <- MCAsts
    MAX_REPEAT_COUNT = 2
    INITIAL_CAPACITY = 2
INVARIANTS
    ReferencesOwnedOnce
    ListsAreExact
    StaysInside
    NoDeeperThanTree
    SizeIsAsCounted
    CompiledMeansAst
CHECK_DEADLOCK FALSE
