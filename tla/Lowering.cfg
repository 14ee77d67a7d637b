SPECIFICATION LoweringSpec
CONSTANTS
    Chars <- MCChars
    Texts <- MCTexts
    Inputs <- MCInputs
    STACK_CAPACITY = 16
    MAXIMUM_SIZE = 1000
    POINTER_SIZE = 8
    MAX_REPEAT_COUNT = 2
INVARIANTS
    AstOwnedOnce
    NoDeeperThanParseTree
    ParsedMeansPattern
PROPERTIES
    ParseImplementsParserSpec
CHECK_DEADLOCK FALSE
