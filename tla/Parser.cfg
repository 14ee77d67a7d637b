SPECIFICATION Spec
CONSTANTS
    Chars <- MCChars
    Inputs <- MCInputs
    STACK_CAPACITY = 3
    MAXIMUM_SIZE = 100
    POINTER_SIZE = 8
INVARIANTS
    StackIsFrontier
    NodesOwnedOnce
    WorkIsLinear
PROPERTIES
    ImplementsParserSpec
CHECK_DEADLOCK FALSE
