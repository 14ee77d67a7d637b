SPECIFICATION Spec
CONSTANTS
    Chars <- MCChars
    Patterns <- MCPatterns
INVARIANTS
    ModesAgree
    TokensAreRight
    ErrorIsRight
PROPERTIES
    Terminates
CHECK_DEADLOCK FALSE
