SPECIFICATION Spec
CONSTANTS
    Chars <- CountChars
    Patterns <- CountPatterns
INVARIANTS
    CountsAreScanned
CHECK_DEADLOCK FALSE
