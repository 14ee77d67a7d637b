SPECIFICATION SetSpec
CONSTANTS
    Sets = {set, other}
    CREGEX_CHARSET_SIZE = 2
    Arguments <- MCArguments
PROPERTIES
    ImplementsCharSetSpec
    LoopsEnd
