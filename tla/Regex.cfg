SPECIFICATION Spec
CONSTANTS
    p = p
    q = q
    bad = bad
    t = t
    u = u
    Patterns = {p, q, bad}
    Valid = {p, q}
    Texts = {t, u}
    Meaning <- MCMeaning
    Slots = {s1, s2}
    Addresses <- MCAddresses
    Offered <- MCOffered
    NULL = NULL
INVARIANTS
    BlocksOwnedOnce
PROPERTIES
    ReplyIsThisCalls
    AnswersAreRight
