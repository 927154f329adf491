SPECIFICATION Spec
CONSTANTS
    Workers = {w1, w2}
    SessionIds = {s1, s2}
    Emails = {e1, e2}
    CodeIds = {c1, c2}
    PlatformAdmin = TRUE
    MaxTokens = 3
    MaxPasswords = 2
SYMMETRY MCSymmetry
CONSTRAINT Focused
INVARIANTS OldSessionsEnd VerifiedBySentCode
PROPERTIES ExchangedOnceWhileLive
CHECK_DEADLOCK FALSE
