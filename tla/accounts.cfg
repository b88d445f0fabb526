SPECIFICATION Spec
CONSTANTS
    Reqs = {1, 2}
    Sessions = {1, 2}
    ResetTokens = {t1}
    NONE = NONE
    MaxLoginAttempts = 2
    MaxRequests = 4
CHECK_DEADLOCK FALSE
INVARIANTS
    AccountsTypeOK
    SessionsEndWithPassword
    SessionsEndWithSuspension
    GuessesBounded
PROPERTIES
    EndedStaysEnded
