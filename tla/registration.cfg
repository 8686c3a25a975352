SPECIFICATION FairSpec
CONSTANTS
    Logins = {l1}
    Passwords = {p1, p2}
    Requests = {r1, r2, r3}
    NoRequest = NoRequest
    MaxFaults = 1
    MaxDisconnects = 1
    MaxCrashes = 1
CHECK_DEADLOCK FALSE
INVARIANTS
    TypeOK
    EveryUserHasBalance
    AnswerTellsRegistration
    CookieNamesUser
    RegisteredMayLogIn
PROPERTIES
    RequestsEnd
