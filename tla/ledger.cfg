SPECIFICATION FairSpec
CONSTANTS
    Users = {u1, u2}
    Numbers = {n1, n2}
    Requests = {r1, r2}
    Amounts <- Sums
    Rewards = {1, 2}
    MaxEarnings = 1
    MaxFaults = 1
    MaxDisconnects = 1
    MaxKills = 1
    NoRequest = NoRequest
CHECK_DEADLOCK FALSE
INVARIANTS
    TypeOK
    SeenIsCurrent
    NoOverdraft
    Conservation
    WithdrawnIsTheRows
    AnswerTellsOutcome
PROPERTIES
    RefusedForLackOfPoints
    AccountSpec
    RequestsEnd
