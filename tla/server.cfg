SPECIFICATION TwoUsersAsk
CONSTANTS
    MaxOrders = 2
    Workers = {w1}
    BufferSize = 0
    Replies = {"PROCESSED", "PROCESSING"}
    FaultKinds = {}
    MaxLoopFaults = 0
    MaxWorkerFaults = 0
    MaxCrashes = 1
    u1 = u1
    u2 = u2
    Users = {u1, u2}
    Numbers = {n1}
    r1 = r1
    r2 = r2
    Requests = {r1, r2}
    Amounts = {0, 1}
    Rewards = {1, 2}
    MaxEarnings = 2
    MaxFaults = 1
    MaxDisconnects = 1
    MaxKills = 1
    NoRequest = NoRequest
    Owner <- FirstOwner
    Points <- PointsByOrder
CHECK_DEADLOCK FALSE
INVARIANTS
    TypeOK
    ShownIsPaid
    BooksBalance
PROPERTIES
    CreditedWhileUp
    BonusSpec
