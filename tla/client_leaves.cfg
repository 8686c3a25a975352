SPECIFICATION FairSpec
CONSTANTS
    MaxOrders = 1
    Workers = {w1}
    BufferSize = 1
    Replies = {"PROCESSED", "PROCESSING"}
    FaultKinds = {}
    MaxLoopFaults = 0
    MaxWorkerFaults = 0
    MaxCrashes = 1
    u1 = u1
    u2 = u2
    Users = {u1, u2}
    Numbers = {n1}
    r1 = r1
    r2 = r2
    Requests = {r1}
    Amounts = {1}
    Rewards = {1}
    MaxEarnings = 1
    MaxFaults = 0
    MaxDisconnects = 1
    MaxKills = 0
    NoRequest = NoRequest
    Owner <- SecondOwner
    Points <- PointsByOrder
CHECK_DEADLOCK FALSE
PROPERTIES
    EveryRewardIsCredited
