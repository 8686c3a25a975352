SPECIFICATION FairSpec
CONSTANTS
    MaxOrders = 3
    Workers = {w1, w2}
    BufferSize = 1
    Replies = {"PROCESSED", "PROCESSING"}
    FaultKinds = {"failed"}
    MaxLoopFaults = 1
    MaxWorkerFaults = 1
    MaxCrashes = 1
CHECK_DEADLOCK FALSE
PROPERTIES
    NewIsPickedUp
    CreditedOrOrphaned
