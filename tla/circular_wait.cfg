SPECIFICATION FairSpec
CONSTANTS
    MaxOrders = 3
    Workers = {w1}
    BufferSize = 1
    Replies <- RetriedReplies
    FaultKinds = {"failed"}
    MaxLoopFaults = 0
    MaxWorkerFaults = 1
    MaxCrashes = 0
CHECK_DEADLOCK FALSE
PROPERTIES
    NewIsPickedUp
