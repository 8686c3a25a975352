SPECIFICATION FairSpec
CONSTANTS
    MaxOrders = 2
    Workers = {w1, w2}
    BufferSize = 1
    Replies <- RegisteredReplies
    FaultKinds = {}
    MaxLoopFaults = 0
    MaxWorkerFaults = 0
    MaxCrashes = 0
PROPERTIES
    EveryRewardIsCredited
