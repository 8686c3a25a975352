SPECIFICATION Spec
CONSTANTS
    MaxOrders = 3
    Workers = {w1, w2}
    BufferSize = 1
    Replies <- DistinctReplies
    FaultKinds = {"failed", "unknown"}
    MaxLoopFaults = 1
    MaxWorkerFaults = 1
    MaxCrashes = 1
CHECK_DEADLOCK FALSE
INVARIANTS
    TypeOK
    SingleCustody
    StatusFollowsCustody
    StoresTheVerdict
    CreditedOnce
    ProcessedIsCredited
PROPERTIES
    FinalStatusSticks
    RewardSpec
