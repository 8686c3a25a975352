-------------------------- MODULE MCOrderProcessing --------------------------
(* Instances of OrderProcessing for TLC: named sets of answers and faults.  *)
EXTENDS OrderProcessing

AllReplies == Verdicts \cup PendingReplies \cup FailedReplies
\* One of each three that the worker handles alike: "OTHER" stands for "PROCESSING" and "ERROR".
DistinctReplies == AllReplies \ {"PROCESSING", "ERROR"}
\* What the accrual system may go on answering without losing an order.
RetriedReplies == Verdicts \cup {"PROCESSING", "ERROR", "OTHER"}
RegisteredReplies == {"REGISTERED", "PROCESSING", "PROCESSED"}
==============================================================================
