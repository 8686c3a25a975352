SPECIFICATION Spec
CONSTANTS
    Users = {u1, u2}
    Valid = {n1, n2}
    Misspelt = {m1}
    NotNumeric = {x1}
    Requests = {r1, r2, r3}
    FaultKinds = {"failed", "unknown", "query"}
    MaxFaults = 2
    NoRequest = NoRequest
SYMMETRY Symmetry
CHECK_DEADLOCK FALSE
INVARIANTS
    TypeOK
    AnswerTellsOwner
PROPERTIES
    OwnerIsKept
