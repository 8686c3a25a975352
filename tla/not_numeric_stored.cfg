SPECIFICATION Spec
CONSTANTS
    Users = {u1, u2}
    Valid = {n1}
    Misspelt = {}
    NotNumeric = {x1}
    Requests = {r1, r2, r3}
    FaultKinds = {}
    MaxFaults = 0
    NoRequest = NoRequest
CHECK_DEADLOCK FALSE
INVARIANTS
    RefusedIsNotStored
