\* Two workers, and a system that answers 429 with a pause of one or two seconds.
SPECIFICATION Spec
CONSTANTS
    Workers = {w1, w2}
    Second = 2
    Pauses = {1, 2}
    MaxTime = 5
CHECK_DEADLOCK FALSE
PROPERTIES
    PauseIsKept
