SPECIFICATION Spec
CONSTANTS
    Writers = {w1, w2, w3}
    Old = old
    None = none
    LocksBefore = {old}
    MaxCrashes = 0
    MaxFailures = 0
SYMMETRY Symmetry
PROPERTIES
    NoLostUpdate
CHECK_DEADLOCK FALSE
