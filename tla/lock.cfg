SPECIFICATION Spec
CONSTANTS
    Writers = {w1, w2, w3}
    Old = old
    None = none
    LocksBefore = {none}
    MaxCrashes = 1
    MaxFailures = 1
SYMMETRY Symmetry
INVARIANTS
    Exclusive
    SomeoneCommits
PROPERTIES
    NoLostUpdate
CHECK_DEADLOCK FALSE
