SPECIFICATION FairSpec
CONSTANTS
    a = a
    m = m
    s = s
    Contents = {a}
    Metas = {m}
    SettingValues = {s}
    Identities = {self}
    Self = self
    Null = Null
    Start <- MCStart
    MaxGeneration = 2
    MaxSaves = 2
    MaxRefusals = 1
    MaxTimeouts = 1
    MaxFailures = 1
INVARIANTS
    SavedHoldsTheBarrier
    FailedFlushNotSaved
PROPERTIES
    StatusSettles
CHECK_DEADLOCK FALSE
