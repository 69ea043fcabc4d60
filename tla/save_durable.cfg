SPECIFICATION Spec
CONSTANTS
    a = a
    m = m
    s = s
    Contents = {a}
    Metas = {m}
    SettingValues = {s}
    Identities = {self}
    Self = self
    Null = Null
    Start <- MCStart
    MaxGeneration = 2
    MaxSaves = 1
    MaxRefusals = 0
    MaxTimeouts = 0
    MaxFailures = 0
INVARIANTS
    SavedIsDurable
CHECK_DEADLOCK FALSE
