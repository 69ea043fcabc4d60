SPECIFICATION FairSpec
CONSTANTS
    a = a
    m = m
    s = s
    Contents = {a}
    Metas = {m}
    SettingValues = {s}
    Identities = {self}
    Self = self
    Null = Null
    Start <- MCStart
    MaxGeneration = 1
    MaxSaves = 1
    MaxRefusals = 0
    MaxTimeouts = 0
    MaxFailures = 1
PROPERTIES
    SaveFailureShown
CHECK_DEADLOCK FALSE
