SPECIFICATION Spec
CONSTANTS
    a = a
    b = b
    c = c
    m = m
    n = n
    s = s
    broken = broken
    Contents = {a, b, c}
    Metas = {m, n}
    SettingValues = {s}
    Identities = {self}
    Self = self
    Null = Null
    Invalid = broken
    Start <- MCStart
    ExternalTexts <- RepairTexts
    Choices = {"keep", "revalidate"}
    MaxVersion = 4
    MaxGeneration = 2
    MaxFlushes = 0
    MaxRefusals = 0
    MaxBacklog = 1
INVARIANTS
    AcknowledgedWasStored
CHECK_DEADLOCK FALSE
