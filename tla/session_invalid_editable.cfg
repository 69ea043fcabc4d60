SPECIFICATION Spec
CONSTANTS
    a = a
    b = b
    c = c
    m = m
    n = n
    s = s
    broken = broken
    Contents = {a, b}
    Metas = {m}
    SettingValues = {s}
    Identities = {self}
    Self = self
    Null = Null
    Invalid = broken
    Start <- MCStart
    ExternalTexts <- AnyTexts
    Choices = {"reload"}
    MaxVersion = 3
    MaxGeneration = 2
    MaxFlushes = 0
    MaxRefusals = 0
    MaxBacklog = 1
INVARIANTS
    InvalidMeansReadOnly
CHECK_DEADLOCK FALSE
