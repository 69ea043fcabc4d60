SPECIFICATION Spec
CONSTANTS
    a = a
    b = b
    c = c
    m = m
    n = n
    s = s
    broken = broken
    Contents = {a, b, c}
    Metas = {m, n}
    SettingValues = {s}
    Identities = {self}
    Self = self
    Null = Null
    Invalid = broken
    Start <- MCStart
    ExternalTexts <- NewTexts
    Choices = {"keep", "reload"}
    MaxVersion = 3
    MaxGeneration = 2
    MaxFlushes = 1
    MaxRefusals = 1
    MaxBacklog = 1
INVARIANTS
    AcknowledgedWasStored
PROPERTIES
    NoForeignOverwrite
CHECK_DEADLOCK FALSE
