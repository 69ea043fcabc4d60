SPECIFICATION PersistentSpec
CONSTANTS
    a = a
    b = b
    c = c
    m = m
    n = n
    s = s
    broken = broken
    Contents = {a, b}
    Metas = {m}
    SettingValues = {s}
    Identities = {self}
    Self = self
    Null = Null
    Invalid = broken
    Start <- MCStart
    ExternalTexts <- AnyTexts
    Choices = {"recover", "revalidate"}
    MaxVersion = 3
    MaxGeneration = 1
    MaxFlushes = 0
    MaxRefusals = 0
    MaxBacklog = 1
PROPERTIES
    RepairReopens
CHECK_DEADLOCK FALSE
