SPECIFICATION FairSpec
CONSTANTS
    a = a
    b = b
    c = c
    m = m
    n = n
    s = s
    broken = broken
    Contents = {a, b}
    Metas = {m}
    SettingValues = {s}
    Identities = {self}
    Self = self
    Null = Null
    Invalid = broken
    Start <- MCStart
    ExternalTexts <- AnyTexts
    Choices = {"keep", "retry", "recover", "revalidate"}
    MaxVersion = 3
    MaxGeneration = 3
    MaxFlushes = 1
    MaxRefusals = 1
    MaxBacklog = 1
INVARIANTS
    QuietMeansStored
    FlushMeansStored
PROPERTIES
    NoForeignOverwrite
    DraftSettles
    FlushAnswered
CHECK_DEADLOCK FALSE
