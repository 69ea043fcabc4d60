SPECIFICATION Spec
CONSTANTS
    Start = start
    Imported = imported
    Typed = typed
    Foreign = foreign
    Meta = m
    Settings = s
    Contents = {start, imported, typed, foreign}
    Metas = {m}
    SettingValues = {s}
    Identities = {self}
    Self = self
    Null = Null
    Kinds = {"export", "import"}
    Hurried = FALSE
    MaxOperations = 2
    MaxTyped = 1
    MaxForeign = 1
    MaxFailures = 1
INVARIANTS
    CancelledMeansUntouched
    ClaimCoversEffects
    PanelMatchesClaim
    UndoIsExact
PROPERTIES
    ClosedCommitsNothing
CHECK_DEADLOCK FALSE
