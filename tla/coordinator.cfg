SPECIFICATION Spec
CONSTANTS
    Contents = {c1, c2}
    Metas = {m1}
    SettingValues = {s1}
    Identities = {self, other}
    Self = self
    Null = Null
    HostCodes = {"STALE_REVISION", "WRITE_FAILED"}
    Observing = TRUE
    MaxGeneration = 3
    MaxComponent = 1
    MaxRevision = 3
    MaxEdits = 2
    MaxFlushes = 2
SYMMETRY Symmetry
INVARIANTS
    DraftTracked
    NoForgottenDraft
    BarriersHonest
    ComponentRevisionsIdentify
PROPERTIES
    RegisterSpec
