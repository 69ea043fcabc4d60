SPECIFICATION Spec
CONSTANTS
    Previews = {p, q}
    a = a
    b = b
    Sources <- MCSources
    Script <- MCScript
    Empty = empty
    Endpoints = {e, f}
    Slots = 1
    MaxCached = 1
    Exporters = {"document"}
    MaxInputs = 2
    MaxEvents = 2
INVARIANTS
    PreviewsTruthful
    SlotsAccounted
PROPERTIES
    SendsUnderConsent
SYMMETRY Symmetry
CHECK_DEADLOCK FALSE
