SPECIFICATION FairSpec
CONSTANTS
    t1 = t1
    t2 = t2
    t3 = t3
    Sessions = {one, two}
    Templates = {t1, t2, t3}
    Start <- MCStart
    None = None
    MaxTemplates = 2
    WindowOpen = FALSE
    MaxActions = 2
    MaxRefreshes = 1
    MaxEdits = 1
    MaxOutside = 1
    MaxCrashes = 1
    MaxTogether = 3
INVARIANTS
    CatalogShowsOwnChange
    PanelAwaitsWork
PROPERTIES
    ReplacesWhatWasSeen
    ActionsEnd
CHECK_DEADLOCK FALSE
