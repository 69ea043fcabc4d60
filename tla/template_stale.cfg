SPECIFICATION Spec
CONSTANTS
    t1 = t1
    t2 = t2
    t3 = t3
    Sessions = {one, two, three}
    Templates = {t1, t2, t3, t4}
    Start <- MCStart
    None = None
    MaxTemplates = 2
    WindowOpen = FALSE
    MaxActions = 3
    MaxRefreshes = 0
    MaxEdits = 0
    MaxOutside = 0
    MaxCrashes = 1
    MaxTogether = 4
PROPERTIES
    ReplacesWhatWasSeen
CHECK_DEADLOCK FALSE
