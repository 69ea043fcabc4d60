SPECIFICATION ReadsSpec
CONSTANTS
    a = a
    b = b
    c = c
    t = t
    n = n
    gone = gone
    None = None
    Titles <- MCTitles
    Names <- MCNames
    Slug <- MCSlug
    Levels <- MCLevels
    Start <- MCStart
    Foreign <- MCForeign
    Blocks <- MCBlocks
    Projections <- MCProjections
    Budgets = {2, 4}
    MaxDepth = 2
    MaxNodes = 8
    MaxOperations = 2
    MaxForeign = 1
    MaxWhileReading = 1
PROPERTIES
    ReferencesFollow
    IdsUnique
    LabelsCurrent
    MovesLandWhereAsked
    ReadsOneDocument
CHECK_DEADLOCK FALSE
