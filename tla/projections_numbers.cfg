SPECIFICATION Spec
CONSTANTS
    None = None
    a = a
    b = b
    c = c
    word = word
    space = space
    Levels = {1, 2}
    Ids = {a, b, c, d}
    TableSize = 4
    MaxMaps = 1
    Blanks = {space}
    IndexFirst = TRUE
    Starts <- MCStarts
    Inserted <- MCInserted
    Replacements <- MCReplacements
    Words = {word}
    Policies <- MCPolicies
    Opening <- Hierarchical
    FormatsLinks = FALSE
    LinksInHeadings = FALSE
    MaxBlocks = 4
    MaxLength = 3
    MaxEdits = 3
INVARIANTS
    NumbersCurrent
