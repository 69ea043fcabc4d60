SPECIFICATION Spec
CONSTANTS
    one = one
    oneAgain = oneAgain
    two = two
    three = three
    Paths <- MCPaths
    Key <- MCKey
    Start <- MCStart
    ForeignOrders <- MCForeignOrders
    Invalid = invalid
    None = None
    MaxDocuments = 2
    Overlapping = TRUE
    MaxWrites = 1
    MaxClicks = 2
    MaxExports = 1
    MaxTogether = 3
CHECK_DEADLOCK FALSE
PROPERTIES
    EditsWhatWasShown
