SPECIFICATION Spec
CONSTANTS
    r1 = r1
    r2 = r2
    x = x
    y = y
    None = None
    Free = Free
    Resource = {r1, r2}
    Pair <- MCPair
    Name <- MCName
    Fold <- MCFold
    Attr = {x, y}
    InitialDefs <- MCDefs
    Configs <- MovedConfigs
    Bounds <- CalmBound
PROPERTIES
    OwnEntryNeverCollides
