SPECIFICATION FairSpec
CONSTANTS
    r1 = r1
    r2 = r2
    x = x
    y = y
    None = None
    Free = Free
    Resource = {r1, r2}
    Attr = {x, y}
    Name <- MCName
    Fold <- MCFold
    Configs <- SmallConfigs
    InitialLists <- MCLists
    Bounds <- MCBounds
INVARIANTS
    ResolvedIdIsCurrent
    NamesUnique
    NoSharedRule
    AppliedIsStored
PROPERTIES
    BystandersUntouched
    ImplementsRuleBook
    EveryRunEnds
