SPECIFICATION Spec
CONSTANTS
    r1 = r1
    r2 = r2
    x = x
    y = y
    None = None
    Free = Free
    Resource = {r1, r2}
    Domain <- MCDomain
    Name <- MCName
    Fold <- MCFold
    Attr = {x, y}
    InitialDefs <- MCDefs
    Configs <- DistinctConfigs
    Bounds <- MCBounds
INVARIANTS
    DomainsUnique
PROPERTIES
    PlanPromisesNoRefusal
    ImplementsKeyedStore
