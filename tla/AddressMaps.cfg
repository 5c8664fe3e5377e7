SPECIFICATION Spec
CONSTANTS
    r1 = r1
    r2 = r2
    x = x
    y = y
    h0 = h0
    h1 = h1
    None = None
    Free = Free
    Resource = {r1, r2}
    Span <- MCSpan
    Name <- MCName
    Fold <- MCFold
    Attr = {x, y}
    Hidden = {h0, h1}
    DefaultHidden = h0
    InitialMaps <- MCMaps
    Configs <- DistinctConfigs
    Bounds <- MCBounds
INVARIANTS
    NoOverlap
    AppliedIsStored
PROPERTIES
    HiddenFieldsSurvive
    ImplementsKeyedStore
