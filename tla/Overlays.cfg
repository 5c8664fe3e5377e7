SPECIFICATION FairOverlaySpec
CONSTANTS
    r1 = r1  r2 = r2  o1 = o1  o2 = o2  s0 = s0  s1 = s1  t = t  n = n  z = z
    None = None  Free = Free
    Criterion = {"app"}
    OtherField = {"vendor"}
    Text = {t}
    SeqNumber = {1, 2}
    Setting = {s0, s1}
    UIEntry <- MCUIEntry
    Resource = {r1, r2}
    Overlay = {o1, o2}
    InitialOverlays <- MCOverlays
    Configs <- DistinctConfigs
    Bounds <- MCBounds
INVARIANTS
    OverlayTypeOK
    AppliedACLIsStored
PROPERTIES
    ForeignEntriesSurvive
    UnmodelledSurvive
    CreateDropsNothing
    EveryRunEnds
