SPECIFICATION Spec
CONSTANTS
    r1 = r1
    r2 = r2
    r3 = r3
    lan = lan
    wan = wan
    Default = Default
    None = None
    Free = Free
    Resource = {r1, r2}
    Name = {lan, wan, Default}
    FirstFree = 2
    Reserved = {0, 1}
    InitialZones <- MCZones
    Configs <- AllConfigs
    Bounds <- MCBounds
INVARIANTS
    NoSharedZone
PROPERTIES
    OtherZonesUntouched
    OnlyDeletesDropRules
    ImplementsKeyedStore
