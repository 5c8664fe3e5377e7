SPECIFICATION Spec
CONSTANTS
    r1 = r1
    r2 = r2
    x = x
    y = y
    None = None
    Free = Free
    Resource = {r1, r2}
    Mappings <- MCMappings
    UnknownZone <- MCUnknown
    Pair <- MCPairs
    ZoneId <- MCZoneId
    Priority = {20000}
    Body = {x, y}
    Configs <- MCConfigs
    InitialServers <- MCServers
    Bounds <- BoundMapping
PROPERTIES
    DeletedIsGone
