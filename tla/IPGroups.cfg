SPECIFICATION Spec
CONSTANTS
    r1 = r1
    r2 = r2
    lan = lan
    office = office
    ip = ip
    text = text
    None = None
    Null = Null
    Free = Free
    Resource = {r1, r2}
    Name = {lan, office}
    Lists <- MCLists
    Comment = {text}
    Rules <- MCRules
    InitialGroups <- MCGroups
    Configs <- AllConfigs
    Bounds <- MCBounds
PROPERTIES
    ResultIsConsistent
    CreateReplacesNothing
    ImplementsKeyedStore
