SPECIFICATION Spec
CONSTANTS
    r1 = r1
    r2 = r2
    r3 = r3
    x = x
    y = y
    Nobody = Nobody
    Suite = Suite
    None = None
    Free = Free
    Resource = {r1}
    Name <- MCName
    Fold <- MCFold
    Apps = {x, y}
    Parents = {Nobody, Suite}
    NoParents = Nobody
    InitialGroups <- MCGroups
    Configs <- OneGroup
    Bounds <- CalmBound
PROPERTIES
    OtherParentsUntouched
