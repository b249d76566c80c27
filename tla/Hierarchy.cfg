SPECIFICATION Spec
CONSTANTS
    a1 = a1
    a2 = a2
    a3 = a3
    s1 = s1
    s2 = s2
    r1 = r1
    r2 = r2
    None = None
    Keep = Keep
    Assets <- ThreeAssets
    Sectors <- TwoSectors
    Requests <- TwoRequests
    Creates <- SmallCreates
    Updates <- SmallUpdates
    MaxOperations = 4
SYMMETRY Swaps
INVARIANTS
    HierarchyTypeOK
    MisfitTakesRace
PROPERTIES
    CycleTakesRace
    CascadeReachesAll
    SectorMoveIsClean
CHECK_DEADLOCK FALSE
