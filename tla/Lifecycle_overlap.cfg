SPECIFICATION FairSpec
CONSTANTS
    i1 = i1
    i2 = i2
    p1 = p1
    p2 = p2
    Instances = {i1, i2}
    Projects = {p1}
    Isolated = {p1}
    Runnable = {p1}
    Overlap = TRUE
    MaxFaults = 3
INVARIANTS
    LifecycleInv
    RunExcludesMoves
PROPERTIES
    ShelfSpec
    RecoveryEnds
    ResidueHeals
