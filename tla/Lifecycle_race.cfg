SPECIFICATION Spec
CONSTANTS
    i1 = i1
    i2 = i2
    p1 = p1
    p2 = p2
    Instances = {i1, i2}
    Projects = {p1}
    Isolated = {p1}
    Runnable = {p1}
    Overlap = TRUE
    MaxFaults = 0
PROPERTIES
    OnlyTrashedMoves
SYMMETRY MCSymmetry
