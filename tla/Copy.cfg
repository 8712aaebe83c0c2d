SPECIFICATION Spec
CONSTANTS
    i1 = i1
    i2 = i2
    i3 = i3
    Instances = {i1, i2, i3}
    MaxCopies = 1
    MaxRuns = 2
    MaxFaults = 3
INVARIANTS
    CopyInv
    CopyWhole
SYMMETRY MCSymmetry
