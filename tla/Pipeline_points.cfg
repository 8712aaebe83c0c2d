SPECIFICATION Spec
CONSTANTS
    i1 = i1
    i2 = i2
    Instances = {i1}
    Failures = {}
    MaxRuns = 2
    MaxConfig = 2
    MaxFaults = 0
INVARIANTS
    CloudIsCurrent
SYMMETRY MCSymmetry
