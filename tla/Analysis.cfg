SPECIFICATION Spec
CONSTANTS
    i1 = i1
    i2 = i2
    Instances = {i1, i2}
    MaxConfigs = 3
    MaxFaults = 3
INVARIANTS
    AnalysisInv
    TimelineKept
PROPERTIES
    FailureRestores
SYMMETRY MCSymmetry
