SPECIFICATION Spec
CONSTANTS
    i1 = i1
    i2 = i2
    Instances = {i1, i2}
    Failures = {"ProjectStoreError", "OSError"}
    MaxRuns = 2
    MaxConfig = 2
    MaxFaults = 2
INVARIANTS
    RunInv
    SuccessIsCurrent
    StageHasRun
PROPERTIES
    NoLostConfig
    ResumeKeeps
SYMMETRY MCSymmetry
