SPECIFICATION Spec
CONSTANTS
    i1 = i1
    i2 = i2
    Instances = {i1, i2}
    Users = {i1}
    Choices <- MCChoices
    MaxRuns = 2
    MaxCleanups = 2
    MaxFaults = 2
INVARIANTS
    CleanupInv
    NothingLost
PROPERTIES
    SucceededOpens
    RunUndisturbed
