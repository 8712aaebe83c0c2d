SPECIFICATION Spec
CONSTANTS
    i1 = i1
    i2 = i2
    Instances = {i1}
    Users = {i1}
    Choices <- MCAny
    MaxRuns = 2
    MaxCleanups = 1
    MaxFaults = 1
PROPERTIES
    ClearedStaysCleared
