SPECIFICATION FairSpec
CONSTANTS
    Projects <- MCProjects
    Existing <- MCExisting
    MaxRuns = 3
    MaxGenerations = 3
    MaxJobs = 2
INVARIANTS
    SessionInv
PROPERTIES
    PresentationSpec
    ViewSettles
CHECK_DEADLOCK FALSE
