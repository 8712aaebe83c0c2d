SPECIFICATION FairSpec
CONSTANTS
    MaxGenerations = 3
    MaxRevisions = 3
    MaxThreads = 3
INVARIANTS
    ImportInv
    NoSessionLost
    ShownIsCurrent
PROPERTIES
    GeneratesNewest
    DroppedWorkerEnds
CHECK_DEADLOCK FALSE
