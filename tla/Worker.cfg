SPECIFICATION FairSpec
CONSTANTS
    c1 = c1
    c2 = c2
    None = None
    Calls = {c1, c2}
    Artifacts = {1, 2}
    MaxFaults = 1
INVARIANTS
    CommitInv
    StoppedPublishesNothing
    AllOrNothing
PROPERTIES
    PublishedStays
    CallEnds
CHECK_DEADLOCK FALSE
