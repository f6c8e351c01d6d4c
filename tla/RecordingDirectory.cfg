SPECIFICATION Spec
CONSTANTS
    Gates = {g1, g2}
    Durations = {0, 1}
    SegmentSeconds = 1
    RetentionDays = 1
    MaxTotal = 2
    MinFree = 1
    PruneInterval = 2
    DiskSize = 3
    MaxTime = 3
    MaxRecs = 2
INVARIANTS
    DirectoryStays
CHECK_DEADLOCK FALSE
