SPECIFICATION ServicesSpec
CONSTANTS
    Gates = {g1, g2}
    Durations = {0, 1}
    SegmentSeconds = 1
    RetentionDays = 1
    MaxTotal = 2
    MinFree = 1
    PruneInterval = 2
    DiskSize = 3
    FileTime = 3
    MaxRecs = 2
    Viewers = {v1, v2}
    Requests = {0, 1, 3}
    LongestLive = 3
    ManualLive = 2
    EveryN = 2
    MaxTime = 4
    MaxCommands = 4
    Ta = Ta
    Tb = Tb
    Tc = Tc
    TrackIds = {7}
    Gaps = {0, 1}
    Ttl = 1
    Sizes = {1, 2}
    ReadTime = 3
    MaxPasses = 2
    MaxReads = 2
INVARIANTS
    SegmentsAreSound
    ViewersServed
    EmittedIsVote
PROPERTIES
    OpenSpared
    KeptUntilPruned
CHECK_DEADLOCK FALSE
