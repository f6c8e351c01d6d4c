SPECIFICATION FairSpec
CONSTANTS
    Kinds = {"file", "url", "gst", "vlc", "pylon"}
    Sizes = {1, 2}
    QueueCap = 1
    BaseDelay = 1
    MaxDelay = 2
    MaxFrames = 5
    MaxSessions = 2
INVARIANTS
    SessionIsSound
    ReferenceIsCurrent
    VideoLosesNothing
PROPERTIES
    DownIsRetried
    StopReturnsOrStuck
CHECK_DEADLOCK FALSE
