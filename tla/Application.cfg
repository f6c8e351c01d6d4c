SPECIFICATION FairSpec
CONSTANTS
    MaxSubs = 3
    MaxDocs = 3
    MaxCommands = 3
    MayFail = TRUE
    Overlap = FALSE
INVARIANTS
    Orderly
    SettledOnNewest
PROPERTIES
    ComesToRest
CHECK_DEADLOCK FALSE
