SPECIFICATION Spec
CONSTANTS
    MaxSubs = 2
    MaxDocs = 2
    MaxCommands = 1
    MayFail = FALSE
    Overlap = FALSE
INVARIANTS
    GapsInSync
CHECK_DEADLOCK FALSE
