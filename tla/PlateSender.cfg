SPECIFICATION FairSpec
CONSTANTS
    Keys = {k1, k2}
    NoText = none
    Cooldown = 2
    Horizon = 2
    MaxItems = 3
    MaxTime = 3
INVARIANTS
    TypeOK
    NoRepeatInCooldown
    SuppressedWasSent
    SentInOrder
PROPERTIES
    QueueDrains
    StopReturns
CHECK_DEADLOCK FALSE
