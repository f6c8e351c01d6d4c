SPECIFICATION PartsSpec
CONSTANTS
    Keys = {k1, k2}
    NoText = none
    Cooldown = 2
    Horizon = 2
    MaxItems = 3
    MaxTime = 3
    MinSize = 2
    Increment = 2
    Values = {2, 7}
    MaxMessages = 3
    MaxFailures = 1
    MaxTimeLost = 1
    KeptRemoved = 1
    MaxDets = 2
    MaxFrames = 4
    MaxIds = 3
    Costs = {0, 3, 5}
    Half = 2
    MaxRows = 2
    MaxCols = 3
    Cameras = {c1, c2}
    Nics = {n1, n2}
    Large = {c2}
    Triggered = {}
    Master = c1
    Link = 6
    Totals = {2}
    MaxIndex = 4
    MaxSteps = 2
    Lights = {1, 2, 3, 5, 12}
    Target = 20
    Deadband = 5
    Cap = 8
    NodeMax = 10
    Ceiling = 10
    GainMin = 2
    GainMax = 4
    NodeGain = 5
    GainStep = 1
    StepRatio = 2
    Damp = 2
    Least = 1
    Fraction = 4
    White = 40
    Interval = 3
    MaxChanges = 2
    Pair = {"rgb", "mono"}
    Modes = {"pylon", "host", "free"}
    MaxSaves = 2
INVARIANTS
    NoRepeatInCooldown
    SuppressedWasSent
    CropAsAsked
    TracksAreSound
    Optimal
    SharesAreSound
    RolesAreSound
PROPERTIES
    LabelIsKept
    RunReturns
    LoopIsSound
CHECK_DEADLOCK FALSE
