\* A camera whose first connect did not write its rate: the capture loop keeps
\* its own ceiling, and later raises the camera above the share it got meanwhile.
SPECIFICATION Spec
CONSTANTS
    Cameras = {c1, c2}
    Nics = {n1}
    Large = {}
    Triggered = {}
    Master = c1
    Link = 12
    Totals = {2}
    MaxIndex = 2
    MaxSteps = 2
INVARIANT AdaptedFit
CHECK_DEADLOCK FALSE
