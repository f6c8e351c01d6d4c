\* A slave whose frames are twice those of the master that triggers it.
SPECIFICATION Spec
CONSTANTS
    Cameras = {c1, c2}
    Nics = {n1}
    Large = {c2}
    Triggered = {c2}
    Master = c1
    Link = 12
    Totals = {2}
    MaxIndex = 2
    MaxSteps = 0
INVARIANT TriggeredFit
CHECK_DEADLOCK FALSE
