\* Two like cameras connect to one interface, one after the other: the second
\* counts the first alone, and is given the first one's offset.
SPECIFICATION Spec
CONSTANTS
    Cameras = {c1, c2}
    Nics = {n1}
    Large = {}
    Triggered = {}
    Master = c1
    Link = 12
    Totals = {2}
    MaxIndex = 2
    MaxSteps = 0
INVARIANT StaggersDiffer
CHECK_DEADLOCK FALSE
