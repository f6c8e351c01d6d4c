\* Two claims that do not hold; TLC stops at the first, so check them one at a time.
\* Settings with an exposure above the cap, and a scene it suits: the loop leaves
\* it there.  A short exposure: the loop adds gain and leaves it short.
SPECIFICATION Spec
CONSTANTS
    Lights = {1, 2, 3, 5, 12}
    Target = 20
    Deadband = 5
    Cap = 8
    NodeMax = 10
    Ceiling = 10
    GainMin = 2
    GainMax = 4
    NodeGain = 5
    GainStep = 1
    StepRatio = 2
    Damp = 2
    Least = 1
    Fraction = 4
    White = 40
    Interval = 3
    MaxChanges = 2
INVARIANT NeverAboveCap
PROPERTY GainAfterExposure
CHECK_DEADLOCK FALSE
