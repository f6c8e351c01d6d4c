\* Settings that change between the two reads of reapplySettings, and back.
SPECIFICATION Spec
CONSTANTS
    Cameras = {"rgb"}
    Modes = {"pylon", "host"}
    MaxSaves = 2
INVARIANT ChangeIsNoticed
CHECK_DEADLOCK FALSE
