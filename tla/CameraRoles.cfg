\* A pair that is offline when it is added: the colour camera is no slave.
SPECIFICATION Spec
CONSTANTS
    Cameras = {"rgb", "mono"}
    Modes = {"host"}
    MaxSaves = 0
INVARIANT PairRgbIsSlave
CHECK_DEADLOCK FALSE
