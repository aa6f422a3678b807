SPECIFICATION ShapesSpec
CONSTANTS
    Calls = {c1, c2, c3}
    MaxReplayLevel = 3
    Overlap = 2
PROPERTIES
    NeverUnlearned
CHECK_DEADLOCK FALSE
