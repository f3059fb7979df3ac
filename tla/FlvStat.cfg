\* Up to five tags on a clock of 16 ticks.
CONSTANTS
    Modulus = 16
    Times <- MCTimes
    Stutter <- MCStutter
    StutterTime = 4
    StutterFps = 1
    Second = 4
    MaxTags = 5
SPECIFICATION Spec
INVARIANTS
    LengthTelescopes
    SegmentsFollowScript
    SmoothBound
PROPERTIES
    LagsAreReal
CHECK_DEADLOCK FALSE
