CONSTANTS
    Modulus = 16
    Times <- MCTimes
    Stutter <- MCStutter
    StutterTime = 4
    StutterFps = 1
    Second = 4
    MaxTags = 4
SPECIFICATION Spec
INVARIANTS
    AlwaysFormatted
CHECK_DEADLOCK FALSE
