\* Every recording, on disks with no, little and enough room.
CONSTANTS
    Modulus = 16
    Kilo = 2
    PauseAll = 3
    MaxChunk = 4
    StdioBuffer = 1
    Params <- MCParams
    Rooms <- MCRooms
    MaxSize = 14
    MaxTime = 10
SPECIFICATION FairSpec
INVARIANTS
    RtmpBounded
    HttpOverrun
    RtmpLossReported
PROPERTIES
    RtmpEnds
CHECK_DEADLOCK FALSE
