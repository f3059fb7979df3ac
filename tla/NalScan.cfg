CONSTANTS
    Files <- MCFiles
    Ahead = {0, 7}
    MAX_NAL_SIZE = 16
    MaxScans = 2
    NewStream <- MCNewStream
    ReadNalUnit <- MCReadNalUnit
    NalTypeOf <- MCNalType
    SliceTypeOf <- MCSliceType
    InfoOf <- MCInfo
SPECIFICATION Spec
INVARIANTS
    UnitsFound
    RefusedOnlyInFront
    ReportMatches
PROPERTY Advances
CHECK_DEADLOCK FALSE
