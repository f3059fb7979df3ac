CONSTANTS
    Units <- MCUnits
    MaxUnits = 4
    Losses = {1, 6}
    BufferSize = 100
SPECIFICATION Spec
INVARIANTS
    SetsArrive
    SlicesArrive
    CutsRefused
    NoStartCodeInside
CHECK_DEADLOCK FALSE
