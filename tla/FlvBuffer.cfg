\* Pieces from the start and from the middle of a stream, cut at every byte.
CONSTANTS
    Pieces <- Streams
SPECIFICATION Spec
INVARIANTS
    InStep
    ReadsInside
PROPERTIES
    Demultiplexes
CHECK_DEADLOCK FALSE
