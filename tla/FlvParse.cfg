\* Every pair of tags and every triple of regular tags, cut at every byte.
CONSTANTS
    Recordings <- Streams
    Word = 1073741824
SPECIFICATION FairSpec
INVARIANTS
    CutsReported
    NothingSkipped
PROPERTIES
    Demultiplexes
    Parsed
CHECK_DEADLOCK FALSE
