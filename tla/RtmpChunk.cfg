CONSTANTS
  Channels <- TwoChannels
  BYTE = 4
  DEFAULT_CHUNKSIZE = 4
  CLIENT_BW = 18
  Media <- Sizes
  Stamps <- Times
  ChunkSizes <- Chunk
  Windows <- Window
  Bandwidths <- Band
  MaxMessages = 3
  MaxReconnects = 1
SPECIFICATION Spec
INVARIANTS
  Framed
  NoStandstill
PROPERTY
  Delivers
CHECK_DEADLOCK FALSE
