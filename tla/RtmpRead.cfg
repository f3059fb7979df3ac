CONSTANTS
  MaxMessages = 3
  Streams <- AllStreams
  BufferSizes = {10, 37, 200}
  HeaderSizes = {40, 1000}
  Resumes <- AllResumes
  MAX_IGNORED_FRAMES = 1
  Cuts = {1, 14, 24, 30}
SPECIFICATION Spec
INVARIANTS
  WholeTags
  Republished
  Understood
CHECK_DEADLOCK FALSE
