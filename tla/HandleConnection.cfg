SPECIFICATION Spec
CONSTANTS
  MaxLine = 3
  MaxBody = 2
  Streams <- MCStreams
  ReadMax = 3
  FileSize = 1
INVARIANTS TypeOK RepliesInOrder RepliesComplete BufferBounded
PROPERTIES CooperativeConnectionEnds
CHECK_DEADLOCK FALSE
