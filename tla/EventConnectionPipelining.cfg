SPECIFICATION Spec
CONSTANTS
  MaxLine = 3
  MaxBody = 2
  Streams <- MCStreams
  ReadMax = 3
  Room = 3
  BufSize = 2
  FileSize = 2
  Timeout = 1
INVARIANT PipelinedIsAnswered
CHECK_DEADLOCK FALSE
