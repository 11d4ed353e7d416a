SPECIFICATION Spec
CONSTANTS
  Files <- MCFiles
  Clients = {c1, c2}
  Fds = {3, 4, 5, 6, 7, 8}
INVARIANTS TypeOK LoadedAsWritten ReturnedClean ShutdownByteGoesToPipe
PROPERTIES RunReturns
CHECK_DEADLOCK FALSE
