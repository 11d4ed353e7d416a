SPECIFICATION Spec
CONSTANTS
  Conns = {c1}
  NoConn = NoConn
  Workers = {w1}
  WakeBatch = 2
PROPERTIES ShutdownCompletes
CHECK_DEADLOCK FALSE
