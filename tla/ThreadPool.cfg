SPECIFICATION Spec
CONSTANTS
  Conns = {c1, c2, c3}
  NoConn = NoConn
  Fds = {3, 4}
  Workers = {w1, w2}
INVARIANTS TypeOK DescriptorOwnership DrainedAtReturn NoLostWakeup
PROPERTIES ShutdownCompletes ServiceSpec
CHECK_DEADLOCK FALSE
