SPECIFICATION Spec
CONSTANTS
  Conns = {c1, c2, c3}
  NoConn = NoConn
  Workers = {w1, w2}
  WakeBatch = 2
INVARIANTS TypeOK WakeBytesMatchQueue NoConnectionStranded ConnectionOwnedOnce
PROPERTIES QueuedIsServed
CHECK_DEADLOCK FALSE
