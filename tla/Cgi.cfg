SPECIFICATION Spec
CONSTANTS
  Runs = {r1, r2}
  Scripts = {"filter", "printer", "hangs"}
  Bodies = {0, 2}
  OutLen = 2
  PipeCap = 1
INVARIANTS TypeOK NothingLeftBehind OutputWhole TimeoutExplained
PROPERTIES CallsReturn
CHECK_DEADLOCK FALSE
