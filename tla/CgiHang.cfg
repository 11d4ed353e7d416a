SPECIFICATION Spec
CONSTANTS
  Runs = {r1}
  Scripts = {"filter", "printer", "hangs"}
  Bodies = {0, 2}
  OutLen = 2
  PipeCap = 1
PROPERTIES HangingScriptGets504
CHECK_DEADLOCK FALSE
