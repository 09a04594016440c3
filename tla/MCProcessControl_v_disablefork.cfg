SPECIFICATION Spec
CONSTANTS
  MaxPid = 4
  Roots = 1
  MaxTime = 0
  Usages = {{"condition", "label", "disable_fork"}}
CHECK_DEADLOCK FALSE
PROPERTY DisableForkTakesAll
