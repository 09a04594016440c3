CONSTANTS
  p1 = p1
  p2 = p2
  p3 = p3
  Procs <- MCProcs
  MaxKeys = 3
  Features = {"kill"}
SPECIFICATION Spec
INVARIANT OldestMustWait
CHECK_DEADLOCK FALSE
