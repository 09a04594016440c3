CONSTANTS
  p1 = p1
  p2 = p2
  p3 = p3
  Procs <- MCProcs
  MaxKeys = 3
  Features = {"kill", "suspend", "synchronous"}
SPECIFICATION Spec
INVARIANTS
  KeysConserved
  WaitsForKeys
PROPERTY NoneOvertaken
CHECK_DEADLOCK FALSE
