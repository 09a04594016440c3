CONSTANTS
  p1 = p1
  p2 = p2
  p3 = p3
  p4 = p4
  Procs <- MC4Procs
  Bounds = {0, 1, 2}
  MaxSent = 7
  Usages = {{"kill", "suspend"}, {"expression", "synchronous", "kill", "suspend"}}
SPECIFICATION Spec
SYMMETRY Symmetry4
CHECK_DEADLOCK FALSE
INVARIANTS
  EachOnce
  NobodyWaitsInVain
  WithinBound
PROPERTY ServedInOrder
