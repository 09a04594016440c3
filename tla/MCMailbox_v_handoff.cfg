CONSTANTS
  p1 = p1
  p2 = p2
  p3 = p3
  p4 = p4
  Procs <- MC4Procs
  Bounds = {0}
  MaxSent = 3
  Usages = {{"expression"}}
SPECIFICATION Spec
SYMMETRY Symmetry4
CHECK_DEADLOCK FALSE
INVARIANT NobodyBesideMessage
