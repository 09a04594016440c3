SPECIFICATION Spec
CONSTANTS
  MaxProcs = 3
  MaxTime = 1
  Designs <- PassDesigns
INVARIANTS
  WaitsOnce
  ActiveIsDone
PROPERTIES
  SlotIsEmpty
  NoTrueWaitLeft
  RunEnds
