CONSTANTS
  Procs = {1, 2}
  MaxHandles = 2
  Designs <- MCDesigns
  SaveAts <- MCSaveAts
  MaxTime = 4
  MaxLines = 2
  MaxOps = 2
  MaxRestores = 2
  MaxBoots = 2
SPECIFICATION Spec
INVARIANTS
  ContinuesAsSaved
  OutputAsSaved
PROPERTY SavesAreWhole
CHECK_DEADLOCK FALSE
