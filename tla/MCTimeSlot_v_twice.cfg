SPECIFICATION Spec
CONSTANTS
  MaxProcs = 3
  MaxTime = 2
  Designs <- LivelockDesigns
PROPERTY DeferInTime
