SPECIFICATION Spec
CONSTANTS
  MaxProcs = 3
  MaxTime = 1
  Designs <- LateDesigns
PROPERTY NbaAfterActive
