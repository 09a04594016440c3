SPECIFICATION Spec
CONSTANTS
  MaxProcs = 2
  MaxTime = 1
  Designs <- NarrowDesigns
PROPERTY NoEdgeErased
