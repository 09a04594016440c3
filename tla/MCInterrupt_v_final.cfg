CONSTANTS
  HandlerThreads = {"other"}
  Randomizes = FALSE
SPECIFICATION Spec
INVARIANT FinalInFull
CHECK_DEADLOCK FALSE
