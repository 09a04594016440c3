CONSTANTS
  HandlerThreads = {"simulation", "other"}
  Randomizes = TRUE
SPECIFICATION FairSpec
INVARIANTS
  BackstopOffOnOwnThread
  LoopsInFullOnOwnThread
PROPERTIES
  InterruptAnswered
  CloseEnds
CHECK_DEADLOCK FALSE
