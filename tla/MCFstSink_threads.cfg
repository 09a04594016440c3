CONSTANTS
  BatchFlush = 3
  StartTimes = {0, 1}
  MaxTime = 1
  MaxPosts = 3
SPECIFICATION Spec
INVARIANTS
  ChannelKept
  CloseIsComplete
  TailCoversTheRun
PROPERTIES
  ReachesFile
  CloseEnds
CHECK_DEADLOCK FALSE
