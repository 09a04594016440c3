CONSTANTS
  BatchFlush = 3
  StartTimes = {0, 1}
  MaxTime = 2
  MaxPosts = 3
SPECIFICATION Spec
INVARIANT DroppedOnlyAfterTail
CHECK_DEADLOCK FALSE
