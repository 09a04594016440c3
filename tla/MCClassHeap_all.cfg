SPECIFICATION Spec
CONSTANTS
  MaxHandle = 3
  MaxMessage = 2
  MaxBoxes = 1
  MaxFrame = 1
  MinAllocs = 1
  Bound = 1
  Usages = {{"mailbox", "stress"}, {"task"}}
CHECK_DEADLOCK FALSE
INVARIANT NothingReachableFreed
PROPERTY GarbageGoes
