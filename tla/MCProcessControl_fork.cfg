SPECIFICATION Spec
CONSTANTS
  MaxPid = 4
  Roots = 1
  MaxTime = 1
  Usages = {{"delay", "event"}}
CHECK_DEADLOCK FALSE
INVARIANTS FinishedIsDone NoStuckJoin TreeFollowsForks
