SPECIFICATION Spec
CONSTANTS
  p1 = p1
  p2 = p2
  Pids <- MCPids
  MaxTime = 5
  MaxEvents = 2
  WheelSize = 4
  WordBits = 2
  OnePerPid = TRUE
  NoEvent = NoEvent
CHECK_DEADLOCK FALSE
INVARIANTS IndexesAgree OverflowBeyondWindow
PROPERTY ImplementsEventQueue
