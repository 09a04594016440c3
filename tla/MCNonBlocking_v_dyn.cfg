CONSTANTS
  s1 = s1
  s2 = s2
  b1 = b1
  b2 = b2
  Signals = {s1, s2}
  Bits = {0, 1}
  Blocks = {b1, b2}
  Designs <- MCDesigns
  None = None
  MaxTime = 2
SPECIFICATION NbaSpec
PROPERTY DynLastWins
CHECK_DEADLOCK FALSE
