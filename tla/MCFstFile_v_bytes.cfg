CONSTANTS
  TermLen = 3
  Page = 8
  Chunk = 2
  Bases = {0, 1, 2, 3, 4, 5, 6, 7}
  Sizes = {4, 5, 7}
  MaxBlocks = 3
SPECIFICATION Spec
INVARIANT FinishedByteForByte
CHECK_DEADLOCK FALSE
