SPECIFICATION OpenSpec
CONSTANTS
  Names = {a}
  MaxDepth = 2
  MaxFiles = 1
  MaxProcs = 2
  MaxOpens = 2
INVARIANT FileAssertionHolds
CHECK_DEADLOCK FALSE
