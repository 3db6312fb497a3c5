SPECIFICATION OpenSpec
CONSTANTS
  Names = {a}
  MaxDepth = 2
  MaxFiles = 1
  MaxProcs = 3
  MaxOpens = 2
INVARIANTS NoDanglingFd CountsInstances HandlesAccountedFor
CHECK_DEADLOCK FALSE
