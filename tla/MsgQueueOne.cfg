SPECIFICATION Spec
CONSTANTS
  Threads = {world}
  Consumers = {c1, c2, c3}
  MaxPush = 4
  None = None
SYMMETRY Symmetry
INVARIANTS NoStranding EveryoneTold
PROPERTY IsFifo
CHECK_DEADLOCK FALSE
