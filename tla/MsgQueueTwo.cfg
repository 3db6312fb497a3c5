SPECIFICATION Spec
CONSTANTS
  Threads = {world, asio}
  Consumers = {c1, c2}
  MaxPush = 3
  None = None
SYMMETRY Symmetry
INVARIANTS ResumeOnce NoDuplicates
CHECK_DEADLOCK FALSE
