SPECIFICATION Spec
CONSTANTS
  MaxSlots = 3
  MaxTickets = 3
  MaxClock = 2
  Durations = {0, 1}
  Deltas = {1}
INVARIANTS FreeListExact NoOverdue
PROPERTY LiveSlotKept
CHECK_DEADLOCK FALSE
