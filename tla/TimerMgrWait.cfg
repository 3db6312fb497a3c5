SPECIFICATION WaitSpec
CONSTANTS
  MaxSlots = 3
  MaxTickets = 4
  MaxClock = 4
  Durations = {0, 1, 2}
  Deltas = {1, 2}
INVARIANTS ResumedOnce ResumedInTime
CHECK_DEADLOCK FALSE
