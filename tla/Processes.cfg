SPECIFICATION Spec
CONSTANTS
  MaxPid = 4
  MaxRaces = 5
  MaxLines = 3
INVARIANTS ResumedOnce CanBeResumed HostsOutlive
PROPERTIES LinesTaken TerminalReturns
CHECK_DEADLOCK FALSE
