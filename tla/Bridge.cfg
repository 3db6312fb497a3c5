CONSTANTS
  a = a
  b = b
  Clients <- Both
  Hub = hub
  Neighbour = n
  NoHost = none
  Programs = {"world"}
  Traffic <- Flows
  MaxPackets = 2
  MaxJoins = 2
  MaxBusy = 1
SPECIFICATION Spec
INVARIANTS HandledOnce EndedTakeOne AloneNothingLost NothingCirculates
CHECK_DEADLOCK FALSE
