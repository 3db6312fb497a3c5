SPECIFICATION FairSpec
CONSTANTS
  Clients = {c1, c2}
  Nobody = Nobody
  MaxAttempts = 3
  MaxTyped = 2
INVARIANTS HandlesExact ReadersServed SocketsReleased EndsAgree NoCrossTalk
PROPERTY HalfOpenEnds
CHECK_DEADLOCK FALSE
