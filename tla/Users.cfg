SPECIFICATION Spec
CONSTANTS
  Sessions = {s1, s2}
  NewNames = {"eva"}
  Sudoers = {"fredr"}
  Passwords = {p, q}
  MaxUid = 1001
  MaxClock = 2
  MaxEdits = 2
  MaxPrompts = 1
SYMMETRY Alike
VIEW State
INVARIANTS CacheFollowsFiles
PROPERTIES LoginFollowsFiles SudoFollowsFiles AddKeepsUsers
CHECK_DEADLOCK FALSE
