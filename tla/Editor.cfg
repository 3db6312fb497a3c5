SPECIFICATION Spec
CONSTANTS
  Texts <- Keys
  Paths = {own, others}
  ReadOnly = {others}
  Absent = Absent
  NoPath = NoPath
  MaxEdits = 3
INVARIANTS CursorOnBoundary CleanIsOnDisk
PROPERTY EditsAtCursor
CHECK_DEADLOCK FALSE
