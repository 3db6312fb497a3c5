SPECIFICATION TreeSpec
CONSTANTS
  Names = {a, b}
  MaxDepth = 3
  MaxFiles = 4
SYMMETRY NameSymmetry
INVARIANTS PathsAgree ChildrenAgree OrphansAreStrays
PROPERTIES FillsInDirectories RemovesSubtree
