SPECIFICATION Spec
CONSTANTS
  p1 = p1
  p2 = p2
  Projects <- MCProjects
  None = None
  NoCursor <- MCNoCursor
  Capacity = 1
  MaxVersion = 1
  MaxTouches = 0
  MaxCommands = 2
  MaxExits = 1
  MaxFaults = 1
SYMMETRY MCSymmetry
INVARIANTS
  TypeOK
  StatusIsTrue
