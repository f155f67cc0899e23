SPECIFICATION Spec
CONSTANTS
  p1 = p1
  p2 = p2
  Projects <- MCProjects
  None = None
  NoCursor <- MCNoCursor
  Capacity = 1
  MaxVersion = 2
  MaxTouches = 1
  MaxCommands = 1
  MaxExits = 0
  MaxFaults = 0
SYMMETRY MCSymmetry
INVARIANTS
  OneJobPerMark
  NoLostUpdate
PROPERTY
  PromiseKept
