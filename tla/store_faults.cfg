SPECIFICATION FairSpec
CONSTANTS
  p1 = p1 p2 = p2
  d1 = d1 d2 = d2 d3 = d3
  c = c r = r t = t a = a x = x
  e1 = e1 e2 = e2
  Projects <- MCProjects
  Procs <- Faulty
  Kind <- MCKind
  Target <- MCTarget
  Edits <- NoEdits
  Base = Base
  Absent = Absent
  None = None
  MaxFaults = 1
CHECK_DEADLOCK FALSE
INVARIANTS
  TxnsIndependent
PROPERTIES
  EveryCommandEnds
