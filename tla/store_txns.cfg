SPECIFICATION Spec
CONSTANTS
  p1 = p1 p2 = p2
  d1 = d1 d2 = d2 d3 = d3
  c = c r = r t = t a = a x = x
  e1 = e1 e2 = e2
  Projects <- MCProjects
  Procs <- Transactions
  Kind <- MCKind
  Target <- MCTarget
  Edits <- TwoEdits
  Base = Base
  Absent = Absent
  None = None
  MaxFaults = 0
CHECK_DEADLOCK FALSE
INVARIANTS
  TxnsIndependent
  AIFilesAreClean
  IncomingMeansEdit
  EditsRecoverable
PROPERTIES
  IncomingBlocks
