SPECIFICATION Spec
CONSTANTS
  a = a b = b id1 = id1 id2 = id2 title = title t1 = t1 t2 = t2 r1 = r1 r2 = r2
  Items <- TwoItems
  Ids <- MCIds
  HashIds <- TwoHash
  Raws = {}
  Procs <- MCProcs
  NoId = NoId
  NoItem = NoItem
  None = None
  Rounds <- MCRounds
  MaxFaults = 1
SYMMETRY Symmetry
INVARIANTS
  TypeOK
  IdsUnique
  NothingDropped
  RoundsKept
  RoundsRecoverable
  DiscussionIsOwn
