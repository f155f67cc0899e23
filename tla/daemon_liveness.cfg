SPECIFICATION FairSpec
CONSTANTS
  p1 = p1
  p2 = p2
  Projects <- MCProjects
  None = None
  NoCursor <- MCNoCursor
  Capacity = 1
  MaxVersion = 1
  MaxTouches = 0
  MaxCommands = 0
  MaxExits = 0
  MaxFaults = 1
PROPERTIES
  EventuallyFresh
  LoopReturns
