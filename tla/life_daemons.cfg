SPECIFICATION FairSpec
CONSTANTS
  m1 = m1 m2 = m2 m3 = m3
  c1 = c1 c2 = c2
  Daemons <- ThreeDaemons
  Clients <- TwoClients
  Stale = Stale
  None = None
  MaxKills = 2
  MaxTerms = 2
CHECK_DEADLOCK FALSE
INVARIANTS
  OneDaemon
  ServingIsReachable
PROPERTIES
  AnswerIsHolder
  LazyStartWorks
