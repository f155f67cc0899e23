SPECIFICATION McpSpec
CONSTANTS
  p = p q = q f1 = f1 f2 = f2 d1 = d1 d2 = d2 
  server = server dashboard = dashboard a = a v1 = v1 v2 = v2 v3 = v3
  Searchers <- MCSearchers
  Files <- MCFiles
  CwdOf <- MCCwd
  DirOf <- MCDir
  Codex <- MCCodex
  Here = p
  None = None
  Peek = 1
  MaxWrites = 2
  MaxFaults = 1
  Server = server
  Dashboards <- MCDashboards
  Ids <- MCIds
  NoId = NoId
  Requests <- MCRequests
  Known = v1
  Newest = v2
  Fallback = v3
  MaxRequests = 2
  MaxChanges = 1
CHECK_DEADLOCK FALSE
INVARIANTS
  McpTypeOK
  FoundIsCaptured
  UpToDateIsWhole
  OwnOnly
