SPECIFICATION Spec
CONSTANTS
  w = w c = c
  hash = hash path = path mixed = mixed
  c1 = c1 c2 = c2
  None = None Missing = Missing Torn = Torn
  Procs = {w, c}
  Does <- MCDoes
  Hashes = {hash}
  Paths = {path}
  Mixed = {mixed}
  Completions <- MCCompletions
  Rewrites <- MCRewrites
  Commits <- MCCommits
  Corrections = {c1, c2}
  Current = 1
  Newer = 2
  MaxCommands = 3
SYMMETRY Symmetry
CHECK_DEADLOCK FALSE
INVARIANTS
  TypeOK
  HomeKept
  TrustIsOwn
  NothingUnmarked
  LearnedKept
