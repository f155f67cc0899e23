SPECIFICATION FairSpec
CONSTANTS
  anthropic = anthropic
  ollama = ollama
  None = None
  Broken = Broken
  Providers <- MCProviders
  DefaultName = anthropic
  Configs <- MCConfigs
  Builtin <- MCBuiltin
  Depths = {"shallow", "deep"}
  Histories <- MCHistories
  LastK = 2
  MapCap = 2
  Attempts = 3
  Durations <- MCDurations
  Timeout = 120
  BackoffBase = 1
  MaxWait = 4
  Ceiling = 1000
  MinFails = 4
INVARIANTS
  TypeOK
  CutMeansTrouble
  NoticeIsExact
PROPERTY
  EveryJobEnds
