SPECIFICATION Spec
CONSTANTS
  w = w b = b a = a claude = claude codex = codex
  Transcripts <- MCCodex
  Codex <- MCCodex
  Refreshers <- Both
  Forced <- Briefing
  Failing <- Worker
  Adders <- OneAdder
  None = None
  Missing = Missing
  Torn = Torn
  Nothing = Nothing
  NoCursor = NoCursor
  MaxTurns = 2
  MaxCommits = 1
CONSTRAINT Uncrossed
INVARIANTS
  TypeOK
  NothingSkipped
