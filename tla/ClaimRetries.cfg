SPECIFICATION RaceSpec
CONSTANTS
  Run = {r1, r2, r3}
  RunId <- OwnIds
  Target = {t1}
  None = None
  Kind = "issue"
  TTL = 1
  Page = 6
  MaxRetries = 1
  MaxRestarts = 0
  MaxNotes = 0
  MaxClock = 1
SYMMETRY Symmetry
CONSTRAINT OneHeat
INVARIANTS TypeOK LeaseExclusion BlindWinExplained RaceHasWinner
CHECK_DEADLOCK FALSE
