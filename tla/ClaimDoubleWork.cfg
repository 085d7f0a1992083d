SPECIFICATION Spec
CONSTANTS
  Run = {r1,r2,r3}
  RunId <- OwnIds
  Target = {t1}
  None = None
  Kind = "issue"
  TTL = 1
  Page = 10
  MaxRetries = 0
  MaxRestarts = 0
  MaxNotes = 0
  MaxClock = 1
CHECK_DEADLOCK FALSE
SYMMETRY Symmetry
INVARIANT
  NoDoubleWork
