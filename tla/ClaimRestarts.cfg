SPECIFICATION FairSpec
CONSTANTS
  Run = {r1, r2}
  RunId <- OwnIds
  Target = {t1}
  None = None
  Kind = "issue"
  TTL = 1
  Page = 10
  MaxRetries = 0
  MaxRestarts = 1
  MaxNotes = 1
  MaxClock = 2
CONSTRAINT Undisturbed
INVARIANTS OverlapExplained
PROPERTIES LeaseSpec ClaimsExpire RunsEnd
CHECK_DEADLOCK FALSE
