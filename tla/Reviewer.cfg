SPECIFICATION Spec
CONSTANTS
  Run = {r1, r2}
  PR = {p1}
  None = None
  Page = 10
  TTL = 1
  MaxTries = 1
  MaxComments = 1
  MaxPushes = 1
  MaxClock = 2
SYMMETRY Symmetry
CONSTRAINTS NobodyDies PeopleActOnce
INVARIANTS TypeOK ApprovalsAnswerPeople NoFixOverwritten OnlyVerifiedPushed RecordsAreTrue
CHECK_DEADLOCK FALSE
