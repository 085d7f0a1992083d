SPECIFICATION Spec
CONSTANTS
  Run = {r1}
  PR = {p1}
  None = None
  Page = 10
  TTL = 1
  MaxTries = 1
  MaxComments = 1
  MaxPushes = 0
  MaxClock = 1
SYMMETRY Symmetry
INVARIANT CommandsSeenByApproval
CHECK_DEADLOCK FALSE
