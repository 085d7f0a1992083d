SPECIFICATION Spec
CONSTANTS
  Run = {r1, r2}
  PR = {p1}
  None = None
  Page = 3
  TTL = 1
  MaxTries = 2
  MaxComments = 0
  MaxPushes = 0
  MaxClock = 2
SYMMETRY Symmetry
PROPERTY ImplementsClaims
CHECK_DEADLOCK FALSE
