SPECIFICATION Spec
CONSTANTS
  Run = {r1, r2}
  Issue = {i1}
  None = None
  Branch = {b1}
  Plans = {"implement"}
  Upstream <- OneFirst
  Items = 1
  Page = 10
  MaxTries = 1
  ListPage = 10
  PRPage = 10
  TTL = 1
  MaxClock = 2
SYMMETRY Symmetry
INVARIANT HeadHoldsOwnFiles
CHECK_DEADLOCK FALSE
