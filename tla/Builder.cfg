SPECIFICATION Spec
CONSTANTS
  Run = {r1, r2}
  Issue = {i1, i2}
  None = None
  Branch = {b1, b2}
  Plans = {"implement", "decompose"}
  Upstream <- OneFirst
  Items = 2
  Page = 3
  MaxTries = 2
  ListPage = 10
  PRPage = 10
  TTL = 1
  MaxClock = 3
SYMMETRY Symmetry
INVARIANTS TypeOK OnePRPerIssue OneOutcomePerIssue UpstreamsFirst OnlyVerifiedApplied RecordsAreTrue
PROPERTIES NoPushOntoLeasedPR ImplementsClaims
CHECK_DEADLOCK FALSE
