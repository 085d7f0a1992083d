SPECIFICATION FairSpec
CONSTANTS
  i1 = i1
  i2 = i2
  i3 = i3
  Issue = {i1, i2, i3}
  None = None
  BuilderSlot = {b1, b2}
  ReviewerSlot = {v1}
  Upstream <- Chain
  MaxSetbacks = 1
PROPERTIES ImplementsBacklog PRsAreAnswered
CHECK_DEADLOCK FALSE
