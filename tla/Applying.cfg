SPECIFICATION FairSpec
CONSTANTS
  Opener = {o1, o2}
  Pusher = {p1}
  Decomposer = {d1}
  None = None
  Branch = {b1}
  Staged <- Chain
  MaxRetries = 1
CONSTRAINTS OneLate Apart
INVARIANTS LandsOnce UpstreamsResolve CopiesKeepNobodyWaiting
PROPERTIES ImplementsToolCall CallsEnd
CHECK_DEADLOCK FALSE
