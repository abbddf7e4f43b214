SPECIFICATION FairSpec
CONSTANTS
  Calls = {c1, c2}
  Stops = {s1}
  Queries = {q1}
  MaxRequests = 3
  None = None
CHECK_DEADLOCK FALSE
INVARIANTS TypeOK CloseReleases
PROPERTIES Contract EveryCallEnds
