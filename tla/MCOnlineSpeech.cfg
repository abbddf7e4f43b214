SPECIFICATION Spec
CONSTANTS
  None = None
  r1 = r1
  r2 = r2
  Requests = {r1, r2}
  Scope <- MCScope
  Text <- MCText
  MaxEntries = 1
  Stops = {s1}
  Retries = 1
  MaxClears = 1
CHECK_DEADLOCK FALSE
INVARIANTS TypeOK CacheWithinScope
PROPERTIES RoutedContract
