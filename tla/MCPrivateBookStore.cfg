SPECIFICATION FairSpec
CONSTANTS
  None = None
  s1 = s1
  s2 = s2
  b1 = b1
  Stores = {s1, s2}
  Books = {b1}
  Book <- MCBook
  MaxFailures = 3
  MaxCrashes = 2
  MaxRemovals = 2
CHECK_DEADLOCK FALSE
INVARIANTS TypeOK WholeBooks AnswersHold
PROPERTIES NeverReplaced PartsCleaned EveryStoreEnds
