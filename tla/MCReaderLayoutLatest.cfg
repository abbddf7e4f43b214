SPECIFICATION Spec
CONSTANTS
  None = None
  ChapterSize = 3
  MaxGeneration = 3
  MaxStyle = 1
  Faults = {}
CHECK_DEADLOCK FALSE
INVARIANT LatestNavigationWins
