SPECIFICATION FairSpec
CONSTANTS
  None = None
  ChapterSize = 3
  MaxGeneration = 3
  MaxStyle = 1
  Faults = {"parse"}
CHECK_DEADLOCK FALSE
INVARIANTS
  TypeOK
  LatestReloadWins
PROPERTIES
  SeekKeepsLayout
  ToldWhenShown
  FenceReleased
