SPECIFICATION Spec
CONSTANTS
  s1 = s1
  s2 = s2
  None = None
  Callers = {c1, c2, c3}
  Sources <- MCSources
  SegmentCount <- MCSegmentCount
  Commands <- MCCommands
  Faults = {"source", "commit", "engineStop"}
SYMMETRY CallerSymmetry
CHECK_DEADLOCK FALSE
INVARIANTS
  TypeOK
  OneLivePlayback
  PlayingIsLive
  CommitIsCurrent
  Silence
  TimerArmed
PROPERTIES
  NoLeakedSource
  ReadsInOrder
