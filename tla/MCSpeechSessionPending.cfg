SPECIFICATION Spec
CONSTANTS
  s1 = s1
  s2 = s2
  None = None
  Callers = {c1, c2}
  Sources <- MCSources
  SegmentCount <- MCSegmentCount
  Commands <- MCCommands
  Faults = {"source", "commit", "engineStop"}
SYMMETRY CallerSymmetry
CHECK_DEADLOCK FALSE
INVARIANT NoAckLeftPending
