SPECIFICATION Spec
CONSTANTS
  None = None
  Books <- MCBooks
  Kinds = {"reflowable", "pdf"}
CHECK_DEADLOCK FALSE
INVARIANTS
  TypeOK
  VoiceIsSelected
  MovesInvert
PROPERTY ContinuesInOrder
