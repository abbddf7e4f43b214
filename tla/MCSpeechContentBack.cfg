SPECIFICATION Spec
CONSTANTS
  None = None
  Books <- MCBooks
  Kinds = {"pdf"}
CHECK_DEADLOCK FALSE
PROPERTY NeverGoesBack
