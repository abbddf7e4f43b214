SPECIFICATION Spec
CONSTANTS
  None = None
  i1 = i1
  i2 = i2
  c1 = c1
  txt = txt
  epub = epub
  Importers = {i1, i2}
  Contents = {c1}
  Extensions = {txt, epub}
  Mishaps = {"open", "store", "lock", "cancel", "close", "validate", "protected", "unreadable", "lookup", "parse", "insert", "resolve", "delete"}
  MaxImports = 3
  MaxMishaps = 0
  MaxCrashes = 0
  MaxUpdates = 1
  MaxRemovals = 0
CHECK_DEADLOCK FALSE
INVARIANT OneRowPerContent
