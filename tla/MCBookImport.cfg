SPECIFICATION FairSpec
CONSTANTS
  None = None
  i1 = i1
  i2 = i2
  c1 = c1
  txt = txt
  epub = epub
  Importers = {i1, i2}
  Contents = {c1}
  Extensions = {txt, epub}
  Mishaps = {"open", "store", "lock", "cancel", "close", "validate", "protected", "unreadable", "lookup", "parse", "insert", "resolve", "delete"}
  MaxImports = 3
  MaxMishaps = 2
  MaxCrashes = 1
  MaxUpdates = 1
  MaxRemovals = 1
CHECK_DEADLOCK FALSE
INVARIANTS
  TypeOK
  RowHasFile
  AnswerIsTrue
  FaultlessImportIsKept
PROPERTIES
  KeepsListedFiles
  RefusedLeavesNothing
  EveryImportEnds
