SPECIFICATION Spec
CONSTANTS
  Documents <- AllDocuments
  maxScanDepth = 3
  None = None
CHECK_DEADLOCK FALSE
INVARIANTS
  TypeOK
  CallsFound
  DiagramsInPlace
  FirstFailureNamed
  NothingLeft
PROPERTIES
  Terminates
