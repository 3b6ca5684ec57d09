SPECIFICATION Spec
CONSTANTS
  Documents <- LateImports
  maxScanDepth = 3
  None = None
CHECK_DEADLOCK FALSE
INVARIANT ImportedFirst
