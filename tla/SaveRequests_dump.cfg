SPECIFICATION Spec
CONSTANTS
  NumWorkers = 2
  NumOthers = 1
  JSON = TRUE
  Spaced = TRUE
INVARIANT SaveToCome
CHECK_DEADLOCK FALSE
