SPECIFICATION FairSpec
CONSTANTS
  NumWorkers = 2
  NumOthers = 1
  JSON = FALSE
  Spaced = FALSE
PROPERTY Answered
CHECK_DEADLOCK FALSE
