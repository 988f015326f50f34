SPECIFICATION MCSpec
CONSTANTS
  NumWorkers = 2
  NumOthers = 1
  JSON = FALSE
  Spaced = TRUE
INVARIANT DecisionStands
PROPERTIES SpacedAnswered SpacedSavesGoOn
CHECK_DEADLOCK FALSE
