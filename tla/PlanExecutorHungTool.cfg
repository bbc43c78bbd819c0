SPECIFICATION HungToolSpec
CONSTANTS
  Ids <- MCIds
  Plans <- SingleStepPlans
  MaxPlanSteps = 4
  MaxParallelSteps = 2
  MaxToolRetries = 3
  Audited = TRUE
  DbMayFail = FALSE
PROPERTY DeadlineBoundsRun
CHECK_DEADLOCK FALSE
