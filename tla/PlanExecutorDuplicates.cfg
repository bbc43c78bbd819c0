SPECIFICATION Spec
CONSTANTS
  Ids <- MCIds
  Plans <- DuplicatePlans
  MaxPlanSteps = 4
  MaxParallelSteps = 2
  MaxToolRetries = 3
  Audited = TRUE
  DbMayFail = FALSE
INVARIANT FailureIsReported
CHECK_DEADLOCK FALSE
