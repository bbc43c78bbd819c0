SPECIFICATION Spec
CONSTANTS
  Ids <- MCIds
  Plans <- MCPlans
  RiskyPlans <- NoPlan
  Verdicts <- PlainVerdicts
  WildVerdicts = FALSE
  Threshold = 75
  MaxRetries = 2
  MaxPlanSteps = 2
  MaxParallelSteps = 2
  MaxToolRetries = 2
  AuditMayFail = TRUE
  DbMayFail = FALSE
INVARIANT NoOrphan
CHECK_DEADLOCK FALSE
