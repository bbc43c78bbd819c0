SPECIFICATION Spec
CONSTANTS
  Ids <- MCIds
  Plans <- MCPlans
  RiskyPlans <- MCRiskyPlans
  Verdicts <- MCVerdicts
  WildVerdicts = TRUE
  Threshold = 75
  MaxRetries = 2
  MaxPlanSteps = 2
  MaxParallelSteps = 2
  MaxToolRetries = 2
  AuditMayFail = TRUE
  DbMayFail = TRUE
INVARIANTS
  TypeOK
  SuccessIsEarned
  ApprovalGate
  RetriesAudited
  NoOrphanWithoutFault
PROPERTIES
  Responds
  LedgerSpec
CHECK_DEADLOCK FALSE
