SPECIFICATION Spec
CONSTANTS
  Ids <- MCIds
  Plans <- UniquePlans
  MaxPlanSteps = 4
  MaxParallelSteps = 2
  MaxToolRetries = 3
  Audited = TRUE
  DbMayFail = TRUE
INVARIANTS
  TypeOK
  RunsOnGoodDependencies
  NeverCircular
  BoundedConcurrency
  AuditAgrees
PROPERTIES
  ExecutionIsBounded
  Termination
  DagSpec
CHECK_DEADLOCK FALSE
