SPECIFICATION PlannerSpec
CONSTANTS
  Ids <- MCIds
  Plans <- MCPlans
  NoId = NoId
  OpenAI = TRUE
  Ollama = TRUE
  NoPlan = NoPlan
INVARIANTS
  TypeOK
  VerdictIsRight
  SearchIsDepthFirst
  PlanIsRunnable
PROPERTIES
  PlanningIsBounded
CHECK_DEADLOCK FALSE
