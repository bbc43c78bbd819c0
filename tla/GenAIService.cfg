SPECIFICATION Spec
CONSTANTS
  Queries <- MCQueries
  Providers = {"ollama", "openai"}
  MaxSubtasks = 3
  Jobs = {j1}
  MaxRestarts = 1
INVARIANTS
  TypeOK
  AnswersInOrder
  SessionRecovered
PROPERTIES
  EveryQueryEnds
  EveryJobEnds
CHECK_DEADLOCK FALSE
