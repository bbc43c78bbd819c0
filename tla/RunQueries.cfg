SPECIFICATION QueriesSpec
CONSTANTS
  Ids <- MCIds
  OwnerOf <- MCOwnerOf
  Outcomes <- MCOutcomes
  Users = {"owner", "admin"}
  Admins = {"admin"}
  Filters = {NoValue, "running", "completed"}
  PageSize = 2
  MaxSteps = 1
  NoValue = NoValue
INVARIANTS
  TypeOK
  PagesMissNothing
  ShownOnce
  LaterPartsCover
  HealthyIsEarned
CHECK_DEADLOCK FALSE
