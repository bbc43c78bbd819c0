SPECIFICATION Spec
CONSTANTS
  Requests = {r1, r2, r3, r4}
  MaxRestarts = 1
SYMMETRY RequestSymmetry
INVARIANTS
  TypeOK
  StartsOnlyOnApproval
  NoStartAfterRecord
  DecisionHolds
  ExecutedIsRecorded
CHECK_DEADLOCK FALSE
