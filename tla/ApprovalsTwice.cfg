SPECIFICATION Spec
CONSTANTS
  Requests = {r1, r2, r3}
  MaxRestarts = 0
INVARIANT ExecutesOnce
CHECK_DEADLOCK FALSE
