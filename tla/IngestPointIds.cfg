SPECIFICATION Spec
CONSTANTS
  r1 = r1
  r2 = r2
  r3 = r3
  Requests = {r1, r3}
  Pdfs = {}
  Texts <- MCTexts
  TextOf <- MCTextOf
  TokenCount <- WideTokenCount
  ChunkSize = 5
  Overlap = 1
  Radix = 10
  MaxId = 11
  MaxRestarts = 0
INVARIANT ChunksKeepTheirPoints
CHECK_DEADLOCK FALSE
