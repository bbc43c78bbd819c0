SPECIFICATION Spec
CONSTANTS
  r1 = r1
  r2 = r2
  r3 = r3
  Requests = {r1, r2, r3}
  Pdfs = {r2, r3}
  Texts <- MCTexts
  TextOf <- MCTextOf
  TokenCount <- MCTokenCount
  ChunkSize = 5
  Overlap = 1
  Radix = 2
  MaxId = 3
  MaxRestarts = 1
INVARIANTS
  TypeOK
  PointsHaveDocuments
  IngestedIsSearchable
PROPERTIES
  EveryRequestEnds
  CatalogSpec
CHECK_DEADLOCK FALSE
