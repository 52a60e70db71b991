SPECIFICATION Spec
CONSTANTS
  Catalog <- MCCatalog
  LongColumns = {256, 259}
  FixedSizes <- MCFixedSizes
  Records <- MCRecords
  NumRows = 1
  MaxFailures = 1
  UnknownColumns = {}
  MayFail = TRUE
INVARIANT NoneMeansNull
CHECK_DEADLOCK FALSE
