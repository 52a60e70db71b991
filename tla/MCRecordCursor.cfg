SPECIFICATION Spec
CONSTANTS
  Catalog <- MCCatalog
  LongColumns = {256, 259}
  FixedSizes <- MCFixedSizes
  Records <- MCRecords
  NumRows = 2
  MaxFailures = 1
  UnknownColumns = {4, 258}
  MayFail = TRUE
INVARIANT CleanMeansExact
INVARIANT FirstFailureExplained
CHECK_DEADLOCK FALSE
