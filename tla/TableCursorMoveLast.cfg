SPECIFICATION Spec
CONSTANTS
  Pages = {1, 2, 3}
  Databases <- LinkedTables
  MaxRepeat = 1
  OverflowChecks = FALSE
INVARIANT CircularMeansCircle
