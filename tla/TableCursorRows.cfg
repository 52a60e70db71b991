SPECIFICATION RowsSpec
CONSTANTS
  Pages = {1, 2, 3, 9}
  Databases <- LinkedTables
  MaxRepeat = 2
  OverflowChecks = FALSE
INVARIANT OnLiveRow
INVARIANT ScanNeverRefused
INVARIANT CompleteScan
PROPERTY MovesOverRows
