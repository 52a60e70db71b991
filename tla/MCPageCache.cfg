SPECIFICATION Spec
CONSTANTS
  FileLen = 13
  CacheSize = 1
  GhostSize = 2
  BootPageSize = 4
  HeaderLen = 2
  PageNos = 6
  HeaderPageSizes <- MCPageSizes
  Revisions <- MCRevisions
  MaxOffset = 13
  MaxLen = 2
INVARIANTS
  CacheCoherent
  ReadExact
  PanicsExplained
  OpenMeansAgreed
CHECK_DEADLOCK FALSE
