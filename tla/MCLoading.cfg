SPECIFICATION LoadingSpec
CONSTANTS
  Pages = {4, 5, 6}
  Root = 4
  Files <- MCFiles
  MaxVisits = 5
  LvPages = {1, 2, 3, 4, 5}
  LvKeys = {1, 2, 3}
  CompressedKeys = {2}
  MaxDepth = 3
INVARIANT CatalogExact
INVARIANT CircleNeedsFirstPage
INVARIANT AllOrNothing
 
PROPERTY Terminates
PROPERTY Returns
CHECK_DEADLOCK FALSE
