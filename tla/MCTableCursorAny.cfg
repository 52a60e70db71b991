SPECIFICATION FairSpec
CONSTANTS
  Pages = {1, 2, 3}
  Databases <- AnyTables
  MaxRepeat = 2
  OverflowChecks = TRUE
PROPERTY EachRowOnce
PROPERTY Terminates
