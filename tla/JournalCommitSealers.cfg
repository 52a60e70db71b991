SPECIFICATION Spec
CONSTANTS
  Threads = {t1, t2, t3}
  Nil = Nil
  Sizes = {1, 3}
  Capacity = 2
  Cache = 4
  MaxPos = 3
  Calls = 3
INVARIANTS
  SealWaitersCovered
CHECK_DEADLOCK FALSE
