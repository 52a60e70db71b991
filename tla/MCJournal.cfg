SPECIFICATION JournalSpec
CONSTANTS
  Threads = {t1, t2, t3}
  Nil = Nil
  Sizes = {1, 3}
  Capacity = 2
  Cache = 2
  MaxPos = 3
  Calls = 3
  N = 5
  RingMaxPos = 10
  MaxMounts = 3
  Zero = Zero
  Bad = Bad
INVARIANTS
  RecoveryWorks
  NothingLost
  NothingRevived
  NeverStuck
  DurableIsStable
  NobodyForgotten
PROPERTIES
  EveryCallReturns
CHECK_DEADLOCK FALSE
