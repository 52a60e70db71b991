SPECIFICATION Spec
CONSTANTS
  t1 = t1
  t2 = t2
  t3 = t3
  k1 = k1
  k2 = k2
  k3 = k3
  Nil = Nil
  Threads <- MCThreads
  Objects <- MCObjects
  Ksems <- MCKsems
  Setups <- MCSetups
  MaxAvail = 2
  Batches <- MCBatches
SYMMETRY Symmetry
INVARIANTS
  EveryWaiterAccounted
  KsemUsedByItsObject
  ReferencesExact
PROPERTIES
  HandsOff
CHECK_DEADLOCK FALSE
