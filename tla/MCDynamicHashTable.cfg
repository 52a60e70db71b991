SPECIFICATION Spec
CONSTANTS
  t1 = t1
  t2 = t2
INVARIANTS
  EntriesFound
  BucketsSound
  ScanMissesNothing
  TransitionCarried
