SPECIFICATION LocksSpec
CONSTANTS
  t1 = t1
  t2 = t2
  t3 = t3
  Threads <- MCThreads
  MaxActive = 2
  Nil = Nil
INVARIANTS
  MutualExclusion
  OneAtWork
  RefsExact
  BalancedAtTheEnd
  SectionSound
PROPERTIES
  GroupTransitionsValid
  EverybodyServed
