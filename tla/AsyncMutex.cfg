SPECIFICATION FairSpec
CONSTANTS
  Proc = {p1, p2, p3, p4}
  Nil = Nil
  NotLocked = NotLocked
INVARIANTS
  TypeOK
  MutualExclusion
  OnlySuspendedListed
  Assertions
PROPERTIES
  ImplementsFairFifoLock
