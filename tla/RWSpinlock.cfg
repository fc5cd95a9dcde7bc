SPECIFICATION FairSpec
CONSTANTS
  Threads = {t1, t2}
  MaxAcquires = 3
INVARIANTS
  TypeOK
  StateCountsHolders
PROPERTIES
  TryWriteFailsOnlyWhenHeld
  WaiterGetsIn
  ImplementsRWLock
CHECK_DEADLOCK FALSE
