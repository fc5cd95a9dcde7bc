SPECIFICATION FairSpec
CONSTANTS
  Threads = {t1, t2, t3}
  NoThread = NoThread
  MaxCalls = 3
  MaxDepth = 2
INVARIANTS
  TypeOK
  OwnerCounts
  EventWhenFree
PROPERTIES
  WaiterGetsIn
CHECK_DEADLOCK FALSE
