SPECIFICATION Spec
CONSTANTS
  Keys = {k1, k2, k3}
  Values = {1, 2}
  InitialCapacity = 2
  Hashes = {0, 2}
  MaxEntries = 3
INVARIANTS
  NoPrevMeansFirst
CHECK_DEADLOCK FALSE
