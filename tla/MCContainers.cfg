SPECIFICATION MCSpec
CONSTANTS
  Keys = {k1, k2, k3}
  Values = {1, 2}
  InitialCapacity = 2
  Hashes = {0, 2}
  MaxEntries = 3
  Chunks <- MCChunks
  Sizes = {1, 3}
  VectorCapacity = 2
  Capacities = {2, 4}
  Junk = Junk
  WordBits = 3
  BitCounts = {0, 3, 7}
  Indices = {0, 1, 2, 3, 4, 5, 6, 7, 8, 9}
  Nodes = {1, 2, 3, 4}
  PopsLonger = FALSE
SYMMETRY Symmetry
INVARIANTS
  TypesOK
  FindsContent
  ChainsAreSound
  EveryEntryOnce
  VectorStaysInBlock
  ListIsLinked
  BitSetIsSet
PROPERTIES
  VectorIsSequence
  ListIsSequence
CHECK_DEADLOCK FALSE
