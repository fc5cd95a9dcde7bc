SPECIFICATION FairSpec
CONSTANTS
  CodeEnvs = {A}
  NoEnv = NoEnv
  BeginSize = 8
  MaxSize = 16
  Operands = {1}
  MaxCode = 2
  MaxDepth = 2
  MaxInvokes = 2
INVARIANTS
  TypeOK
  NoDanglingStack
  FramesLeadToInvoke
  
PROPERTIES
  DistancesKept
  PushedCellsKept
  OverflowResolves
CHECK_DEADLOCK FALSE
