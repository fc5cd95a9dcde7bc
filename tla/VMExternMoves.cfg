SPECIFICATION Spec
CONSTANTS
  CodeEnvs = {A}
  NoEnv = NoEnv
  BeginSize = 8
  MaxSize = 16
  Operands = {1}
  MaxCode = 3
  MaxDepth = 1
  MaxInvokes = 1
PROPERTIES
  ExternMovesStack
CHECK_DEADLOCK FALSE
