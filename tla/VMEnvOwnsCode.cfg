SPECIFICATION Spec
CONSTANTS
  CodeEnvs = {A, B}
  NoEnv = NoEnv
  BeginSize = 8
  MaxSize = 16
  Operands = {1}
  MaxCode = 3
  MaxDepth = 2
  MaxInvokes = 2
INVARIANTS
  EnvOwnsCode
CHECK_DEADLOCK FALSE
