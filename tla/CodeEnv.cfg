SPECIFICATION FairSpec
CONSTANTS
  Threads = {t1, t2}
  CodeEnvs = {e1, e2}
  NoEnv = NoEnv
  InitialCapacity = 1
  MaxCalls = 3
INVARIANTS
  TypeOK
  CountsOwners
  RegistryIsSound
  DestroyedOnce
  OwnerFindsItsCode
  NothingLeaks
PROPERTIES
  LastUnshareFrees
CHECK_DEADLOCK FALSE
