SPECIFICATION Spec
CONSTANTS
  Places = {"far"}
  UINT18_MAX = 1
  MaxFunctions = 2
  MaxLirs = 3
  MaxLabels = 1
  MaxStorage = 1
  MaxCommits = 2
INVARIANTS
  TypeOK
  JumpsLand
  LoadsWhatIsMeant
  EveryLirOnce
CHECK_DEADLOCK FALSE
