SPECIFICATION Spec
CONSTANTS
  MaxRegisters = 3
  MaxArguments = 0
  INT8_MAX = 3
  INT16_MAX = 5
  MaxLirs = 6
  MaxOperands = 1
INVARIANTS
  RefusedOnlyWhenFull
CHECK_DEADLOCK FALSE
