SPECIFICATION FairSpec
CONSTANTS
  MaxRegisters = 4
  MaxArguments = 2
  INT8_MAX = 3
  INT16_MAX = 6
  MaxLirs = 4
  MaxOperands = 2
INVARIANTS
  TypeOK
  ValuesHavePlaces
  ActiveIsAlive
PROPERTIES
  ScanEnds
CHECK_DEADLOCK FALSE
