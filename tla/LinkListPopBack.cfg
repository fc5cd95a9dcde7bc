SPECIFICATION Spec
CONSTANTS
  Values = {1, 2}
  Nodes = {1, 2, 3, 4}
  PopsLonger = TRUE
INVARIANTS
  EmptyHoldsNothing
CHECK_DEADLOCK FALSE
