CONSTANTS
  X = X
  O = O
  EMPTY = EMPTY

SPECIFICATION Spec

INVARIANT WaitsOnlyWithoutTurn

CHECK_DEADLOCK FALSE
