CONSTANTS
  X = X
  O = O
  EMPTY = EMPTY

SPECIFICATION Spec

INVARIANTS
  OneTurn
  StopsOnlyByLostSignal

PROPERTY ImplementsGame

CHECK_DEADLOCK FALSE
