CONSTANTS
  X = X
  O = O
  EMPTY = EMPTY

SPECIFICATION FairSpec

INVARIANTS
  TypeOK
  OneTurn

PROPERTIES
  ImplementsGame
  Termination
