\* Four philosophers, two meals each (three and a hundred in the code).
CONSTANTS
  N = 4
  Rounds = 2

SPECIFICATION FairSpec

INVARIANTS
  TypeOK
  NoSharedStick
  StickAccounted
  NoCircularWait
  NoUseAfterDestroy

PROPERTY Termination
