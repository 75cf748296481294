SPECIFICATION FairSpec
CONSTANTS
  c1 = c1
  c2 = c2
  Client = {c1, c2}
  Extra = {e1}
  UpSize = 2
  DownSize = 1
  Inputs <- MCInputs
  MaxOutput = 1
  MaxCommands = 1
  MaxChildren = 1
INVARIANT OutputLostWithInput
PROPERTIES BytesInOrder EndsOrBlocked
CHECK_DEADLOCK FALSE
