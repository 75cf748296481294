SPECIFICATION FairSpec
CONSTANTS
  MaxProcs = 5
  MaxFd = 8
  MaxPipes = 3
  PipeSize = 1
  MAXARGS = 3
  MAXPIDS = 2
  MaxLines = 2
  Lines <- MCLines
  Programs <- MCPrograms
  Files = {"f"}
INVARIANTS TypeOK WriteEndHeldOnce OverrunByLastOnly
PROPERTIES ForegroundReaped HangsOnlySelfTied
CHECK_DEADLOCK FALSE
