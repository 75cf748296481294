CONSTANTS
  NSets = 2
  NLines = 2
  NTags = 3
  BlockSize = 2
  Words = {0, 1}
  ClientAdrs <- MCClientAdrs
  InitMems <- MCInitMems

SPECIFICATION Spec

INVARIANTS
  TypeOK
  UniqueLine
  NeverQuits

PROPERTIES
  ImplementsMemory
  MemoryChangesByWriteBack
  FlushMakesMemoryCurrent
