\* Two processes, two pages each in use, two frames to hold them.
CONSTANTS
  MaxProcess = 2
  NPages = 4
  NFrames = 6
  PageWords = 2
  LxSets = 2
  LxLines = 1
  LxBlock = 2
  TLBLines = 1
  Data = {0, 1}
  ClientPages = {0, 1}
  ClientOffsets = {0}

SPECIFICATION Spec

INVARIANTS
  TypeOK
  RmapInvertsPageTables
  TLBCoherent

PROPERTIES
  ImplementsAddressSpaces
