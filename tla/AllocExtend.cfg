\* As Alloc.cfg, but built by gcc -O0.
CONSTANTS
  MemWords = 18
  BrkIncr = 4
  Sizes = {0, 1, 4}
  Garbage = {"next"}

SPECIFICATION Spec

PROPERTY ReturnsCoalescedBlock
