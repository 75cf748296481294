\* A memory of 18 words that grows by 4 or 6 at a time, as built by gcc -Os.
CONSTANTS
  MemWords = 18
  BrkIncr = 4
  Sizes = {0, 1, 4}
  Garbage = {"coalesced"}

SPECIFICATION Spec

INVARIANTS
  BoundaryTagsAgree
  NoAdjacentFree

PROPERTIES
  PayloadUntouched
  ImplementsAllocator
