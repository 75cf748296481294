SPECIFICATION Spec
CONSTANTS
  Digits <- MCDigits
  MaxLength = 9
  Word = 64
  Half = 32
  Nodes = 3
  MaxWord = 4
  Letters = {a, b}
  Width = 6
  MaxDepth = 8
  Kid = {1, 2}
  Dir = {".", "d1", "d2"}
  Name = {"cmd"}
  PathValues <- MCPathValues
  BaseLines <- MCBaseLines
  MaxBaseLines = 2
  MAXARGS = 4
INVARIANTS ExprComputed RingsWellLinked Reversed PrintsBinary SearchAndWait
CHECK_DEADLOCK FALSE
