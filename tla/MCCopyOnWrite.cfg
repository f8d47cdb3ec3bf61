SPECIFICATION Spec
CONSTANTS
  a = a
  b = b
  Dirs = {1, 2}
  First = 1
  NumFrames = 8
  NumPages = 2
  PagesPerTable = 1
  Values = {a, b}
  MaxRefs = 2
VIEW NoHistory
SYMMETRY ValueSymmetry
INVARIANTS TypeOK
PROPERTIES ForkSnapshot FaultKeepsContent
CHECK_DEADLOCK FALSE
