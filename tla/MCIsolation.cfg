SPECIFICATION KernelSpec
CONSTANTS
  a = a
  b = b
  Dirs = {1, 2, 3}
  First = 1
  NumFrames = 8
  NumPages = 1
  PagesPerTable = 1
  Values = {a, b}
  MaxRefs = 3
CONSTRAINT TwoSharers
INVARIANT Isolation
CHECK_DEADLOCK FALSE
