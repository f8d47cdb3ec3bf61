SPECIFICATION Spec
CONSTANTS
  Pieces = {p1, p2, p3, p4, p5}
  Start = 1
  MinSize = 1
  MaxSize = 7
  Alignment = 2
  Sizes = {0, 1}
  Alignments = {1, 3}
  MaxHeld = 3
SYMMETRY PieceSymmetry
CONSTRAINT Bounded
INVARIANTS Exclusive MemoryAccounted CapacitySound GrowthServes
