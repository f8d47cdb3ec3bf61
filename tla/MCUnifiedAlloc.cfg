SPECIFICATION Spec
CONSTANTS
  size_cache = size_cache
  own_cache = own_cache
  Blocks = {1, 2, 3, 4, 5, 6, 7}
  PageHeader = 1
  PageRoom = 6
  SlobHeader = 1
  SlobAlign = 1
  SlobMin = 1
  SlobMax = 4
  SizeCaches <- SizeCacheList
  OwnCaches = {own_cache}
  ObjSize <- SizeOf
  ObjsPerPage <- PerPage
  Batch = 2
  Sizes = {1, 3}
  SmallLimit = 3
  MediumLimit = 8
  SlabObjs = 2
  StackRoom = 1
  StackFrames = 2
  TableSize = 2
  Masks <- NoPolicy
  MaxLive = 3
  MaxLoad = 4
  MaxLost = 1
INVARIANTS HeapExclusive SlobSound SlubSound
CONSTRAINT Bounded
CHECK_DEADLOCK FALSE
