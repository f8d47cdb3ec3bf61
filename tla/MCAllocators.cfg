SPECIFICATION AllocatorsSpec
CONSTANTS
  Units = 6
  MaxOrder = 2
  NULL = NULL
  small = small
  page = page
  large = large
  NoSlab = NoSlab
  Caches = {small, page, large}
  Sized = small
  Objs <- MCObjs
  Slabs = {s1, s2, s3}
SYMMETRY SlabSymmetry
INVARIANTS TypeOK ListsOK Tiling BuddyIsBlock NoFalseFailure
INVARIANTS SlabTypeOK SlabListsOK Classified Conserved
PROPERTIES GrowsOnlyWhenFull
