SPECIFICATION PolicySpec
CONSTANTS
  MetaSize = 1
  HeapLimit = 20
  Sizes = {1, 2, 4}
  ForeignSizes = {1}
  Policies = {"FF", "BF"}
  Programs = {"any", "equal_size", "small_range", "large_range"}
  NumItems = 4
  NumIters = 2
  Batch = 2
  Window = 1
  AllocSize = 1
  SmallRange = {1, 2}
  LargeRange = {1, 4}
  AnyRoom = 8
INVARIANTS FreeListSound BlocksDisjoint NoBlockLost Accounting FreesOnce EndsEmpty EqualNeverGrows
PROPERTIES SeamsOnlyAtTail GrowsOnlyWhenNothingFits
