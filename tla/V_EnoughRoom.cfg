SPECIFICATION PolicySpec
CONSTANTS
  MetaSize = 8
  HeapLimit = 500
  Sizes = {4, 7, 8, 10, 16, 23, 32, 256}
  ForeignSizes = {}
  Policies = {"BF"}
  Programs = {"mymalloc_test"}
  NumItems = 1
  NumIters = 0
  Batch = 1
  Window = 1
  AllocSize = 4
  SmallRange = {4}
  LargeRange = {4}
  AnyRoom = 0
INVARIANT EnoughRoom
