SPECIFICATION Spec
CONSTANTS
  MetaSize = 1
  HeapLimit = 10
  Sizes = {1, 2}
  ForeignSizes = {}
  Policies = {"FF"}
INVARIANT SegmentSizeIsWhatWasSbrked
