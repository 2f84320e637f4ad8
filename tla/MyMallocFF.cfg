SPECIFICATION FairSpec
CONSTANTS
  MetaSize = 1
  HeapLimit = 9
  Sizes = {1, 2, 3}
  ForeignSizes = {1}
  Policies = {"FF"}
INVARIANTS TypeOK FreeListSound BlocksDisjoint NoBlockLost EnoughRoom Accounting
PROPERTIES SeamsOnlyAtTail FirstFitChoice GrowsOnlyWhenNothingFits KeepsPromise CallReturns
