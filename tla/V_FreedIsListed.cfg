SPECIFICATION Spec
CONSTANTS
  t1 = t1
  t2 = t2
  NoThread = none
  Threads = {t1, t2}
  Versions = {"lock"}
  MetaSize = 1
  HeapLimit = 8
  FirstBreak = 1
  Sizes = {1, 2}
  NumCalls = 3
INVARIANT FreedIsListed
CHECK_DEADLOCK FALSE
