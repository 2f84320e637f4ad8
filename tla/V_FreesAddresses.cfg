SPECIFICATION TestSpec
CONSTANTS
  NoThread = none
  Threads = {0, 1, 2}
  Versions = {"lock"}
  MetaSize = 1
  FirstBreak = 1
  HeapLimit = 13
  Sizes = {1, 2}
  NumCalls = 6
  Programs = {"change_thread"}
  NumThreads = 2
  NumItems = 2
  FreeEvery = 2
  AnyCalls = 0
  IntMax = 6
  LibcBytes = 0
INVARIANT FreesAddresses
CHECK_DEADLOCK FALSE
