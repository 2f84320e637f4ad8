SPECIFICATION TestSpec
CONSTANTS
  NoThread = none
  Threads = {0, 1, 2}
  Versions = {"nolock"}
  MetaSize = 1
  FirstBreak = 1
  HeapLimit = 9
  Sizes = {1, 2}
  NumCalls = 6
  Programs = {"thread_test", "malloc_free", "change_thread", "measurement"}
  NumThreads = 2
  NumItems = 2
  FreeEvery = 2
  AnyCalls = 0
  IntMax = 6
  LibcBytes = 0
PROPERTY ProgramEnds
CHECK_DEADLOCK FALSE
