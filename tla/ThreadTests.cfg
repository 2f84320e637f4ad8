SPECIFICATION TestSpec
CONSTANTS
  NoThread = none
  Threads = {0, 1, 2}
  Versions = {"lock", "nolock"}
  MetaSize = 1
  HeapLimit = 11
  FirstBreak = 2
  Sizes = {1, 2}
  NumCalls = 6
  Programs = {"any", "thread_test", "malloc_free", "change_thread", "measurement"}
  NumThreads = 2
  NumItems = 2
  FreeEvery = 1
  AnyCalls = 3
  IntMax = 6
  LibcBytes = 1
INVARIANTS TypeOK MutualExclusion BlocksDisjoint HeldIsIntact TestTypeOK VerdictIsRight FreesWhatIsHeld FreesAnothers NothingLeaks SegmentIsTheSum
PROPERTIES KeepsPromise LockProgramEnds
CHECK_DEADLOCK FALSE
