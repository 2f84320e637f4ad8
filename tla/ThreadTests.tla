----------------------------- MODULE ThreadTests -----------------------------
(***************************************************************************)
(* The programs of project2/thread_tests as clients of the allocator of    *)
(* TsMalloc, in its two builds.  main fills malloc_items, its threads      *)
(* malloc the items and free some of them, main joins them, looks for      *)
(* regions that overlap, and frees the rest.  The program "any" is the     *)
(* client of TsMalloc, whose threads call malloc and free as they like.    *)
(*                                                                         *)
(* The two barriers do not appear: no thread does anything another one     *)
(* sees before it has passed the first or after it has come to the second, *)
(* so they start together and main's joins wait for the slowest.  They do  *)
(* so when the last of them has been created, and what pthread_create took *)
(* from the data segment until then lies below FirstBreak.                 *)
(*                                                                         *)
(* my_malloc.h declares the two functions of the lock build only.  In the  *)
(* other build MALLOC is an undeclared function, whose result C takes for  *)
(* an int: the tests keep the low half of the pointer, its sign extended.  *)
(***************************************************************************)
EXTENDS TsMalloc, FiniteSetsExt

CONSTANTS
  Programs,    \* the programs to run
  NumThreads,  \* NUM_THREADS
  NumItems,    \* NUM_ITEMS
  FreeEvery,   \* the 10 (4 in the measurement) of "occasionally free some items"
  AnyCalls,    \* how many calls a thread of the program "any" makes
  IntMax,      \* the highest address an int holds: 0 if the heap is above 2^31
  LibcBytes    \* what the C library takes for the threads at pthread_create

Workers == 0 .. NumThreads - 1
Main    == NumThreads
Total   == NumThreads * NumItems
Items   == 0 .. Total - 1

ASSUME ThreadTestsAssumption ==
  /\ Programs \subseteq {"any", "thread_test", "malloc_free", "change_thread", "measurement"}
  /\ NumThreads \in Nat \ {0} /\ NumItems \in Nat \ {0} /\ FreeEvery \in Nat \ {0}
  /\ Threads = Workers \cup {Main}
  /\ AnyCalls \in 0 .. NumCalls
  /\ IntMax \in Nat
  /\ LibcBytes \in 0 .. FirstBreak - 1
  /\ NumCalls >= Total + NumItems  \* TsMalloc's bound stops no test
  /\ 1 \in Sizes                   \* the items nobody mallocs in the program "any"

VARIABLES
  program,       \* the program that runs
  freeFirst,     \* how it is compiled: the store to free precedes that to address
  malloc_items,  \* bytes, address (of the header) and free, by index
  i,             \* each thread's loop variable
  counter,       \* the item each thread frees next
  at,            \* where each thread is in the test; "free" also while it is in FREE
  got,           \* what a thread's malloc returned, until it is stored
  verdict        \* what main has printed

test    == <<program, freeFirst, malloc_items, i, counter, at, got, verdict>>
allVars == <<vars, test>>

-----------------------------------------------------------------------------
(***************************************************************************)
(* How the programs differ: the value of free main starts with; whether    *)
(* thread t frees in round n; the thread whose items it frees; whether it  *)
(* asks for the item's flag first; which items main frees at the end.      *)
(***************************************************************************)

thread_test ==
  [free     |-> 0,
   frees    |-> [t \in Workers |-> [n \in 0 .. NumItems |-> FALSE]],
   victim   |-> [t \in Workers |-> 0],
   claims   |-> FALSE,
   mainFrees |-> {0, 1}]

thread_test_malloc_free ==
  [free     |-> 0,
   frees    |-> [t \in Workers |-> [n \in 0 .. NumItems |-> n % FreeEvery = 0]],
   victim   |-> [t \in Workers |-> t],
   claims   |-> FALSE,
   mainFrees |-> {0}]

thread_test_malloc_free_change_thread ==
  [free     |-> 1,
   frees    |-> [t \in Workers |-> [n \in 0 .. NumItems |-> n % FreeEvery = 0]],
   victim   |-> [t \in Workers |-> (t + 1) % NumThreads],
   claims   |-> TRUE,
   mainFrees |-> {0}]

\* Deviation: an even thread frees its own items.
thread_test_measurementOwn ==
  [free     |-> 1,
   frees    |-> [t \in Workers |-> [n \in 0 .. NumItems |-> t % 2 = 0 /\ n % FreeEvery = 0]],
   victim   |-> [t \in Workers |-> t],
   claims   |-> TRUE,
   mainFrees |-> {}]

\* Only the threads with an even id free, and main's last loop is commented out.
thread_test_measurement ==
  [free     |-> 1,
   frees    |-> [t \in Workers |-> [n \in 0 .. NumItems |-> t % 2 = 0 /\ n % FreeEvery = 0]],
   victim   |-> [t \in Workers |-> (t + 1) % NumThreads],
   claims   |-> TRUE,
   mainFrees |-> {}]

Does ==
  CASE program = "thread_test" -> thread_test
    [] program = "malloc_free" -> thread_test_malloc_free
    [] program = "change_thread" -> thread_test_malloc_free_change_thread
    [] program = "measurement" -> thread_test_measurement

-----------------------------------------------------------------------------
(***************************************************************************)
(* The threads                                                             *)
(***************************************************************************)

index(t) == t * NumItems + i[t]

\* The item thread t is about to free.
target(t) == IF t = Main THEN i[t] ELSE counter[t]

\* Deviation: main's loop leaves out the last item.
nextRoundShort(t) ==
  LET more == i[t] + 1 < IF t = Main THEN Total - 1 ELSE NumItems
  IN  /\ i' = [i EXCEPT ![t] = @ + 1]
      /\ at' = [at EXCEPT ![t] = IF ~more THEN "end"
                                 ELSE IF t = Main THEN "free" ELSE "malloc"]

\* Deviation: one round too many.
nextRoundPast(t) ==
  LET more == i[t] < IF t = Main THEN Total ELSE NumItems
  IN  /\ i' = [i EXCEPT ![t] = @ + 1]
      /\ at' = [at EXCEPT ![t] = IF ~more THEN "end"
                                 ELSE IF t = Main THEN "free" ELSE "malloc"]

\* The next round of a loop, of a worker or of main at the end.
nextRound(t) ==
  LET more == i[t] + 1 < IF t = Main THEN Total ELSE NumItems
  IN  /\ i' = [i EXCEPT ![t] = @ + 1]
      /\ at' = [at EXCEPT ![t] = IF ~more THEN "end"
                                 ELSE IF t = Main THEN "free" ELSE "malloc"]

callMalloc(t) ==
  /\ at[t] = "malloc"
  /\ LET bytes == malloc_items.bytes[index(t)]
     IN  ts_malloc_lock(t, bytes) \/ ts_malloc_nolock(t, bytes)
  /\ UNCHANGED test

\* The client's pointer to block b comes through the call of MALLOC as it is.
Survives(b) == version = "lock" \/ b + MetaSize <= IntMax

\* (int *)MALLOC(..) for block b.  A pointer that loses its upper half is off by a
\* multiple of 2^32: two of them keep their distance, and none is an address of the
\* heap.  The numbers below NULL stand for them.
asStored(b) == IF b = NULL \/ Survives(b) THEN b ELSE b - HeapLimit - 1

\* malloc returns, and the first of the two stores is done ...
mallocReturns(t) ==
  /\ at[t] = "malloc"
  /\ returnMalloc(t)
  /\ got' = [got EXCEPT ![t] = asStored(ptr[t])]
  /\ malloc_items' = IF freeFirst
                     THEN [malloc_items EXCEPT !.free[index(t)] = 0]
                     ELSE [malloc_items EXCEPT !.address[index(t)] = asStored(ptr[t])]
  /\ at' = [at EXCEPT ![t] = "store"]
  /\ UNCHANGED <<program, freeFirst, i, counter, verdict>>

\* ... and then the second, outside my_mutex as well.
store(t) ==
  /\ at[t] = "store"
  /\ malloc_items' = IF freeFirst
                     THEN [malloc_items EXCEPT !.address[index(t)] = got[t]]
                     ELSE [malloc_items EXCEPT !.free[index(t)] = 0]
  /\ got' = [got EXCEPT ![t] = NULL]
  /\ IF Does.frees[t][i[t]]
     THEN /\ at' = [at EXCEPT ![t] = IF Does.claims THEN "claim" ELSE "free"]
          /\ UNCHANGED i
     ELSE nextRound(t)
  /\ UNCHANGED <<vars, program, freeFirst, counter, verdict>>

\* Deviation: the flag is not set.
claimUnmarked(t) ==
  /\ at[t] = "claim"
  /\ IF malloc_items.free[counter[t]] = 0
     THEN at' = [at EXCEPT ![t] = "free"] /\ UNCHANGED i
     ELSE nextRound(t)
  /\ UNCHANGED <<vars, program, freeFirst, malloc_items, counter, got, verdict>>

\* The block under my_mutex: an item that is not free yet is marked free.
claim(t) ==
  /\ at[t] = "claim"
  /\ IF malloc_items.free[counter[t]] = 0
     THEN /\ malloc_items' = [malloc_items EXCEPT !.free[counter[t]] = 1]
          /\ at' = [at EXCEPT ![t] = "free"]
          /\ UNCHANGED i
     ELSE nextRound(t) /\ UNCHANGED malloc_items
  /\ UNCHANGED <<vars, program, freeFirst, counter, got, verdict>>

\* FREE has returned: a worker goes on to its next item, and marks this one only
\* now if it did not ask.
freed(t) ==
  /\ counter' = IF t = Main THEN counter ELSE [counter EXCEPT ![t] = @ + 1]
  /\ malloc_items' = IF t = Main \/ Does.claims THEN malloc_items
                     ELSE [malloc_items EXCEPT !.free[counter[t]] = 1]
  /\ nextRound(t)
  /\ UNCHANGED <<program, freeFirst, got, verdict>>

\* Thread t is at a call of FREE.
freesNext(t) ==
  /\ at[t] = "free"
  /\ t = Main => malloc_items.free[i[t]] \in Does.mainFrees

\* FREE is called with what was stored.  In the no-lock build nobody looks at the
\* pointer: one that is no block's gives nothing back, like NULL.
callFree(t) ==
  /\ freesNext(t)
  /\ LET address == malloc_items.address[target(t)]
     IN  \/ ts_free_lock(t, address) /\ UNCHANGED test
         \/ ts_free_nolock(t, IF address \in Ptr THEN address ELSE NULL) /\ freed(t)

freeReturns(t) == at[t] = "free" /\ releaseFree(t) /\ freed(t)

-----------------------------------------------------------------------------
(***************************************************************************)
(* main                                                                    *)
(***************************************************************************)

\* start <= tgt_end is allowed to be an equality.  A region at NULL is far from the
\* heap, and from what an int makes of its addresses, and overlaps only another one
\* at NULL.
overlap(j, k) ==
  LET start(n) == malloc_items.address[n] + MetaSize
      end(n)   == start(n) + malloc_items.bytes[n]
  IN  IF NULL \in {malloc_items.address[j], malloc_items.address[k]}
      THEN malloc_items.address[j] = malloc_items.address[k]
      ELSE start(j) \in start(k) .. end(k) \/ end(j) \in start(k) .. end(k)

\* The joins, and the search for two regions that overlap.
join ==
  LET live == {k \in Items : malloc_items.free[k] # 1}
      fail == \E j, k \in live : j # k /\ overlap(j, k)
  IN  /\ at[Main] = "join"
      /\ \A t \in Workers : at[t] = "end"
      /\ verdict' = IF fail THEN "Test failed" ELSE "Test passed"
      /\ at' = [at EXCEPT ![Main] = "free"]
      /\ UNCHANGED <<vars, program, freeFirst, malloc_items, i, counter, got>>

\* main's last loop passes over an item.
passOver ==
  /\ at[Main] = "free" /\ ~freesNext(Main)
  /\ nextRound(Main)
  /\ UNCHANGED <<vars, program, freeFirst, malloc_items, counter, got, verdict>>

-----------------------------------------------------------------------------
\* The threads have been created and are past the first barrier.
TestInit ==
  /\ Init
  /\ program \in Programs
  /\ freeFirst \in IF program = "any" THEN {FALSE} ELSE BOOLEAN
  /\ malloc_items \in
       [bytes   : [Items -> IF program = "any" THEN {1} ELSE Sizes],
        address : {[k \in Items |-> NULL]},
        free    : {[k \in Items |-> IF program = "any" THEN 0 ELSE Does.free]}]
  /\ i = [t \in Threads |-> 0]
  /\ counter = [t \in Workers |-> IF program = "any" THEN 0 ELSE Does.victim[t] * NumItems]
  /\ at = [t \in Threads |-> IF t = Main THEN "join" ELSE "malloc"]
  /\ got = [t \in Threads |-> NULL]
  /\ verdict = "none"

\* A thread of the program "any" ...
AnyStep(t) ==
  /\ program = "any"
  /\ \/ Enter(t) /\ calls[t] > NumCalls - AnyCalls
     \/ Inner(t) \/ Return(t)
  /\ UNCHANGED test

\* ... and a thread of a test program.
WorkerStep(t) ==
  /\ program # "any"
  /\ \/ callMalloc(t) \/ mallocReturns(t) \/ store(t)
     \/ claim(t) \/ callFree(t) \/ freeReturns(t)
     \/ Inner(t) /\ UNCHANGED test

MainStep ==
  /\ program # "any"
  /\ \/ join \/ passOver \/ callFree(Main) \/ freeReturns(Main)
     \/ Inner(Main) /\ UNCHANGED test

\* Between its calls a test calls nothing that sets errno.
TestNext ==
  \/ \E t \in Workers : AnyStep(t) \/ WorkerStep(t)
  \/ MainStep
  \/ program = "any" /\ UNCHANGED test /\ \E t \in Workers : LibcErrno(t)

\* Every thread runs.
TestSpec == /\ TestInit /\ [][TestNext]_allVars
            /\ WF_allVars(MainStep)
            /\ \A t \in Workers : WF_allVars(AnyStep(t) \/ WorkerStep(t))

-----------------------------------------------------------------------------
(***************************************************************************)
(* Properties                                                              *)
(***************************************************************************)

\* What a test has for a pointer.
Pointer == Ptr \cup -HeapLimit .. -1

\* Every variable of a test has its type.
TestTypeOK ==
  /\ program \in Programs
  /\ freeFirst \in BOOLEAN
  /\ malloc_items \in [bytes : [Items -> Sizes], address : [Items -> Pointer],
                       free : [Items -> {0, 1}]]
  /\ i \in [Threads -> 0 .. Total]
  /\ \A t \in Workers : i[t] <= NumItems - (IF at[t] = "end" THEN 0 ELSE 1)
  /\ counter \in [Workers -> 0 .. Total]
  /\ at \in [Threads -> {"malloc", "store", "claim", "free", "join", "end"}]
  /\ got \in [Threads -> Pointer]
  /\ verdict \in {"none", "Test passed", "Test failed"}

Failed == {k \in Items : malloc_items.free[k] = 0 /\ malloc_items.address[k] = NULL}

\* README.txt: the test fails if any regions overlap, and passes otherwise.  Two
\* regions next to each other raise no alarm, though the test compares their ends
\* with <=, because a header lies between them.  It fails exactly when two items are
\* NULL, as they are when the heap is full.
VerdictIsRight ==
  verdict # "none" => (verdict = "Test failed" <=> Cardinality(Failed) >= 2)

\* What a thread is about to pass to FREE is NULL or what the client has for a block
\* still allocated: no item is freed twice, by two workers or by a worker and main,
\* and none before its malloc has returned.  In the no-lock build a pointer may have
\* lost its upper half: it is not the block then, nor another one.
FreesWhatIsHeld ==
  program # "any" =>
    \A t \in Threads : (pc[t] = "idle" /\ freesNext(t)) =>
      LET address == malloc_items.address[target(t)]
      IN  \/ address = NULL
          \/ /\ \E b \in Addr : asked[b] # 0 /\ address = asStored(b)
             /\ address \in Addr => asked[address] # 0

\* "each thread will free addresses that were malloc'ed by another thread", or NULL.
FreesAnothers ==
  program \in {"change_thread", "measurement"} =>
    \A t \in Workers : at[t] = "free" =>
      \A k \in Items : k \div NumItems = t =>
        malloc_items.address[k] = NULL
          \/ malloc_items.address[k] # malloc_items.address[counter[t]]

\* When main returns, every region has been freed; but for the measurement, which
\* frees none at the end, and a build that stores free first: there an item may be
\* marked free while its address is not known, and nobody ever frees it.  Nor can a
\* program free a region whose pointer did not come through the call of MALLOC.
NothingLeaks ==
  /\ at[Main] = "end"
  /\ \/ program \in {"thread_test", "malloc_free"}
     \/ program = "change_thread" /\ ~freeFirst
  => \A b \in Addr : Survives(b) => asked[b] = 0

\* main's first sbrk(0), before it creates the threads.
start_segment_addr == FirstBreak - LibcBytes

\* What the measurement reports as the data segment size is the sum of all it ever
\* asked for, headers included, and of what the C library took for the threads: the
\* frees of any thread, at any moment, save nothing, and no two threads get the same
\* memory.
SegmentIsTheSum ==
  verdict # "none" /\ (\A k \in Items : malloc_items.address[k] # NULL)
  => brk - start_segment_addr =
       LibcBytes + MapThenSumSet(LAMBDA k : MetaSize + malloc_items.bytes[k], Items)

\* README.txt: each thread "loops and mallocs / frees memory regions of random sizes,
\* and then exits", so that main's joins come through and the program ends.
ProgramEnds ==
  <>(IF program = "any" THEN \A t \in Workers : pc[t] = "idle" /\ calls[t] = NumCalls - AnyCalls
     ELSE at[Main] = "end")

\* In the lock build it does, though sbrk may fail at any call.
LockProgramEnds == version = "lock" => ProgramEnds

\* "each thread will free addresses that were malloc'ed by another thread": what it
\* frees is such an address.
FreesAddresses ==
  program \in {"change_thread", "measurement"} =>
    \A t \in Workers : at[t] = "free" => malloc_items.address[counter[t]] # NULL

=============================================================================
