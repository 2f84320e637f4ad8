--------------------------- MODULE ThreadTestsProofs ---------------------------
(***************************************************************************)
(* The programs of project2/thread_tests, for any number of threads and    *)
(* items: they are clients the allocator of TsMalloc is specified for,     *)
(* they free what is held and what is another thread's, leave nothing      *)
(* behind, print what is true, take the memory they ask for, and can hang  *)
(* on nothing but a mutex that a failed sbrk has left locked.              *)
(***************************************************************************)
EXTENDS ThreadTests, TsMallocProofs, SumProofs

\* The first item of thread t.
First(t) == t * NumItems

\* The threads' items lie side by side and make up all there are.
LEMMA Layout ==
  /\ NumItems \in Nat \ {0} /\ Total \in Nat /\ NumItems <= Total
  /\ \A t \in Workers : First(t) \in Nat /\ First(t) + NumItems <= Total
  /\ \A t, u \in Workers :
       t # u => First(t) + NumItems <= First(u) \/ First(u) + NumItems <= First(t)
  /\ \A k \in Items : \E t \in Workers : First(t) <= k /\ k < First(t) + NumItems
<1> DEFINE N == NumItems
<1> USE ThreadTestsAssumption
<1>1. ASSUME NEW a \in Nat, NEW b \in Nat, a < b PROVE a * N + N <= b * N
  <2>1. PICK d \in Nat : b = a + 1 + d
    <3>1. b - a - 1 \in Nat /\ b = a + 1 + (b - a - 1)
      BY <1>1
    <3> QED
      BY <3>1
  <2>2. b * N = a * N + N + d * N
    BY <2>1
  <2>3. d * N \in Nat /\ a * N \in Nat
    OBVIOUS
  <2> QED
    BY <2>2, <2>3
<1>2. \A a \in Nat : a * N \in Nat
  OBVIOUS
<1>3. ASSUME NEW k \in Items PROVE \E t \in Workers : First(t) <= k /\ k < First(t) + N
  <2> DEFINE t == k \div N
  <2>1. k \in Nat /\ k < NumThreads * N
    BY DEF Items, Total
  <2>2. t \in Nat /\ t * N <= k /\ k < t * N + N
    BY <2>1
  <2>3. t < NumThreads
    <3>1. ASSUME NumThreads <= t PROVE FALSE
      <4> HIDE DEF t
      <4>1. CASE NumThreads = t
        BY <2>1, <2>2, <4>1
      <4>2. CASE NumThreads < t
        <5>1. NumThreads * N + N <= t * N /\ t * N \in Nat /\ NumThreads * N \in Nat
          BY <1>1, <1>2, <2>2, <4>2
        <5> QED
          BY <2>1, <2>2, <5>1
      <4> QED
        BY <2>2, <3>1, <4>1, <4>2
    <3> QED
      BY <3>1, <2>2
  <2>4. t \in Workers
    BY <2>2, <2>3 DEF Workers
  <2> QED
    BY <2>2, <2>4 DEF First
<1>4. \A t \in Workers : t \in Nat /\ t < NumThreads
  BY DEF Workers
<1>5. \A t \in Workers : First(t) \in Nat /\ First(t) + N <= Total
  BY <1>1, <1>2, <1>4 DEF First, Total
<1>6. ASSUME NEW t \in Workers, NEW u \in Workers, t # u
      PROVE  First(t) + N <= First(u) \/ First(u) + N <= First(t)
  <2>1. t < u \/ u < t
    BY <1>4, <1>6
  <2> QED
    BY <1>1, <1>4, <2>1 DEF First
<1>7. Total \in Nat /\ NumItems <= Total
  <2>1. 0 * N + N <= NumThreads * N
    BY <1>1
  <2> QED
    BY <2>1 DEF Total
<1> QED
  BY <1>3, <1>5, <1>6, <1>7

\* The programs that ask for an item's flag before they free it.
Asks == program \in {"change_thread", "measurement"}

\* What the programs have in common.
LEMMA AllPrograms ==
  ASSUME program \in Programs, program # "any"
  PROVE  /\ program \in {"thread_test", "malloc_free", "change_thread", "measurement"}
         /\ Does.free \in {0, 1}
         /\ Does.victim \in [Workers -> Workers]
         /\ Does.mainFrees \subseteq {0, 1}
         /\ Does.claims <=> Asks
         /\ \A t \in Workers, n \in 0 .. NumItems :
              program = "thread_test" => Does.frees[t][n] = FALSE
<1> USE ThreadTestsAssumption
<1>1. program \in {"thread_test", "malloc_free", "change_thread", "measurement"}
  OBVIOUS
<1>2. \A t \in Workers : (t + 1) % NumThreads \in Workers /\ 0 \in Workers
  BY DEF Workers
<1>3. CASE program = "thread_test"
  <2>1. Does = thread_test
    BY <1>3 DEF Does
  <2>2. /\ Does.free \in {0, 1}
        /\ Does.victim \in [Workers -> Workers]
        /\ Does.mainFrees \subseteq {0, 1}
    BY <1>2, <2>1 DEF thread_test
  <2>3. Does.claims <=> Asks
    BY <1>3, <2>1 DEF thread_test, Asks
  <2>4. \A t \in Workers, n \in 0 .. NumItems : Does.frees[t][n] = FALSE
    BY <2>1 DEF thread_test
  <2> QED
    BY <1>1, <1>3, <2>2, <2>3, <2>4
<1>4. CASE program = "malloc_free"
  <2>1. Does = thread_test_malloc_free
    BY <1>4 DEF Does
  <2>2. /\ Does.free \in {0, 1}
        /\ Does.victim \in [Workers -> Workers]
        /\ Does.mainFrees \subseteq {0, 1}
    BY <1>2, <2>1 DEF thread_test_malloc_free
  <2>3. Does.claims <=> Asks
    BY <1>4, <2>1 DEF thread_test_malloc_free, Asks
  <2> QED
    BY <1>1, <1>4, <2>2, <2>3
<1>5. CASE program = "change_thread"
  <2>1. Does = thread_test_malloc_free_change_thread
    BY <1>5 DEF Does
  <2>2. /\ Does.free \in {0, 1}
        /\ Does.victim \in [Workers -> Workers]
        /\ Does.mainFrees \subseteq {0, 1}
    BY <1>2, <2>1 DEF thread_test_malloc_free_change_thread
  <2>3. Does.claims <=> Asks
    BY <1>5, <2>1 DEF thread_test_malloc_free_change_thread, Asks
  <2> QED
    BY <1>1, <1>5, <2>2, <2>3
<1>6. CASE program = "measurement"
  <2>1. Does = thread_test_measurement
    BY <1>6 DEF Does
  <2>2. /\ Does.free \in {0, 1}
        /\ Does.victim \in [Workers -> Workers]
        /\ Does.mainFrees \subseteq {0, 1}
    BY <1>2, <2>1 DEF thread_test_measurement
  <2>3. Does.claims <=> Asks
    BY <1>6, <2>1 DEF thread_test_measurement, Asks
  <2> QED
    BY <1>1, <1>6, <2>2, <2>3
<1> QED
  BY <1>1, <1>3, <1>4, <1>5, <1>6

\* Two threads that free do so along the items of different threads; in the programs
\* that ask, not along their own.
LEMMA Victims ==
  ASSUME program \in Programs, program \notin {"any", "thread_test"}
  PROVE  /\ \A t, u \in Workers : t # u => Does.victim[t] # Does.victim[u]
         /\ Asks /\ NumThreads > 1 => \A t \in Workers : Does.victim[t] # t
         /\ ~Asks => \A t \in Workers : Does.victim[t] = t
<1> USE ThreadTestsAssumption
<1> DEFINE rotated(t) == IF t + 1 = NumThreads THEN 0 ELSE t + 1
<1>1. \A t \in Workers : (t + 1) % NumThreads = rotated(t)
  BY DEF Workers
<1>2. CASE program = "malloc_free"
  <2>1. Does = thread_test_malloc_free
    BY <1>2 DEF Does
  <2> QED
    BY <1>2, <2>1 DEF thread_test_malloc_free, Asks
<1>3. CASE Asks
  <2>1. Does.victim = [t \in Workers |-> (t + 1) % NumThreads]
    BY <1>3 DEF Asks, Does, thread_test_malloc_free_change_thread, thread_test_measurement
  <2>2. \A t \in Workers : Does.victim[t] = rotated(t)
    BY <1>1, <2>1
  <2> QED
    BY <1>3, <2>2 DEF Workers
<1> QED
  BY <1>2, <1>3 DEF Asks

-----------------------------------------------------------------------------
(***************************************************************************)
(* A step inside a call                                                    *)
(***************************************************************************)

FreePCs == {"free_lock", "free_body", "free_unlock"}

\* What a step inside a call leaves alone, and where it lets a block appear: a block on
\* its way to the client was so before, or is at an address where no block was.
Within(t) ==
  /\ UNCHANGED <<version, req, asked>>
  /\ \A u \in Threads \ {t} : pc'[u] = pc[u]
  /\ \/ pc[t] \in MallocPCs /\ pc'[t] \in MallocPCs
     \/ pc[t] \in FreePCs /\ pc'[t] \in FreePCs
  /\ mem.blocks \subseteq mem'.blocks
  /\ \A b \in mem.blocks : mem'.dataSize[b] = mem.dataSize[b]
  /\ \A u \in Threads : HasNew(u)' =>
       (HasNew(u) /\ ptr'[u] = ptr[u]) \/ ptr'[u] \notin mem.blocks

LEMMA InnerStep ==
  ASSUME MInv, NEW t \in Threads, Inner(t)
  PROVE  Within(t)
<1>1. /\ TypeOK /\ ListsEmpty /\ pc \in [Threads -> PCs] /\ ptr \in [Threads -> Ptr]
      /\ mem \in Memory
  BY DEF MInv, LInv, TypeOK
<1> USE DEF MallocPCs, FreePCs
<1>2. CASE acquire(t)
  <2>1. PICK from_to \in {<<"malloc_lock", "search">>, <<"sbrk_lock", "sbrk_read">>,
                          <<"free_lock", "free_body">>} :
          pc[t] = from_to[1] /\ pc' = [pc EXCEPT ![t] = from_to[2]]
    BY <1>2 DEF acquire, Goto
  <2>2. UNCHANGED <<version, mem, req, ptr, asked>>
    BY <1>2 DEF acquire, client
  <2> QED
    BY <1>1, <2>1, <2>2 DEF Within, HasNew
<1>3. CASE bf_malloc(t)
  <2>1. findBestFit(mem, head, req[t]) = NULL
    BY <1>1, NothingFits DEF ListsEmpty
  <2>2. /\ pc[t] = "search" /\ pc' = [pc EXCEPT ![t] = "sbrk_read"]
        /\ ptr' = [ptr EXCEPT ![t] = NULL]
        /\ UNCHANGED <<version, mem, req, asked>>
    BY <1>3, <2>1 DEF bf_malloc, Goto, client
  <2> QED
    BY <1>1, <2>2 DEF Within, HasNew
<1>4. CASE sbrkRead(t)
  <2>1. /\ pc[t] = "sbrk_read" /\ pc' = [pc EXCEPT ![t] = "sbrk_set"]
        /\ ptr' = [ptr EXCEPT ![t] = brk]
        /\ UNCHANGED <<version, mem, req, asked>>
    BY <1>4 DEF sbrkRead, Goto, client
  <2> QED
    BY <1>1, <2>1 DEF Within, HasNew
<1>5. CASE sbrkSet(t)
  <2>1. PICK to \in {"allocate", "sbrk_unlock"} : pc' = [pc EXCEPT ![t] = to]
    BY <1>5 DEF sbrkSet, Goto
  <2>2. /\ pc[t] = "sbrk_set"
        /\ ptr' = ptr \/ ptr' = [ptr EXCEPT ![t] = NULL]
        /\ UNCHANGED <<version, mem, req, asked>>
    BY <1>5 DEF sbrkSet, client
  <2> QED
    BY <1>1, <2>1, <2>2 DEF Within, HasNew
<1>6. CASE sbrk_nolock(t)
  <2>1. /\ pc[t] = "sbrk_unlock" /\ pc' = [pc EXCEPT ![t] = "allocate"]
        /\ ptr' = ptr \/ ptr' = [ptr EXCEPT ![t] = NULL]
        /\ UNCHANGED <<version, mem, req, asked>>
    BY <1>6 DEF sbrk_nolock, Goto, client
  <2> QED
    BY <1>1, <2>1 DEF Within, HasNew
<1>7. CASE allocateMemory(t)
  <2>1. PICK to \in {"malloc_unlock", "return"} : pc' = [pc EXCEPT ![t] = to]
    BY <1>7 DEF allocateMemory, Goto
  <2>2. pc[t] = "allocate" /\ UNCHANGED <<version, req, asked>>
    BY <1>7 DEF allocateMemory, client
  <2>3. CASE ptr[t] = NULL \/ errno[t] = "ENOMEM"
    <3>1. ptr' = [ptr EXCEPT ![t] = NULL] /\ mem' = mem
      BY <1>7, <2>3 DEF allocateMemory
    <3> QED
      BY <1>1, <2>1, <2>2, <3>1 DEF Within, HasNew
  <2>4. CASE ~(ptr[t] = NULL \/ errno[t] = "ENOMEM")
    <3>1. ptr' = ptr /\ mem' = initializeMemoryBlock(mem, ptr[t], req[t], TRUE)
      BY <1>7, <2>4 DEF allocateMemory
    <3>2. ptr[t] \in Addr /\ req[t] \in Nat
      BY <1>1, <2>4, Numbers DEF TypeOK, Ptr
    <3>3. /\ mem'.blocks = mem.blocks \cup {ptr[t]}
          /\ \A c \in Addr \ {ptr[t]} : mem'.dataSize[c] = mem.dataSize[c]
      BY <1>1, <3>1, <3>2, Written
    <3>4. ptr[t] \notin mem.blocks
      <4>1. SUFFICES ASSUME ptr[t] \in mem.blocks PROVE FALSE
        OBVIOUS
      <4>2. Claims(t)
        BY <2>2, <2>4 DEF Claims
      <4>3. EndOf(mem, ptr[t]) <= ptr[t] \/ EndOfClaim(t) <= ptr[t]
        BY <4>1, <4>2 DEF MInv, ClaimsApart
      <4>4. mem.dataSize[ptr[t]] \in Nat
        BY <1>1, <3>2 DEF Memory
      <4> QED
        BY <1>1, <3>2, <4>3, <4>4, Numbers DEF EndOf, EndOfClaim
    <3>5. mem.blocks \subseteq Addr
      BY <1>1 DEF Memory
    <3> QED
      BY <1>1, <2>1, <2>2, <3>1, <3>3, <3>4, <3>5 DEF Within, HasNew
  <2> QED
    BY <2>3, <2>4
<1>8. CASE releaseMalloc(t)
  <2>1. /\ pc[t] = "malloc_unlock" /\ pc' = [pc EXCEPT ![t] = "return"]
        /\ UNCHANGED <<version, mem, req, ptr, asked>>
    BY <1>8 DEF releaseMalloc, Goto, client
  <2> QED
    BY <1>1, <2>1 DEF Within, HasNew
<1>9. CASE bf_free(t)
  <2>1. /\ pc[t] = "free_body" /\ pc' = [pc EXCEPT ![t] = "free_unlock"]
        /\ UNCHANGED <<version, req, ptr, asked>>
    BY <1>9 DEF bf_free, Goto, client
  <2>2. mem' = mem \/ (ptr[t] \in Addr /\ mem' = [mem EXCEPT !.allocated[ptr[t]] = FALSE])
    BY <1>1, <1>9, OnlyMarked DEF bf_free, ListsEmpty, Ptr
  <2>3. mem'.blocks = mem.blocks /\ mem'.dataSize = mem.dataSize
    BY <1>1, <2>2 DEF Memory
  <2> QED
    BY <1>1, <2>1, <2>3 DEF Within, HasNew
<1> QED
  BY <1>2, <1>3, <1>4, <1>5, <1>6, <1>7, <1>8, <1>9 DEF Inner

-----------------------------------------------------------------------------
(***************************************************************************)
(* Types, and where each thread is                                         *)
(***************************************************************************)

Store == [bytes : [Items -> Sizes], address : [Items -> Pointer], free : [Items -> {0, 1}]]

\* Where a worker is in its loop; what it has freed is what it has gone past.
WorkerAt(t) ==
  /\ at[t] \in {"malloc", "store", "claim", "free", "end"}
  /\ at[t] \in {"claim", "free"} => program # "thread_test"
  /\ at[t] = "claim" => Asks
  /\ at[t] = "end" => i[t] = NumItems
  /\ IF program = "thread_test" THEN counter[t] = 0
     ELSE counter[t] \in First(Does.victim[t]) .. First(Does.victim[t]) + i[t]

MainAt ==
  /\ at[Main] \in {"join", "free", "end"}
  /\ at[Main] = "join" => i[Main] = 0
  /\ at[Main] = "free" => i[Main] < Total
  /\ at[Main] = "end" => i[Main] = Total
  /\ at[Main] # "join" => \A t \in Workers : at[t] = "end"

\* A thread inside a call is at that call.
CallAt(t) ==
  /\ pc[t] \in MallocPCs => at[t] = "malloc" /\ req[t] = malloc_items.bytes[index(t)]
  /\ pc[t] \in FreePCs => freesNext(t)

TInv ==
  /\ TestTypeOK
  /\ program # "any" => MainAt /\ \A t \in Threads : CallAt(t) /\ (t \in Workers => WorkerAt(t))

\* What the tests make of a block's address: itself, or no address at all.
LEMMA StoredAs ==
  ASSUME NEW b \in Ptr
  PROVE  /\ asStored(b) \in Pointer
         /\ Survives(b) => asStored(b) = b
         /\ asStored(b) \in Ptr => asStored(b) = b
         /\ asStored(b) = NULL <=> b = NULL
         /\ asStored(b) \notin Ptr => version # "lock" /\ ~Survives(b)
         /\ \A c \in Ptr : asStored(b) = asStored(c) => b = c
<1>1. HeapLimit \in Nat /\ MetaSize \in Nat
  BY TsMallocAssumption
<1>2. Ptr = 0 .. HeapLimit /\ NULL = 0
  BY <1>1 DEF Ptr, Addr, NULL
<1>3. ASSUME NEW c \in Ptr
      PROVE  /\ c \in 0 .. HeapLimit
             /\ asStored(c) = c \/ (c # 0 /\ ~Survives(c) /\ asStored(c) = c - HeapLimit - 1)
  BY <1>2, <1>3 DEF asStored
<1>4. \A c \in Ptr : asStored(c) \in Ptr => asStored(c) = c
  BY <1>1, <1>2, <1>3
<1>5. \A c \in Ptr : asStored(b) = asStored(c) => b = c
  BY <1>1, <1>2, <1>3
<1>6. asStored(b) \in Pointer
  BY <1>1, <1>2, <1>3 DEF Pointer
<1>7. asStored(b) \notin Ptr => ~Survives(b)
  BY <1>3
<1>8. ~Survives(b) => version # "lock"
  BY DEF Survives
<1>9. Survives(b) => asStored(b) = b
  BY DEF asStored
<1>10. asStored(b) = NULL <=> b = NULL
  BY <1>1, <1>2, <1>3
<1> QED
  BY <1>4, <1>5, <1>6, <1>7, <1>8, <1>9, <1>10

LEMMA ThreadsAre ==
  /\ Main \in Threads /\ Main \notin Workers
  /\ Workers \subseteq Threads /\ \A t \in Threads : t # Main => t \in Workers
BY ThreadTestsAssumption DEF Workers, Main

\* What the no-lock build makes of the pointer a thread frees.
Passed(t) ==
  IF malloc_items.address[target(t)] \in Ptr THEN malloc_items.address[target(t)] ELSE NULL

LEMMA Types ==
  ASSUME TInv
  PROVE  /\ program \in Programs /\ freeFirst \in BOOLEAN
         /\ malloc_items \in Store
         /\ i \in [Threads -> Nat] /\ \A t \in Threads : i[t] <= Total
         /\ \A t \in Workers : i[t] <= NumItems /\ (at[t] # "end" => i[t] < NumItems)
         /\ counter \in [Workers -> Nat] /\ \A t \in Workers : counter[t] <= Total
         /\ at \in [Threads -> {"malloc", "store", "claim", "free", "join", "end"}]
         /\ got \in [Threads -> Pointer]
         /\ verdict \in {"none", "Test passed", "Test failed"}
<1>1. Total \in Nat /\ NumItems \in Nat
  BY Layout
<1>2. i \in [Threads -> 0 .. Total] /\ counter \in [Workers -> 0 .. Total]
  BY DEF TInv, TestTypeOK
<1>3. \A t \in Workers : i[t] <= NumItems - (IF at[t] = "end" THEN 0 ELSE 1)
  BY DEF TInv, TestTypeOK
<1>4. \A t \in Workers : i[t] <= NumItems /\ (at[t] # "end" => i[t] < NumItems)
  BY <1>1, <1>2, <1>3, ThreadsAre
<1>5. /\ program \in Programs /\ freeFirst \in BOOLEAN
      /\ malloc_items \in Store
      /\ at \in [Threads -> {"malloc", "store", "claim", "free", "join", "end"}]
      /\ got \in [Threads -> Pointer]
      /\ verdict \in {"none", "Test passed", "Test failed"}
  BY DEF TInv, TestTypeOK, Store
<1>6. /\ i \in [Threads -> Nat] /\ \A t \in Threads : i[t] <= Total
      /\ counter \in [Workers -> Nat] /\ \A t \in Workers : counter[t] <= Total
  BY <1>1, <1>2
<1> QED
  BY <1>4, <1>5, <1>6

\* The items the threads look at are there.
LEMMA InRange ==
  ASSUME TInv, program # "any"
  PROVE  /\ \A t \in Workers : /\ i[t] \in Nat /\ i[t] <= NumItems
                               /\ at[t] # "end" => i[t] < NumItems
                               /\ index(t) = First(t) + i[t]
                               /\ at[t] # "end" => index(t) \in Items
                               /\ at[t] \in {"claim", "free"} =>
                                    /\ counter[t] \in Items
                                    /\ counter[t] < First(Does.victim[t]) + NumItems
                               /\ counter[t] <= Total
         /\ at[Main] = "free" => i[Main] \in Items
<1>1. \A t \in Workers : /\ i[t] \in Nat /\ i[t] <= NumItems
                         /\ at[t] # "end" => i[t] < NumItems
                         /\ index(t) = First(t) + i[t]
  BY ThreadsAre, Types DEF index, First
<1>2. ASSUME NEW t \in Workers
      PROVE  /\ at[t] # "end" => index(t) \in Items
             /\ at[t] \in {"claim", "free"} =>
                  /\ counter[t] \in Items /\ counter[t] < First(Does.victim[t]) + NumItems
             /\ counter[t] <= Total
  <2>1. Does.victim[t] \in Workers
    BY Types, AllPrograms
  <2>2. WorkerAt(t)
    BY <1>2, ThreadsAre DEF TInv
  <2>3. counter[t] \in Nat /\ counter[t] <= Total
    BY Types
  <2>4. at[t] # "end" => index(t) \in Items
    BY <1>1, Layout DEF Items
  <2>5. at[t] \in {"claim", "free"} => counter[t] < First(Does.victim[t]) + NumItems
    BY <1>1, <2>1, <2>2, <2>3, Layout DEF WorkerAt
  <2> QED
    BY <2>1, <2>3, <2>4, <2>5, Layout DEF Items
<1>3. at[Main] = "free" => i[Main] \in Items
  <2>1. i[Main] \in Nat
    BY ThreadsAre, Types
  <2>2. at[Main] = "free" => i[Main] < Total
    BY DEF TInv, MainAt
  <2> QED
    BY <2>1, <2>2, Layout DEF Items
<1> QED
  BY <1>1, <1>2, <1>3

\* A call goes on, or begins, and the test's own variables stay as they are.
LEMMA CallMoves ==
  ASSUME TInv, UNCHANGED test, NEW t \in Threads,
         \A u \in Threads \ {t} : pc'[u] = pc[u] /\ req'[u] = req[u],
         CallAt(t)'
  PROVE  TInv'
<1>1. TestTypeOK' /\ program' = program
  BY DEF TInv, TestTypeOK, test, Failed
<1>2. ASSUME program # "any" PROVE MainAt'
  BY <1>2 DEF TInv, MainAt, test
<1>3. ASSUME program # "any", NEW u \in Threads PROVE CallAt(u)'
  BY <1>3 DEF TInv, CallAt, freesNext, test, index, Does
<1>4. ASSUME program # "any", NEW u \in Workers PROVE WorkerAt(u)'
  BY <1>4, ThreadsAre DEF TInv, WorkerAt, test, Asks, Does
<1> QED
  BY <1>1, <1>2, <1>3, <1>4 DEF TInv

\* A worker that is in no call goes on in its loop.
LEMMA WorkerMoves ==
  ASSUME TInv, program # "any", NEW t \in Workers, NEW to, NEW n \in Nat, NEW c \in Nat,
         UNCHANGED <<program, freeFirst, verdict>>,
         malloc_items' \in Store, malloc_items'.bytes = malloc_items.bytes,
         got' \in [Threads -> Pointer],
         at[t] # "end", at' = [at EXCEPT ![t] = to],
         i' = [i EXCEPT ![t] = n], counter' = [counter EXCEPT ![t] = c],
         n <= NumItems - (IF to = "end" THEN 0 ELSE 1), to = "end" => n = NumItems,
         to \in {"malloc", "store", "claim", "free", "end"},
         to \in {"claim", "free"} => program # "thread_test",
         to = "claim" => Asks,
         IF program = "thread_test" THEN c = 0
         ELSE c \in First(Does.victim[t]) .. First(Does.victim[t]) + n,
         pc'[t] \notin MallocPCs \cup FreePCs,
         \A u \in Threads \ {t} : pc'[u] = pc[u] /\ req'[u] = req[u]
  PROVE  TInv'
<1>1. /\ TestTypeOK /\ at \in [Threads -> {"malloc", "store", "claim", "free", "join", "end"}]
      /\ i \in [Threads -> 0 .. Total] /\ counter \in [Workers -> 0 .. Total]
  BY DEF TInv, TestTypeOK
<1>2. t \in Threads /\ t # Main
  BY ThreadsAre
<1>3. /\ \A u \in Threads : /\ at'[u] = IF u = t THEN to ELSE at[u]
                            /\ i'[u] = IF u = t THEN n ELSE i[u]
      /\ \A u \in Workers : counter'[u] = IF u = t THEN c ELSE counter[u]
  BY <1>1, <1>2
<1>4. n \in 0 .. Total /\ c \in 0 .. Total /\ n <= NumItems
  <2>1. Does.victim[t] \in Workers
    BY <1>1, AllPrograms DEF TestTypeOK
  <2> QED
    BY <2>1, Layout
<1>5. TestTypeOK'
  <2>1. /\ i' \in [Threads -> 0 .. Total] /\ counter' \in [Workers -> 0 .. Total]
        /\ at' \in [Threads -> {"malloc", "store", "claim", "free", "join", "end"}]
    BY <1>1, <1>2, <1>4
  <2>2. \A u \in Workers : i'[u] <= NumItems - (IF at'[u] = "end" THEN 0 ELSE 1)
    BY <1>1, <1>3, ThreadsAre DEF TestTypeOK
  <2> QED
    BY <1>1, <2>1, <2>2 DEF TestTypeOK, Store
<1>6. at[Main] = "join" /\ at'[Main] = "join"
  BY <1>2, <1>3, ThreadsAre DEF TInv, MainAt
<1>7. ASSUME NEW u \in Workers PROVE WorkerAt(u)'
  <2>1. WorkerAt(u) /\ Does' = Does /\ Asks' = Asks
    BY ThreadsAre DEF TInv, Does, Asks
  <2> QED
    BY <1>2, <1>3, <2>1, ThreadsAre DEF WorkerAt
<1>8. ASSUME NEW u \in Threads PROVE CallAt(u)'
  BY <1>3, <1>6, ThreadsAre DEF TInv, CallAt, freesNext, index, Does
<1> QED
  BY <1>5, <1>6, <1>7, <1>8, ThreadsAre DEF TInv, MainAt

Verdicts == {"none", "Test passed", "Test failed"}

\* main, in no call, goes on: past its joins, or in its last loop.
LEMMA MainMoves ==
  ASSUME TInv, program # "any", NEW to \in {"free", "end"}, NEW n \in Nat,
         UNCHANGED <<program, freeFirst, malloc_items, counter, got>>,
         \A t \in Workers : at[t] = "end",
         verdict' \in Verdicts,
         at' = [at EXCEPT ![Main] = to], i' = [i EXCEPT ![Main] = n],
         n <= Total, to = IF n < Total THEN "free" ELSE "end",
         pc'[Main] \notin MallocPCs \cup FreePCs,
         \A u \in Workers : pc'[u] = pc[u] /\ req'[u] = req[u]
  PROVE  TInv'
<1>0. Total \in Nat /\ n \in Nat /\ n <= Total
  BY Layout
<1>1. /\ TestTypeOK /\ at \in [Threads -> {"malloc", "store", "claim", "free", "join", "end"}]
      /\ i \in [Threads -> 0 .. Total]
  BY DEF TInv, TestTypeOK
<1>2. \A u \in Threads : /\ at'[u] = IF u = Main THEN to ELSE at[u]
                         /\ i'[u] = IF u = Main THEN n ELSE i[u]
  BY <1>1, ThreadsAre
<1>3. TestTypeOK'
  <2>1. /\ i' \in [Threads -> 0 .. Total]
        /\ at' \in [Threads -> {"malloc", "store", "claim", "free", "join", "end"}]
    <3>1. n \in 0 .. Total
      BY <1>0
    <3>2. i' \in [Threads -> 0 .. Total]
      BY <1>1, <3>1
    <3>3. to \in {"malloc", "store", "claim", "free", "join", "end"}
      OBVIOUS
    <3> QED
      BY <1>1, <3>2, <3>3
  <2>2. \A u \in Workers : i'[u] <= NumItems - (IF at'[u] = "end" THEN 0 ELSE 1)
    BY <1>1, <1>2, ThreadsAre DEF TestTypeOK
  <2> QED
    BY <1>1, <2>1, <2>2 DEF TestTypeOK, Verdicts
<1>4. MainAt'
  <2>1. \A u \in Workers : at'[u] = "end"
    BY <1>2, ThreadsAre
  <2>2. at'[Main] = to /\ i'[Main] = n
    BY <1>2, ThreadsAre
  <2>3. to = "end" => n = Total
    BY <1>0
  <2> QED
    BY <2>1, <2>2, <2>3 DEF MainAt
<1>5. ASSUME NEW u \in Workers PROVE WorkerAt(u)'
  BY <1>2, ThreadsAre DEF TInv, WorkerAt, Asks, Does
<1>6. ASSUME NEW u \in Threads PROVE CallAt(u)'
  BY <1>2, ThreadsAre DEF TInv, CallAt, freesNext, index, Does
<1> QED
  BY <1>3, <1>4, <1>5, <1>6 DEF TInv

\* A round of a loop ends.
LEMMA RoundEnds ==
  ASSUME TInv, program # "any", NEW t \in Workers, nextRound(t), at[t] # "end"
  PROVE  \E n \in Nat, to \in {"malloc", "end"} :
           /\ n = i[t] + 1 /\ to = IF n < NumItems THEN "malloc" ELSE "end"
           /\ n <= NumItems - (IF to = "end" THEN 0 ELSE 1)
           /\ to = "end" => n = NumItems
           /\ i' = [i EXCEPT ![t] = n] /\ at' = [at EXCEPT ![t] = to]
<1> DEFINE n == i[t] + 1
           to == IF n < NumItems THEN "malloc" ELSE "end"
<1>1. i[t] \in Nat /\ i[t] < NumItems /\ NumItems \in Nat
  BY InRange, Layout
<1>2. /\ n \in Nat /\ n <= NumItems - (IF to = "end" THEN 0 ELSE 1) /\ to \in {"malloc", "end"}
      /\ to = "end" => n = NumItems
  BY <1>1
<1>3. i' = [i EXCEPT ![t] = n] /\ at' = [at EXCEPT ![t] = to]
  BY ThreadsAre DEF nextRound
<1> QED
  BY <1>2, <1>3

\* A worker is back from FREE, or from a FREE that does nothing.
LEMMA BackFromFree ==
  ASSUME TInv, program # "any", NEW t \in Workers, at[t] = "free", freed(t),
         pc'[t] \notin MallocPCs \cup FreePCs,
         \A u \in Threads \ {t} : pc'[u] = pc[u] /\ req'[u] = req[u]
  PROVE  TInv'
<1>1. PICK n \in Nat, to \in {"malloc", "end"} :
        /\ n = i[t] + 1
        /\ n <= NumItems - (IF to = "end" THEN 0 ELSE 1)
        /\ to = "end" => n = NumItems
        /\ i' = [i EXCEPT ![t] = n] /\ at' = [at EXCEPT ![t] = to]
  BY RoundEnds DEF freed
<1>2. t # Main /\ WorkerAt(t) /\ counter[t] \in Items /\ i[t] \in Nat
  BY ThreadsAre, InRange DEF TInv
<1>3. program # "thread_test" /\ First(Does.victim[t]) \in Nat
  BY <1>2, Types, AllPrograms, Layout DEF WorkerAt
<1>4. counter' = [counter EXCEPT ![t] = counter[t] + 1]
  BY <1>2 DEF freed
<1>5. /\ counter[t] + 1 \in Nat
      /\ counter[t] + 1 \in First(Does.victim[t]) .. First(Does.victim[t]) + n
  BY <1>1, <1>2, <1>3, Layout DEF WorkerAt, Items
<1>6. malloc_items' \in Store /\ malloc_items'.bytes = malloc_items.bytes
  BY <1>2, Types DEF freed, Store
<1>7. UNCHANGED <<program, freeFirst, got, verdict>> /\ got' \in [Threads -> Pointer]
  BY Types DEF freed
<1> QED
  BY <1>1, <1>3, <1>4, <1>5, <1>6, <1>7, WorkerMoves

LEMMA TypesStep ==
  ASSUME TInv, MInv, [TestNext]_allVars
  PROVE  TInv'
<1> USE DEF MallocPCs, FreePCs
<1>0. pc \in [Threads -> PCs] /\ req \in [Threads -> Sizes \cup {0}] /\ ptr \in [Threads -> Ptr]
  BY DEF MInv, LInv, TypeOK
<1>1. ASSUME program = "any", UNCHANGED test PROVE TInv'
  BY <1>1 DEF TInv, TestTypeOK, test
<1>2. CASE UNCHANGED allVars
  BY <1>2 DEF allVars, vars, test, TInv, TestTypeOK, MainAt, CallAt, freesNext, WorkerAt, index,
     Asks, Does
<1>3. ASSUME program # "any", NEW t \in Threads, Inner(t), UNCHANGED test PROVE TInv'
  <2>1. Within(t) /\ CallAt(t)
    BY <1>3, InnerStep DEF TInv
  <2>2. CallAt(t)'
    BY <1>3, <2>1 DEF Within, CallAt, freesNext, test, index, Does
  <2> QED
    BY <1>3, <2>1, <2>2, CallMoves DEF Within
<1>4. ASSUME program # "any", NEW t \in Workers, callMalloc(t) PROVE TInv'
  <2> DEFINE bytes == malloc_items.bytes[index(t)]
  <2>1. t \in Threads /\ at[t] = "malloc" /\ UNCHANGED test
    BY <1>4, ThreadsAre DEF callMalloc
  <2>2. PICK to \in {"malloc_lock", "sbrk_lock", "return"} : Call(t, bytes, to)
    BY <1>4 DEF callMalloc, ts_malloc_lock, ts_malloc_nolock
  <2>3. req' = [req EXCEPT ![t] = bytes] /\ pc' = [pc EXCEPT ![t] = to]
    BY <2>2 DEF Call, Goto
  <2>4. CallAt(t)'
    BY <1>0, <2>1, <2>3 DEF CallAt, test, index
  <2> QED
    BY <1>0, <2>1, <2>3, <2>4, CallMoves
<1>5. ASSUME program # "any", NEW t \in Workers, mallocReturns(t) PROVE TInv'
  <2>1. t \in Threads /\ at[t] = "malloc" /\ WorkerAt(t) /\ i[t] \in Nat /\ counter[t] \in Nat
    BY <1>5, ThreadsAre, Types DEF mallocReturns, TInv
  <2>2. /\ pc' = [pc EXCEPT ![t] = "idle"] /\ req' = [req EXCEPT ![t] = 0]
        /\ got' = [got EXCEPT ![t] = asStored(ptr[t])] /\ at' = [at EXCEPT ![t] = "store"]
        /\ UNCHANGED <<program, freeFirst, i, counter, verdict>>
    BY <1>5 DEF mallocReturns, returnMalloc, Hand, Goto
  <2>a. asStored(ptr[t]) \in Pointer
    BY <1>0, <2>1, StoredAs
  <2>3. malloc_items' \in Store /\ malloc_items'.bytes = malloc_items.bytes
    BY <1>5, <2>1, <2>a, Types, InRange DEF mallocReturns, Store
  <2>4. i' = [i EXCEPT ![t] = i[t]] /\ counter' = [counter EXCEPT ![t] = counter[t]]
    BY <2>2, Types
  <2>5. got' \in [Threads -> Pointer]
    BY <2>1, <2>2, <2>a, Types
  <2>6. i[t] <= NumItems - 1
    BY <1>5, <2>1, InRange, Layout
  <2>7. /\ pc'[t] = "idle"
        /\ \A u \in Threads \ {t} : pc'[u] = pc[u] /\ req'[u] = req[u]
    BY <1>0, <2>1, <2>2
  <2> QED
    <3>1. PICK to \in {"store"}, n \in Nat, c \in Nat : n = i[t] /\ c = counter[t]
      BY <2>1
    <3>2. /\ n <= NumItems - (IF to = "end" THEN 0 ELSE 1) /\ at' = [at EXCEPT ![t] = to]
          /\ i' = [i EXCEPT ![t] = n] /\ counter' = [counter EXCEPT ![t] = c]
      BY <2>2, <2>4, <2>6, <3>1
    <3>3. IF program = "thread_test" THEN c = 0
          ELSE c \in First(Does.victim[t]) .. First(Does.victim[t]) + n
      BY <2>1, <3>1 DEF WorkerAt
    <3>4. pc'[t] \notin MallocPCs \cup FreePCs /\ at[t] # "end"
      BY <2>1, <2>7
    <3>5. UNCHANGED <<program, freeFirst, verdict>>
      BY <2>2
    <3>6. /\ to \in {"malloc", "store", "claim", "free", "end"}
          /\ to \in {"claim", "free"} => program # "thread_test"
          /\ to = "claim" => Asks
          /\ to = "end" => n = NumItems
      BY <3>1
    <3>7. \A u \in Threads \ {t} : pc'[u] = pc[u] /\ req'[u] = req[u]
      BY <2>7
    <3> HIDE DEF MallocPCs, FreePCs
    <3> QED
      BY <1>5, <2>3, <2>5, <3>2, <3>3, <3>4, <3>5, <3>6, <3>7, WorkerMoves
<1>6. ASSUME program # "any", NEW t \in Workers, store(t) PROVE TInv'
  <2>1. /\ t \in Threads /\ at[t] = "store" /\ WorkerAt(t) /\ CallAt(t)
        /\ i[t] \in Nat /\ i[t] < NumItems /\ counter[t] \in Nat /\ index(t) \in Items
        /\ NumItems \in Nat
    BY <1>6, ThreadsAre, Types, InRange, Layout DEF store, TInv
  <2>2. /\ UNCHANGED <<vars, program, freeFirst, counter, verdict>>
        /\ got' = [got EXCEPT ![t] = NULL]
    BY <1>6 DEF store
  <2>3. malloc_items' \in Store /\ malloc_items'.bytes = malloc_items.bytes
    BY <1>6, <2>1, Types DEF store, Store
  <2>4. got' \in [Threads -> Pointer] /\ counter' = [counter EXCEPT ![t] = counter[t]]
    BY <2>1, <2>2, Types DEF Pointer, Ptr
  <2>5. pc'[t] \notin MallocPCs \cup FreePCs /\ UNCHANGED <<pc, req>>
    BY <2>1, <2>2 DEF CallAt, freesNext, vars
  <2>6. CASE Does.frees[t][i[t]]
    <3>1. program # "thread_test"
      <4>1. i[t] \in 0 .. NumItems
        BY <2>1
      <4> QED
        BY <1>6, <2>6, <4>1, Types, AllPrograms
    <3>2. PICK to \in {"claim", "free"} : at' = [at EXCEPT ![t] = to] /\ (to = "claim" => Does.claims)
      BY <1>6, <2>6 DEF store
    <3>3. to = "claim" => Asks
      BY <1>6, <3>2, Types, AllPrograms
    <3>4. i' = [i EXCEPT ![t] = i[t]]
      BY <1>6, <2>6, Types DEF store
    <3>5. i[t] <= NumItems - (IF to = "end" THEN 0 ELSE 1)
      BY <2>1
    <3> QED
      BY <1>6, <2>1, <2>2, <2>3, <2>4, <2>5, <3>1, <3>2, <3>3, <3>4, <3>5, WorkerMoves
         DEF WorkerAt
  <2>7. CASE ~Does.frees[t][i[t]]
    <3>1. PICK n \in Nat, to \in {"malloc", "end"} :
            /\ n = i[t] + 1
            /\ n <= NumItems - (IF to = "end" THEN 0 ELSE 1)
            /\ to = "end" => n = NumItems
            /\ i' = [i EXCEPT ![t] = n] /\ at' = [at EXCEPT ![t] = to]
      BY <1>6, <2>1, <2>7, RoundEnds DEF store
    <3>2. IF program = "thread_test" THEN counter[t] = 0
          ELSE counter[t] \in First(Does.victim[t]) .. First(Does.victim[t]) + n
      <4>1. First(Does.victim[t]) \in Nat
        BY <1>6, Types, AllPrograms, Layout
      <4> QED
        BY <2>1, <3>1, <4>1 DEF WorkerAt
    <3> QED
      BY <1>6, <2>1, <2>2, <2>3, <2>4, <2>5, <3>1, <3>2, WorkerMoves
  <2> QED
    BY <2>6, <2>7
<1>7. ASSUME program # "any", NEW t \in Workers, claim(t) PROVE TInv'
  <2>1. /\ t \in Threads /\ at[t] = "claim" /\ WorkerAt(t) /\ CallAt(t)
        /\ i[t] \in Nat /\ i[t] < NumItems /\ counter[t] \in Nat /\ counter[t] \in Items
        /\ NumItems \in Nat
    BY <1>7, ThreadsAre, Types, InRange, Layout DEF claim, TInv
  <2>2. UNCHANGED <<vars, program, freeFirst, counter, got, verdict>>
    BY <1>7 DEF claim
  <2>3. malloc_items' \in Store /\ malloc_items'.bytes = malloc_items.bytes
    <3>1. malloc_items' = malloc_items
          \/ malloc_items' = [malloc_items EXCEPT !.free[counter[t]] = 1]
      BY <1>7 DEF claim
    <3>2. [malloc_items EXCEPT !.free[counter[t]] = 1] \in Store
      BY Types DEF Store
    <3>3. [malloc_items EXCEPT !.free[counter[t]] = 1].bytes = malloc_items.bytes
      BY Types DEF Store
    <3> QED
      BY <3>1, <3>2, <3>3, Types
  <2>4. got' \in [Threads -> Pointer] /\ counter' = [counter EXCEPT ![t] = counter[t]]
    BY <2>1, <2>2, Types
  <2>5. pc'[t] \notin MallocPCs \cup FreePCs /\ UNCHANGED <<pc, req>>
    BY <2>1, <2>2 DEF CallAt, freesNext, vars
  <2>6. CASE malloc_items.free[counter[t]] = 0
    <3>1. at' = [at EXCEPT ![t] = "free"] /\ i' = [i EXCEPT ![t] = i[t]]
      BY <1>7, <2>6, Types DEF claim
    <3>2. i[t] <= NumItems - 1
      BY <2>1
    <3> QED
      BY <1>7, <2>1, <2>2, <2>3, <2>4, <2>5, <3>1, <3>2, WorkerMoves DEF WorkerAt
  <2>7. CASE malloc_items.free[counter[t]] # 0
    <3>1. PICK n \in Nat, to \in {"malloc", "end"} :
            /\ n = i[t] + 1
            /\ n <= NumItems - (IF to = "end" THEN 0 ELSE 1)
            /\ to = "end" => n = NumItems
            /\ i' = [i EXCEPT ![t] = n] /\ at' = [at EXCEPT ![t] = to]
      BY <1>7, <2>1, <2>7, RoundEnds DEF claim
    <3>2. IF program = "thread_test" THEN counter[t] = 0
          ELSE counter[t] \in First(Does.victim[t]) .. First(Does.victim[t]) + n
      <4>1. First(Does.victim[t]) \in Nat
        BY <1>7, Types, AllPrograms, Layout
      <4> QED
        BY <2>1, <3>1, <4>1 DEF WorkerAt
    <3> QED
      BY <1>7, <2>1, <2>2, <2>3, <2>4, <2>5, <3>1, <3>2, WorkerMoves
  <2> QED
    BY <2>6, <2>7
<1>8. ASSUME program # "any", NEW t \in Threads, callFree(t), UNCHANGED test,
             ts_free_lock(t, malloc_items.address[target(t)])
      PROVE  TInv'
  <2>1. at[t] = "free" /\ pc' = [pc EXCEPT ![t] = "free_lock"] /\ req' = req
    BY <1>8 DEF callFree, freesNext, ts_free_lock, Goto
  <2>2. CallAt(t)'
    BY <1>0, <1>8, <2>1 DEF CallAt, callFree, freesNext, test, Does
  <2> QED
    BY <1>0, <1>8, <2>1, <2>2, CallMoves
<1>9. ASSUME program # "any", NEW t \in Threads, at[t] = "free", freed(t), req' = req,
             \/ pc[t] = "idle" /\ pc' = pc
             \/ pc' = [pc EXCEPT ![t] = "idle"]
      PROVE  TInv'
  <2>1. pc'[t] = "idle" /\ \A u \in Threads \ {t} : pc'[u] = pc[u]
    BY <1>0, <1>9
  <2>2. CASE t \in Workers
    BY <1>9, <2>1, <2>2, BackFromFree
  <2>3. CASE t = Main
    <3>1. /\ i[Main] \in Nat /\ i[Main] < Total /\ Total \in Nat
          /\ \A u \in Workers : at[u] = "end"
      BY <1>9, <2>3, ThreadsAre, Types, Layout DEF TInv, MainAt
    <3> DEFINE n == i[Main] + 1
               to == IF n < Total THEN "free" ELSE "end"
    <3>2. n \in Nat /\ n <= Total /\ to \in {"free", "end"}
      BY <3>1
    <3>3. /\ i' = [i EXCEPT ![Main] = n] /\ at' = [at EXCEPT ![Main] = to]
          /\ UNCHANGED <<program, freeFirst, malloc_items, counter, got, verdict>>
      BY <1>9, <2>3 DEF freed, nextRound
    <3>4. verdict' \in Verdicts
      BY <3>3, Types DEF Verdicts
    <3> HIDE DEF n, to
    <3>5. to = IF n < Total THEN "free" ELSE "end"
      BY DEF to
    <3> QED
      BY <1>9, <2>1, <2>3, <3>1, <3>2, <3>3, <3>4, <3>5, MainMoves, ThreadsAre
  <2> QED
    BY <2>2, <2>3, ThreadsAre
<1>10. ASSUME program # "any", NEW t \in Threads, callFree(t) PROVE TInv'
  <2>1. ASSUME ts_free_nolock(t, Passed(t)), freed(t) PROVE TInv'
    <3>1. at[t] = "free" /\ pc[t] = "idle" /\ pc' = pc /\ req' = req
      BY <1>10, <2>1 DEF callFree, freesNext, ts_free_nolock, GiveBack
    <3> QED
      BY <1>9, <1>10, <2>1, <3>1
  <2> QED
    BY <1>8, <1>10, <2>1 DEF callFree, Passed
<1>11. ASSUME program # "any", NEW t \in Threads, freeReturns(t) PROVE TInv'
  <2>1. at[t] = "free" /\ pc' = [pc EXCEPT ![t] = "idle"] /\ req' = req /\ freed(t)
    BY <1>11 DEF freeReturns, releaseFree, Goto
  <2> QED
    BY <1>9, <1>11, <2>1
<1>12. ASSUME program # "any", join PROVE TInv'
  <2>1. /\ at[Main] = "join" /\ i[Main] = 0 /\ 0 < Total /\ Total \in Nat
        /\ CallAt(Main) /\ \A u \in Workers : at[u] = "end"
    <3>1. at[Main] = "join" /\ \A u \in Workers : at[u] = "end"
      BY <1>12 DEF join
    <3>2. i[Main] = 0 /\ CallAt(Main)
      BY <1>12, <3>1, ThreadsAre DEF TInv, MainAt
    <3> QED
      BY <3>1, <3>2, Layout
  <2>2. /\ at' = [at EXCEPT ![Main] = "free"] /\ i' = [i EXCEPT ![Main] = 0]
        /\ UNCHANGED <<vars, program, freeFirst, malloc_items, counter, got>>
        /\ verdict' \in Verdicts
    BY <1>12, <2>1, Types DEF join, Verdicts
  <2>3. pc'[Main] \notin MallocPCs \cup FreePCs /\ UNCHANGED <<pc, req>>
    BY <2>1, <2>2 DEF CallAt, freesNext, vars
  <2> QED
    <3>1. 0 \in Nat /\ 0 <= Total /\ "free" = IF 0 < Total THEN "free" ELSE "end"
      BY <2>1
    <3>2. \A u \in Workers : pc'[u] = pc[u] /\ req'[u] = req[u]
      BY <2>3
    <3>3. UNCHANGED <<program, freeFirst, malloc_items, counter, got>>
      BY <2>2
    <3> QED
      BY <1>12, <2>1, <2>2, <2>3, <3>1, <3>2, <3>3, MainMoves
<1>13. ASSUME program # "any", passOver PROVE TInv'
  <2>1. /\ i[Main] \in Nat /\ i[Main] < Total /\ Total \in Nat
        /\ at[Main] = "free" /\ \A u \in Workers : at[u] = "end"
    BY <1>13, ThreadsAre, Types, Layout DEF TInv, MainAt, passOver
  <2> DEFINE n == i[Main] + 1
             to == IF n < Total THEN "free" ELSE "end"
  <2>2. n \in Nat /\ n <= Total /\ to \in {"free", "end"}
    BY <2>1
  <2>3. /\ i' = [i EXCEPT ![Main] = n] /\ at' = [at EXCEPT ![Main] = to]
        /\ UNCHANGED <<vars, program, freeFirst, malloc_items, counter, got, verdict>>
    BY <1>13 DEF passOver, nextRound
  <2>4. verdict' \in Verdicts
    BY <2>3, Types DEF Verdicts
  <2>5. pc'[Main] \notin MallocPCs \cup FreePCs /\ UNCHANGED <<pc, req>>
    <3>1. CallAt(Main) /\ ~freesNext(Main) /\ UNCHANGED vars
      BY <1>13, ThreadsAre DEF TInv, passOver
    <3> QED
      BY <2>1, <3>1 DEF CallAt, vars
  <2> HIDE DEF n, to
  <2>6. to = IF n < Total THEN "free" ELSE "end"
    BY DEF to
  <2> QED
    BY <1>13, <2>1, <2>2, <2>3, <2>4, <2>5, <2>6, MainMoves
<1> QED
  BY <1>1, <1>2, <1>3, <1>4, <1>5, <1>6, <1>7, <1>10, <1>11, <1>12, <1>13, ThreadsAre
     DEF TestNext, AnyStep, WorkerStep, MainStep

LEMMA TypesInit ==
  ASSUME TestInit
  PROVE  TInv
<1>1. /\ Total \in Nat /\ 0 < Total /\ NumItems \in Nat /\ 1 <= NumItems
      /\ \A t \in Workers : t * NumItems = First(t) /\ First(t) \in Nat /\ First(t) <= Total
  BY Layout DEF First
<1>2. program \in Programs /\ freeFirst \in BOOLEAN
  BY DEF TestInit
<1>3. CASE program = "any"
  <2>1. /\ malloc_items \in [bytes : [Items -> {1}], address : {[k \in Items |-> NULL]},
                             free : {[k \in Items |-> 0]}]
        /\ counter = [t \in Workers |-> 0]
    BY <1>3 DEF TestInit
  <2>2. malloc_items \in Store
    BY <2>1, ThreadTestsAssumption DEF Store, Pointer, Ptr
  <2>3. TestTypeOK
    BY <1>1, <1>2, <2>1, <2>2, ThreadsAre DEF TestInit, TestTypeOK, Store, Pointer, Ptr
  <2> QED
    BY <1>3, <2>3 DEF TInv
<1>4. CASE program # "any"
  <2>1. /\ malloc_items \in [bytes : [Items -> Sizes], address : {[k \in Items |-> NULL]},
                             free : {[k \in Items |-> Does.free]}]
        /\ counter = [t \in Workers |-> Does.victim[t] * NumItems]
    BY <1>4 DEF TestInit
  <2>2. Does.free \in {0, 1} /\ \A t \in Workers : Does.victim[t] \in Workers
    BY <1>2, <1>4, AllPrograms
  <2>3. malloc_items \in Store
    BY <2>1, <2>2 DEF Store, Pointer, Ptr
  <2>4. \A t \in Workers : counter[t] = First(Does.victim[t])
    BY <2>1, <2>2 DEF First
  <2>5. counter \in [Workers -> 0 .. Total]
    BY <1>1, <2>1, <2>2, <2>4
  <2>6. /\ \A t \in Threads : i[t] = 0 /\ at[t] = IF t = Main THEN "join" ELSE "malloc"
        /\ i \in [Threads -> 0 .. Total]
    BY <1>1 DEF TestInit
  <2>7. TestTypeOK
    BY <1>1, <1>2, <2>3, <2>5, <2>6, ThreadsAre DEF TestInit, TestTypeOK, Store, Pointer, Ptr
  <2>8. MainAt
    BY <2>6, ThreadsAre DEF MainAt
  <2>9. ASSUME NEW t \in Threads PROVE CallAt(t)
    BY DEF CallAt, TestInit, Init, MallocPCs, FreePCs
  <2>10. ASSUME NEW t \in Workers PROVE WorkerAt(t)
    <3>1. program = "thread_test" => counter[t] = 0
      <4>1. program = "thread_test" => Does.victim[t] = 0
        BY DEF Does, thread_test
      <4>2. 0 * NumItems = 0
        BY <1>1
      <4> QED
        BY <2>4, <4>1, <4>2 DEF First
    <3>2. counter[t] \in First(Does.victim[t]) .. First(Does.victim[t]) + i[t]
      BY <1>1, <2>2, <2>4, <2>6, ThreadsAre
    <3> QED
      BY <2>6, <3>1, <3>2, ThreadsAre DEF WorkerAt
  <2> QED
    BY <2>7, <2>8, <2>9, <2>10 DEF TInv
<1> QED
  BY <1>3, <1>4

-----------------------------------------------------------------------------
(***************************************************************************)
(* The flags, and what has been freed                                      *)
(***************************************************************************)

Own(t, k) == First(t) <= k /\ k < First(t) + NumItems

\* Item k is malloced, or its flag stored, later than now.
ToMalloc(k) == \E t \in Workers : Own(t, k) /\ (index(t) < k \/ (index(t) = k /\ at[t] = "malloc"))
ToFlag(k)   == \/ ToMalloc(k)
               \/ ~freeFirst /\ \E t \in Workers : index(t) = k /\ at[t] = "store"

\* Item k has been marked free by the worker that frees it.
Marked(k) ==
  \E u \in Workers : /\ First(Does.victim[u]) <= k
                     /\ k < counter[u] \/ (Asks /\ at[u] = "free" /\ k = counter[u])

\* FREE has been called for item k.
WorkerFreed(k) ==
  \E u \in Workers : /\ First(Does.victim[u]) <= k
                     /\ k < counter[u] \/ (pc[u] \in FreePCs /\ k = counter[u])
MainFreed(k) == /\ malloc_items.free[k] \in Does.mainFrees
                /\ k < i[Main] \/ (pc[Main] \in FreePCs /\ k = i[Main])
Freed(k) == WorkerFreed(k) \/ MainFreed(k)

\* What the flag of an item tells.
Flags ==
  \A k \in Items :
    /\ Marked(k) => malloc_items.free[k] = 1 /\ ~ToFlag(k)
    /\ Asks /\ malloc_items.free[k] = 0 => ~ToFlag(k)
    /\ malloc_items.free[k] = 1 => Marked(k) \/ ToFlag(k)

\* The round in which item k is malloced is that of one thread.
LEMMA OneOwner ==
  ASSUME TInv, program # "any", NEW t \in Workers, at[t] # "end"
  PROVE  Own(t, index(t)) /\ \A u \in Workers \ {t} : ~Own(u, index(t))
BY InRange, Layout DEF Own

\* A worker goes on: the item of its round is malloced, its flag is stored, or the next
\* round begins, and nothing else is.
LEMMA Passing ==
  ASSUME TInv, program # "any", NEW t \in Workers, NEW to, NEW n \in Nat,
         UNCHANGED <<program, freeFirst>>, at[t] # "end",
         at' = [at EXCEPT ![t] = to], i' = [i EXCEPT ![t] = n],
         \/ n = i[t] /\ to \in {"claim", "free"} /\ at[t] # "malloc"
         \/ n = i[t] /\ to = "store" /\ at[t] = "malloc"
         \/ n = i[t] + 1 /\ at[t] # "malloc" /\ to = IF n < NumItems THEN "malloc" ELSE "end"
  PROVE  \A k \in Items :
           /\ ToMalloc(k)' <=> ToMalloc(k) /\ (index(t) = k => at[t] # "malloc")
           /\ ToFlag(k)' <=> ToFlag(k) /\ (index(t) = k => to = "store" /\ ~freeFirst)
<1>1. /\ i[t] \in Nat /\ First(t) \in Nat /\ index(t) = First(t) + i[t] /\ NumItems \in Nat
      /\ index(t)' = First(t) + n
      /\ at'[t] = to /\ t \in Threads
  BY InRange, Layout, ThreadsAre, Types DEF index, First
<1>2. ASSUME NEW u \in Workers, u # t
      PROVE  index(u)' = index(u) /\ at'[u] = at[u] /\ index(u) \in Nat
  <2>1. u \in Threads /\ i'[u] = i[u] /\ at'[u] = at[u]
    BY <1>2, ThreadsAre, Types
  <2>2. index(u) = First(u) + i[u] /\ First(u) \in Nat /\ i[u] \in Nat
    BY InRange, Layout
  <2> QED
    BY <2>1, <2>2 DEF index
<1>3. Own(t, index(t)) /\ \A u \in Workers \ {t} : ~Own(u, index(t))
  BY OneOwner
<1>4. ASSUME NEW k \in Items PROVE k \in Nat
  BY Layout DEF Items
<1>5. ASSUME NEW k \in Items, Own(t, k)
      PROVE  (index(t)' < k \/ (index(t)' = k /\ at'[t] = "malloc")) <=>
             (index(t) < k \/ (index(t) = k /\ at[t] = "malloc")) /\
             (index(t) = k => at[t] # "malloc")
  BY <1>1, <1>4, <1>5 DEF Own
<1>6. ASSUME NEW k \in Items
      PROVE  ToMalloc(k)' <=> ToMalloc(k) /\ (index(t) = k => at[t] # "malloc")
  <2>1. ToMalloc(k) <=>
          \/ Own(t, k) /\ (index(t) < k \/ (index(t) = k /\ at[t] = "malloc"))
          \/ \E u \in Workers \ {t} : Own(u, k) /\ (index(u) < k \/ (index(u) = k /\ at[u] = "malloc"))
    BY DEF ToMalloc
  <2>2. ToMalloc(k)' <=>
          \/ Own(t, k) /\ (index(t)' < k \/ (index(t)' = k /\ at'[t] = "malloc"))
          \/ \E u \in Workers \ {t} : Own(u, k) /\ (index(u) < k \/ (index(u) = k /\ at[u] = "malloc"))
    BY <1>2 DEF ToMalloc, Own, First
  <2>3. index(t) = k => \A u \in Workers \ {t} : ~Own(u, k)
    BY <1>3
  <2> QED
    BY <1>5, <2>1, <2>2, <2>3
<1>7. ASSUME NEW k \in Items
      PROVE  (\E u \in Workers : index(u)' = k /\ at'[u] = "store") <=>
             \/ index(t)' = k /\ to = "store"
             \/ \E u \in Workers \ {t} : index(u) = k /\ at[u] = "store"
  BY <1>1, <1>2
<1>8. ASSUME NEW k \in Items, index(t) = k, NEW u \in Workers \ {t}, index(u) = k, at[u] = "store"
      PROVE  FALSE
  <2>1. at[u] # "end"
    BY <1>8
  <2> QED
    BY <1>3, <1>8, <2>1, OneOwner
<1>9. ASSUME NEW k \in Items
      PROVE  ToFlag(k)' <=> ToFlag(k) /\ (index(t) = k => to = "store" /\ ~freeFirst)
  <2>1. ToFlag(k)' <=> \/ ToMalloc(k)'
                       \/ ~freeFirst /\ \/ index(t)' = k /\ to = "store"
                                        \/ \E u \in Workers \ {t} : index(u) = k /\ at[u] = "store"
    BY <1>7 DEF ToFlag
  <2>2. ToFlag(k) <=> \/ ToMalloc(k)
                      \/ ~freeFirst /\ \/ index(t) = k /\ at[t] = "store"
                                       \/ \E u \in Workers \ {t} : index(u) = k /\ at[u] = "store"
    BY DEF ToFlag
  <2>3. CASE index(t) = k
    <3>1. ToMalloc(k) <=> at[t] = "malloc"
      BY <1>1, <1>3, <1>4, <2>3 DEF ToMalloc
    <3>2. ~ToMalloc(k)'
      BY <1>6, <2>3, <3>1
    <3>3. to = "store" => index(t)' = k /\ at[t] = "malloc"
      BY <1>1, <2>3
    <3> QED
      BY <1>8, <2>1, <2>2, <2>3, <3>1, <3>2, <3>3
  <2>4. CASE index(t) # k
    <3>1. index(t)' = k => to # "store"
      BY <1>1, <2>4
    <3> QED
      BY <1>6, <2>1, <2>2, <2>4, <3>1
  <2> QED
    BY <2>3, <2>4
<1> QED
  BY <1>6, <1>9

\* A worker that marks nothing ...
LEMMA MarksNothing ==
  ASSUME TInv, program # "any", NEW t \in Workers, NEW to,
         UNCHANGED <<program, counter>>, at' = [at EXCEPT ![t] = to],
         Asks => at[t] # "free" /\ to # "free"
  PROVE  \A k \in Items : Marked(k)' <=> Marked(k)
<1>1. Does' = Does /\ (Asks' <=> Asks)
  BY DEF Does, Asks
<1>2. at'[t] = to /\ \A u \in Workers \ {t} : at'[u] = at[u]
  BY ThreadsAre, Types
<1> QED
  BY <1>1, <1>2 DEF Marked, First

\* ... and one that marks the item it is about to free, or has freed.
LEMMA MarksOne ==
  ASSUME TInv, program # "any", NEW t \in Workers, NEW to, NEW c \in Nat,
         UNCHANGED program, at' = [at EXCEPT ![t] = to], counter' = [counter EXCEPT ![t] = c],
         \/ Asks /\ at[t] = "claim" /\ to = "free" /\ c = counter[t]
         \/ at[t] = "free" /\ to # "free" /\ c = counter[t] + 1
  PROVE  \A k \in Items : Marked(k)' <=> Marked(k) \/ k = counter[t]
<1>1. Does' = Does /\ (Asks' <=> Asks)
  BY DEF Does, Asks
<1>2. /\ at'[t] = to /\ counter'[t] = c /\ counter[t] \in Nat
      /\ \A u \in Workers \ {t} : at'[u] = at[u] /\ counter'[u] = counter[u]
  BY ThreadsAre, Types
<1>3. First(Does.victim[t]) <= counter[t]
  <2>1. WorkerAt(t) /\ program # "thread_test"
    BY ThreadsAre DEF TInv, WorkerAt
  <2>2. First(Does.victim[t]) \in Nat
    BY Types, AllPrograms, Layout
  <2> QED
    BY <1>2, <2>1, <2>2 DEF WorkerAt
<1>4. ASSUME NEW k \in Items
      PROVE  (k < c \/ (Asks /\ to = "free" /\ k = c)) <=>
             (k < counter[t] \/ (Asks /\ at[t] = "free" /\ k = counter[t]) \/ k = counter[t])
  <2>1. k \in Nat
    BY Layout DEF Items
  <2> QED
    BY <1>2, <2>1
<1>5. ASSUME NEW k \in Items PROVE Marked(k)' <=> Marked(k) \/ k = counter[t]
  <2> DEFINE rest == \E u \in Workers \ {t} :
                       /\ First(Does.victim[u]) <= k
                       /\ k < counter[u] \/ (Asks /\ at[u] = "free" /\ k = counter[u])
  <2>1. Marked(k) <=> rest \/ /\ First(Does.victim[t]) <= k
                              /\ k < counter[t] \/ (Asks /\ at[t] = "free" /\ k = counter[t])
    BY DEF Marked
  <2>2. Marked(k)' <=> rest \/ /\ First(Does.victim[t]) <= k
                               /\ k < c \/ (Asks /\ to = "free" /\ k = c)
    BY <1>1, <1>2 DEF Marked, First
  <2> QED
    BY <1>3, <1>4, <2>1, <2>2
<1> QED
  BY <1>5

LEMMA FlagsSame ==
  ASSUME Flags, UNCHANGED <<program, freeFirst, malloc_items, counter>>,
         \A u \in Workers : at'[u] = at[u] /\ i'[u] = i[u]
  PROVE  Flags'
<1>1. Does' = Does /\ (Asks' <=> Asks)
  BY DEF Does, Asks
<1>2. \A k \in Items : Marked(k)' <=> Marked(k)
  BY <1>1 DEF Marked, First
<1>3. \A u \in Workers : index(u)' = index(u)
  BY DEF index
<1>4. \A k \in Items : ToFlag(k)' <=> ToFlag(k)
  BY <1>3 DEF ToFlag, ToMalloc, Own, First
<1> QED
  BY <1>1, <1>2, <1>4 DEF Flags

\* The item of a worker's round, once it is malloced and its flag stored.
LEMMA Stored ==
  ASSUME TInv, program # "any", NEW t \in Workers, at[t] \notin {"malloc", "end"},
         at[t] = "store" => freeFirst
  PROVE  ~ToFlag(index(t))
<1>1. i[t] \in Nat /\ First(t) \in Nat /\ index(t) = First(t) + i[t]
  BY InRange, Layout
<1>2. Own(t, index(t)) /\ \A u \in Workers \ {t} : ~Own(u, index(t))
  BY OneOwner
<1>3. ASSUME NEW u \in Workers \ {t}, index(u) = index(t), at[u] = "store" PROVE FALSE
  <2>1. at[u] # "end"
    BY <1>3
  <2> QED
    BY <1>2, <1>3, <2>1, OneOwner
<1> QED
  BY <1>1, <1>2, <1>3 DEF ToFlag, ToMalloc

\* The worker whose malloc returns, or who stores what it got.
LEMMA FlagsStored ==
  ASSUME TInv, Flags, program # "any", NEW t \in Workers, mallocReturns(t) \/ store(t)
  PROVE  Flags'
<1>0. index(t) \in Items /\ malloc_items.free \in [Items -> {0, 1}]
  BY InRange, Types DEF mallocReturns, store, Store
<1>1. CASE mallocReturns(t)
  <2>1. /\ at[t] = "malloc" /\ at' = [at EXCEPT ![t] = "store"]
        /\ i' = [i EXCEPT ![t] = i[t]] /\ i[t] \in Nat
        /\ UNCHANGED <<program, freeFirst, counter>>
    BY <1>1, Types, ThreadsAre DEF mallocReturns
  <2>2. malloc_items'.free = IF freeFirst THEN [malloc_items.free EXCEPT ![index(t)] = 0]
                             ELSE malloc_items.free
    BY <1>1, Types DEF mallocReturns, Store
  <2>3. \A k \in Items : Marked(k)' <=> Marked(k)
    <3> DEFINE to == "store"
    <3>1. at' = [at EXCEPT ![t] = to] /\ to # "free"
      BY <2>1
    <3> HIDE DEF to
    <3> QED
      BY <2>1, <3>1, MarksNothing
  <2>4. \A k \in Items : ToFlag(k)' <=> ToFlag(k) /\ (index(t) = k => ~freeFirst)
    <3>1. PICK to \in {"store"}, n \in Nat : n = i[t]
      BY <2>1
    <3>2. at' = [at EXCEPT ![t] = to] /\ i' = [i EXCEPT ![t] = n] /\ at[t] # "end"
      BY <2>1, <3>1
    <3>3. \A k \in Items : ToFlag(k)' <=> ToFlag(k) /\ (index(t) = k => to = "store" /\ ~freeFirst)
      BY <2>1, <3>1, <3>2, Passing
    <3> QED
      BY <3>1, <3>3
  <2>5. ToFlag(index(t))
    BY <2>1, OneOwner DEF ToFlag, ToMalloc
  <2> QED
    BY <1>0, <2>1, <2>2, <2>3, <2>4, <2>5 DEF Flags, Asks
<1>2. CASE store(t)
  <2>1. /\ at[t] = "store" /\ i[t] \in Nat /\ UNCHANGED <<program, freeFirst, counter>>
    BY <1>2, Types, ThreadsAre DEF store
  <2>2. malloc_items'.free = IF freeFirst THEN malloc_items.free
                             ELSE [malloc_items.free EXCEPT ![index(t)] = 0]
    BY <1>2, Types DEF store, Store
  <2>3. PICK to \in {"claim", "free", "malloc", "end"}, n \in Nat :
          /\ at' = [at EXCEPT ![t] = to] /\ i' = [i EXCEPT ![t] = n]
          /\ Asks => to # "free"
          /\ \/ n = i[t] /\ to \in {"claim", "free"}
             \/ n = i[t] + 1 /\ to = IF n < NumItems THEN "malloc" ELSE "end"
    <3>1. CASE Does.frees[t][i[t]]
      <4>1. i' = [i EXCEPT ![t] = i[t]]
        BY <1>2, <3>1, Types DEF store
      <4>2. Does.claims <=> Asks
        BY Types, AllPrograms
      <4>3. CASE Asks
        <5>1. at' = [at EXCEPT ![t] = "claim"]
          BY <1>2, <3>1, <4>2, <4>3 DEF store
        <5> QED
          BY <2>1, <4>1, <5>1
      <4>4. CASE ~Asks
        <5>1. at' = [at EXCEPT ![t] = "free"]
          BY <1>2, <3>1, <4>2, <4>4 DEF store
        <5> QED
          BY <2>1, <4>1, <4>4, <5>1
      <4> QED
        BY <4>3, <4>4
    <3>2. CASE ~Does.frees[t][i[t]]
      <4>1. nextRound(t)
        BY <1>2, <3>2 DEF store
      <4>2. PICK n \in Nat, to \in {"malloc", "end"} :
              /\ n = i[t] + 1 /\ to = IF n < NumItems THEN "malloc" ELSE "end"
              /\ i' = [i EXCEPT ![t] = n] /\ at' = [at EXCEPT ![t] = to]
        BY <2>1, <4>1, RoundEnds
      <4> QED
        BY <4>2
    <3> QED
      BY <3>1, <3>2
  <2>4. \A k \in Items : Marked(k)' <=> Marked(k)
    BY <2>1, <2>3, MarksNothing
  <2>5. \A k \in Items : ToFlag(k)' <=> ToFlag(k) /\ index(t) # k
    BY <2>1, <2>3, Passing
  <2>6. ~freeFirst => ToFlag(index(t))
    BY <2>1 DEF ToFlag
  <2>7. freeFirst => ~ToFlag(index(t))
    BY <2>1, Stored
  <2> QED
    BY <1>0, <2>1, <2>2, <2>4, <2>5, <2>6, <2>7 DEF Flags, Asks
<1> QED
  BY <1>1, <1>2

\* The worker that asks for a flag.
LEMMA FlagsClaimed ==
  ASSUME TInv, Flags, program # "any", NEW t \in Workers, claim(t)
  PROVE  Flags'
<1>0. /\ counter[t] \in Items /\ malloc_items.free \in [Items -> {0, 1}]
      /\ counter[t] \in Nat /\ counter \in [Workers -> Nat]
  BY InRange, Types DEF claim, Store
<1>1. /\ at[t] = "claim" /\ i[t] \in Nat /\ Asks /\ UNCHANGED <<program, freeFirst, counter>>
  BY Types, ThreadsAre DEF claim, TInv, WorkerAt
<1>2. CASE malloc_items.free[counter[t]] = 0
  <2>1. /\ at' = [at EXCEPT ![t] = "free"] /\ i' = [i EXCEPT ![t] = i[t]]
        /\ malloc_items'.free = [malloc_items.free EXCEPT ![counter[t]] = 1]
    BY <1>2, Types DEF claim, Store
  <2>2. PICK to \in {"free"}, n \in Nat, c \in Nat : n = i[t] /\ c = counter[t]
    BY <1>0, <1>1
  <2>3. /\ at' = [at EXCEPT ![t] = to] /\ i' = [i EXCEPT ![t] = n]
        /\ counter' = [counter EXCEPT ![t] = c] /\ at[t] # "end"
    BY <1>0, <1>1, <2>1, <2>2
  <2>4. \A k \in Items : Marked(k)' <=> Marked(k) \/ k = counter[t]
    BY <1>1, <2>2, <2>3, MarksOne
  <2>5. \A k \in Items : ToFlag(k)' => ToFlag(k)
    BY <1>1, <2>2, <2>3, Passing
  <2>6. \A k \in Items : ToFlag(k) /\ k # index(t) => ToFlag(k)'
    BY <1>1, <2>2, <2>3, Passing
  <2>7. ~ToFlag(index(t))
    BY <1>1, Stored
  <2> QED
    BY <1>0, <1>1, <1>2, <2>1, <2>4, <2>5, <2>6, <2>7 DEF Flags, Asks
<1>3. CASE malloc_items.free[counter[t]] # 0
  <2>1. malloc_items' = malloc_items /\ nextRound(t)
    BY <1>3 DEF claim
  <2>2. PICK n \in Nat, to \in {"malloc", "end"} :
          /\ n = i[t] + 1 /\ to = IF n < NumItems THEN "malloc" ELSE "end"
          /\ i' = [i EXCEPT ![t] = n] /\ at' = [at EXCEPT ![t] = to]
    BY <1>1, <2>1, RoundEnds
  <2>3. \A k \in Items : Marked(k)' <=> Marked(k)
    BY <1>1, <2>2, MarksNothing
  <2>4. \A k \in Items : ToFlag(k)' <=> ToFlag(k)
    BY <1>1, <2>2, Passing, Stored
  <2> QED
    BY <1>1, <2>1, <2>3, <2>4 DEF Flags, Asks
<1> QED
  BY <1>2, <1>3

\* A worker that is past FREE.
LEMMA FlagsFreed ==
  ASSUME TInv, Flags, program # "any", NEW t \in Workers, at[t] = "free", freed(t)
  PROVE  Flags'
<1>0. /\ counter[t] \in Items /\ malloc_items.free \in [Items -> {0, 1}]
      /\ counter[t] \in Nat /\ counter \in [Workers -> Nat] /\ t # Main /\ t \in Threads
      /\ i[t] \in Nat /\ First(t) \in Nat /\ index(t) = First(t) + i[t]
      /\ program # "thread_test" /\ WorkerAt(t)
  BY InRange, Types, Layout, ThreadsAre DEF Store, TInv, WorkerAt
<1>1. /\ UNCHANGED <<program, freeFirst>> /\ nextRound(t)
      /\ counter' = [counter EXCEPT ![t] = counter[t] + 1]
  BY <1>0 DEF freed
<1>2. malloc_items'.free = IF Asks THEN malloc_items.free
                           ELSE [malloc_items.free EXCEPT ![counter[t]] = 1]
  <2>1. Does.claims <=> Asks
    BY Types, AllPrograms
  <2> QED
    BY <1>0, <2>1, Types DEF freed, Store
<1>3. PICK n \in Nat, to \in {"malloc", "end"}, c \in Nat :
        /\ n = i[t] + 1 /\ to = IF n < NumItems THEN "malloc" ELSE "end"
        /\ i' = [i EXCEPT ![t] = n] /\ at' = [at EXCEPT ![t] = to]
        /\ c = counter[t] + 1
  BY <1>0, <1>1, RoundEnds
<1>4. \A k \in Items : Marked(k)' <=> Marked(k) \/ k = counter[t]
  BY <1>1, <1>3, MarksOne
<1>5. \A k \in Items : ToFlag(k)' <=> ToFlag(k)
  BY <1>1, <1>3, Passing, Stored
<1>6. Asks => Marked(counter[t])
  <2>1. First(Does.victim[t]) \in Nat
    BY Types, AllPrograms, Layout
  <2>2. First(Does.victim[t]) <= counter[t]
    BY <1>0, <2>1 DEF WorkerAt
  <2> QED
    BY <2>2 DEF Marked
<1>7. ~Asks => ~ToFlag(counter[t])
  <2> SUFFICES ASSUME ~Asks PROVE ~ToFlag(counter[t])
    OBVIOUS
  <2>1. Does.victim[t] = t
    BY <1>0, Types, Victims
  <2>2. Own(t, counter[t]) /\ counter[t] <= index(t)
    BY <1>0, <2>1, InRange DEF WorkerAt, Own
  <2>3. \A u \in Workers \ {t} : ~Own(u, counter[t])
    BY <2>2, Layout, <1>0 DEF Own
  <2>4. ~ToMalloc(counter[t])
    BY <1>0, <2>2, <2>3 DEF ToMalloc
  <2>5. ASSUME NEW u \in Workers, index(u) = counter[t], at[u] = "store" PROVE FALSE
    <3>1. at[u] # "end" /\ u # t
      BY <2>5
    <3> QED
      BY <2>3, <2>5, <3>1, OneOwner
  <2> QED
    BY <2>4, <2>5 DEF ToFlag
<1> QED
  BY <1>0, <1>1, <1>2, <1>4, <1>5, <1>6, <1>7 DEF Flags, Asks

LEMMA FlagsStep ==
  ASSUME TInv, Flags, program # "any", [TestNext]_allVars
  PROVE  Flags'
<1>1. ASSUME UNCHANGED test PROVE Flags'
  BY <1>1, FlagsSame DEF test
<1>2. ASSUME NEW t \in Workers, callFree(t), freed(t) PROVE Flags'
  BY <1>2, FlagsFreed DEF callFree, freesNext
<1>3. ASSUME NEW t \in Workers, freeReturns(t) PROVE Flags'
  BY <1>3, FlagsFreed DEF freeReturns
<1>4. ASSUME join \/ passOver \/ callFree(Main) \/ freeReturns(Main) PROVE Flags'
  <2>1. CASE UNCHANGED test
    BY <1>1, <2>1
  <2>2. ASSUME nextRound(Main) PROVE \A u \in Workers : at'[u] = at[u] /\ i'[u] = i[u]
    BY <2>2, Types, ThreadsAre DEF nextRound
  <2>3. CASE join
    <3>1. \A u \in Workers : at'[u] = at[u] /\ i'[u] = i[u]
      BY <2>3, Types, ThreadsAre DEF join
    <3> QED
      BY <2>3, <3>1, FlagsSame DEF join
  <2>4. CASE passOver
    BY <2>2, <2>4, FlagsSame DEF passOver
  <2>5. CASE freed(Main)
    BY <2>2, <2>5, FlagsSame DEF freed
  <2> QED
    BY <1>4, <2>1, <2>3, <2>4, <2>5 DEF callFree, freeReturns
<1>5. ASSUME NEW t \in Workers, callFree(t) PROVE Flags'
  BY <1>1, <1>2, <1>5 DEF callFree
<1>6. ASSUME NEW t \in Workers, callMalloc(t) PROVE Flags'
  BY <1>1, <1>6 DEF callMalloc
<1> QED
  BY <1>1, <1>3, <1>4, <1>5, <1>6, FlagsStored, FlagsClaimed
     DEF TestNext, AnyStep, WorkerStep, MainStep, allVars

\* A worker that is about to malloc an item: nobody has freed that.
LEMMA NotFreedYet ==
  ASSUME TInv, Flags, program # "any", NEW t \in Workers, at[t] = "malloc"
  PROVE  ~Freed(index(t))
<1> DEFINE k == index(t)
<1>1. k \in Items /\ k \in Nat /\ ToFlag(k) /\ Own(t, k)
  BY InRange, OneOwner, Layout DEF ToFlag, ToMalloc, Items
<1>2. ~Marked(k)
  BY <1>1 DEF Flags
<1>3. ASSUME NEW u \in Workers, First(Does.victim[u]) <= k,
             k < counter[u] \/ (pc[u] \in FreePCs /\ k = counter[u])
      PROVE  FALSE
  <2>1. ~(k < counter[u])
    BY <1>2, <1>3 DEF Marked
  <2>2. at[u] = "free" /\ ~Asks /\ k = counter[u] /\ WorkerAt(u) /\ u # t
    BY <1>2, <1>3, <2>1, ThreadsAre DEF TInv, CallAt, freesNext, Marked
  <2>3. Does.victim[u] = u
    BY <2>2, Types, Victims DEF WorkerAt
  <2>4. counter[u] < First(u) + NumItems
    BY <2>2, <2>3, InRange
  <2> QED
    BY <1>1, <1>3, <2>2, <2>3, <2>4, Layout DEF Own
<1>4. at[Main] = "join" /\ i[Main] = 0 /\ pc[Main] \notin FreePCs
  BY ThreadsAre DEF TInv, MainAt, CallAt, freesNext
<1> QED
  BY <1>1, <1>3, <1>4 DEF Freed, WorkerFreed, MainFreed

\* What a worker is about to free nobody has freed.
LEMMA WorkerFreesOnce ==
  ASSUME TInv, program # "any", NEW t \in Workers, at[t] = "free", pc[t] \notin FreePCs
  PROVE  ~Freed(counter[t])
<1> DEFINE k == counter[t]
<1>1. /\ k \in Items /\ k \in Nat /\ WorkerAt(t) /\ program # "thread_test"
      /\ First(Does.victim[t]) <= k /\ k < First(Does.victim[t]) + NumItems
      /\ Does.victim[t] \in Workers
  <2>1. k \in Items /\ k \in Nat /\ WorkerAt(t) /\ k < First(Does.victim[t]) + NumItems
    BY InRange, Types, ThreadsAre DEF TInv
  <2>2. program # "thread_test" /\ Does.victim[t] \in Workers
    BY <2>1, Types, AllPrograms DEF WorkerAt
  <2>3. First(Does.victim[t]) \in Nat
    BY <2>2, Layout
  <2> QED
    BY <2>1, <2>2, <2>3 DEF WorkerAt
<1>2. ASSUME NEW u \in Workers, First(Does.victim[u]) <= k,
             k < counter[u] \/ (pc[u] \in FreePCs /\ k = counter[u])
      PROVE  FALSE
  <2>1. u # t
    BY <1>1, <1>2
  <2>2. Does.victim[u] # Does.victim[t] /\ Does.victim[u] \in Workers
    BY <1>1, <2>1, Types, Victims, AllPrograms
  <2>3. WorkerAt(u) /\ i[u] \in Nat /\ i[u] <= NumItems /\ counter[u] \in Nat
    BY Types, ThreadsAre DEF TInv
  <2>4. counter[u] <= First(Does.victim[u]) + i[u] /\ First(Does.victim[u]) \in Nat
    BY <1>1, <2>2, <2>3, Layout DEF WorkerAt
  <2>5. k < First(Does.victim[u]) + NumItems
    <3>1. CASE k < counter[u]
      BY <1>1, <2>3, <2>4, <3>1, Layout
    <3>2. CASE pc[u] \in FreePCs /\ k = counter[u]
      BY <3>2, InRange, ThreadsAre DEF TInv, CallAt, freesNext
    <3> QED
      BY <1>2, <3>1, <3>2
  <2> QED
    BY <1>1, <1>2, <2>2, <2>4, <2>5, Layout
<1>3. at[Main] = "join" /\ i[Main] = 0 /\ pc[Main] \notin FreePCs
  BY ThreadsAre DEF TInv, MainAt, CallAt, freesNext
<1> QED
  BY <1>1, <1>2, <1>3 DEF Freed, WorkerFreed, MainFreed

\* What main is about to free nobody has freed.
LEMMA MainFreesOnce ==
  ASSUME TInv, Flags, program # "any", freesNext(Main), pc[Main] \notin FreePCs
  PROVE  ~Freed(i[Main])
<1>1. /\ at[Main] = "free" /\ i[Main] \in Items /\ i[Main] \in Nat
      /\ malloc_items.free[i[Main]] \in Does.mainFrees
      /\ \A u \in Workers : at[u] = "end" /\ pc[u] \notin FreePCs
  BY InRange, Types, ThreadsAre DEF freesNext, TInv, MainAt, CallAt
<1>2. ~MainFreed(i[Main])
  BY <1>1 DEF MainFreed
<1>3. ASSUME NEW u \in Workers, First(Does.victim[u]) <= i[Main], i[Main] < counter[u]
      PROVE  FALSE
  <2>1. program # "thread_test"
    <3>1. program = "thread_test" => counter[u] = 0
      BY ThreadsAre DEF TInv, WorkerAt
    <3> QED
      BY <1>1, <1>3, <3>1
  <2>2. malloc_items.free[i[Main]] = 1
    BY <1>1, <1>3 DEF Flags, Marked
  <2>3. Does.mainFrees \subseteq {0}
    BY <2>1, Types, ThreadTestsAssumption DEF Does, thread_test_malloc_free,
       thread_test_malloc_free_change_thread, thread_test_measurement
  <2> QED
    BY <1>1, <2>2, <2>3
<1> QED
  BY <1>1, <1>2, <1>3 DEF Freed, WorkerFreed

\* What the step of a worker, in its loop or in FREE, frees.
LEMMA WorkerFrees ==
  ASSUME TInv, program # "any", NEW t \in Workers, NEW c \in Nat, at[t] # "end",
         UNCHANGED program, counter' = [counter EXCEPT ![t] = c], i'[Main] = i[Main],
         \A u \in Threads \ {t} : pc'[u] = pc[u]
  PROVE  /\ \/ c = counter[t] /\ (pc'[t] \in FreePCs <=> pc[t] \in FreePCs)
            \/ c = counter[t] + 1 /\ pc[t] \in FreePCs /\ pc'[t] \notin FreePCs
            => \A k \in Items : Freed(k)' <=> Freed(k)
         /\ /\ at[t] = "free" /\ pc[t] \notin FreePCs
            /\ \/ c = counter[t] + 1 /\ pc'[t] \notin FreePCs
               \/ c = counter[t] /\ pc'[t] \in FreePCs
            => \A k \in Items : Freed(k)' <=> Freed(k) \/ k = counter[t]
<1>0. Does' = Does
  BY DEF Does
<1>1. at[Main] = "join" /\ i[Main] = 0 /\ pc[Main] \notin FreePCs /\ pc'[Main] = pc[Main]
  BY ThreadsAre DEF TInv, MainAt, CallAt, freesNext
<1>2. \A k \in Items : k \in Nat /\ ~MainFreed(k) /\ ~MainFreed(k)'
  BY <1>1, Layout DEF MainFreed, Items
<1>3. /\ counter'[t] = c /\ counter[t] \in Nat
      /\ \A u \in Workers \ {t} : counter'[u] = counter[u] /\ pc'[u] = pc[u]
  BY ThreadsAre, Types
<1>4. at[t] = "free" => First(Does.victim[t]) <= counter[t]
  <2> SUFFICES ASSUME at[t] = "free" PROVE First(Does.victim[t]) <= counter[t]
    OBVIOUS
  <2>1. WorkerAt(t) /\ program # "thread_test"
    BY ThreadsAre DEF TInv, WorkerAt
  <2>2. First(Does.victim[t]) \in Nat
    BY Types, AllPrograms, Layout
  <2> QED
    BY <1>3, <2>1, <2>2 DEF WorkerAt
<1> DEFINE others(k) == \E u \in Workers \ {t} :
                          /\ First(Does.victim[u]) <= k
                          /\ k < counter[u] \/ (pc[u] \in FreePCs /\ k = counter[u])
           before(k) == k < counter[t] \/ (pc[t] \in FreePCs /\ k = counter[t])
           after(k)  == k < c \/ (pc'[t] \in FreePCs /\ k = c)
<1>5. \A k \in Items : Freed(k) <=> others(k) \/ (First(Does.victim[t]) <= k /\ before(k))
  BY <1>2 DEF Freed, WorkerFreed
<1>6. \A k \in Items : Freed(k)' <=> others(k) \/ (First(Does.victim[t]) <= k /\ after(k))
  BY <1>0, <1>2, <1>3 DEF Freed, WorkerFreed, First
<1>7. ASSUME \/ c = counter[t] /\ (pc'[t] \in FreePCs <=> pc[t] \in FreePCs)
             \/ c = counter[t] + 1 /\ pc[t] \in FreePCs /\ pc'[t] \notin FreePCs
      PROVE  \A k \in Items : Freed(k)' <=> Freed(k)
  <2>1. \A k \in Items : after(k) <=> before(k)
    BY <1>2, <1>3, <1>7
  <2> QED
    BY <1>5, <1>6, <2>1
<1>8. ASSUME at[t] = "free", pc[t] \notin FreePCs,
             \/ c = counter[t] + 1 /\ pc'[t] \notin FreePCs
             \/ c = counter[t] /\ pc'[t] \in FreePCs
      PROVE  \A k \in Items : Freed(k)' <=> Freed(k) \/ k = counter[t]
  <2>1. \A k \in Items : after(k) <=> before(k) \/ k = counter[t]
    BY <1>2, <1>3, <1>8
  <2> HIDE DEF others, after, before
  <2> QED
    BY <1>4, <1>5, <1>6, <1>8, <2>1
<1> QED
  BY <1>7, <1>8

\* What a step of main frees.
LEMMA MainFrees ==
  ASSUME TInv, program # "any", NEW n \in Nat, i'[Main] = n,
         UNCHANGED <<program, malloc_items, counter>>, \A u \in Workers : pc'[u] = pc[u]
  PROVE  /\ \/ n = i[Main] /\ (pc'[Main] \in FreePCs <=> pc[Main] \in FreePCs)
            \/ n = i[Main] + 1 /\ pc[Main] \in FreePCs /\ pc'[Main] \notin FreePCs
            \/ /\ n = i[Main] + 1 /\ at[Main] = "free" /\ ~freesNext(Main)
               /\ pc'[Main] \notin FreePCs
            => \A k \in Items : Freed(k)' <=> Freed(k)
         /\ /\ freesNext(Main) /\ pc[Main] \notin FreePCs
            /\ \/ n = i[Main] + 1 /\ pc'[Main] \notin FreePCs
               \/ n = i[Main] /\ pc'[Main] \in FreePCs
            => \A k \in Items : Freed(k)' <=> Freed(k) \/ k = i[Main]
<1>0. Does' = Does
  BY DEF Does
<1>1. i[Main] \in Nat /\ (pc[Main] \in FreePCs => freesNext(Main))
  BY Types, ThreadsAre DEF TInv, CallAt
<1>2. \A k \in Items : k \in Nat /\ (WorkerFreed(k)' <=> WorkerFreed(k))
  BY <1>0, Layout DEF WorkerFreed, First, Items
<1>3. freesNext(Main) => malloc_items.free[i[Main]] \in Does.mainFrees
  BY DEF freesNext
<1>4. at[Main] = "free" /\ ~freesNext(Main) => malloc_items.free[i[Main]] \notin Does.mainFrees
  BY DEF freesNext
<1> DEFINE before(k) == k < i[Main] \/ (pc[Main] \in FreePCs /\ k = i[Main])
           after(k)  == k < n \/ (pc'[Main] \in FreePCs /\ k = n)
<1>5. \A k \in Items : /\ MainFreed(k) <=> malloc_items.free[k] \in Does.mainFrees /\ before(k)
                       /\ MainFreed(k)' <=> malloc_items.free[k] \in Does.mainFrees /\ after(k)
  BY <1>0 DEF MainFreed
<1>6. ASSUME \/ n = i[Main] /\ (pc'[Main] \in FreePCs <=> pc[Main] \in FreePCs)
             \/ n = i[Main] + 1 /\ pc[Main] \in FreePCs /\ pc'[Main] \notin FreePCs
      PROVE  \A k \in Items : Freed(k)' <=> Freed(k)
  <2>1. \A k \in Items : after(k) <=> before(k)
    BY <1>1, <1>2, <1>6
  <2> QED
    BY <1>2, <1>5, <2>1 DEF Freed
<1>7. ASSUME n = i[Main] + 1, at[Main] = "free", ~freesNext(Main), pc'[Main] \notin FreePCs
      PROVE  \A k \in Items : Freed(k)' <=> Freed(k)
  <2>1. \A k \in Items : after(k) <=> before(k) \/ k = i[Main]
    BY <1>1, <1>2, <1>7
  <2> QED
    BY <1>2, <1>4, <1>5, <1>7, <2>1 DEF Freed
<1>8. ASSUME freesNext(Main), pc[Main] \notin FreePCs,
             \/ n = i[Main] + 1 /\ pc'[Main] \notin FreePCs
             \/ n = i[Main] /\ pc'[Main] \in FreePCs
      PROVE  \A k \in Items : Freed(k)' <=> Freed(k) \/ k = i[Main]
  <2>1. \A k \in Items : after(k) <=> before(k) \/ k = i[Main]
    BY <1>1, <1>2, <1>8
  <2> QED
    BY <1>2, <1>3, <1>5, <1>8, <2>1 DEF Freed
<1> QED
  BY <1>6, <1>7, <1>8

-----------------------------------------------------------------------------
(***************************************************************************)
(* The regions: r is the block malloc has returned for each item, so far   *)
(* NULL.                                                                   *)
(***************************************************************************)

\* Every region is a block of the item's size, no two items' are the same, and what the
\* allocator takes for held is that of an item.  Such an item has not been freed, but
\* for one that was freed before its address was known, or whose pointer did not come
\* through the call of MALLOC.
Regions(r) ==
  /\ \A k \in Items : r[k] # NULL =>
       /\ r[k] \in mem.blocks /\ mem.dataSize[r[k]] = malloc_items.bytes[k]
       /\ \A j \in Items \ {k} : r[j] # r[k]
       /\ ~Freed(k) => asked[r[k]] # 0
  /\ \A t \in Threads, k \in Items : HasNew(t) => ptr[t] # r[k]
  /\ \A b \in Addr : asked[b] # 0 =>
       \E k \in Items : r[k] = b /\ (Freed(k) /\ Survives(b) => Asks /\ freeFirst)

\* What malloc_items holds of that.
Addresses(r) ==
  /\ \A k \in Items : ToMalloc(k) => r[k] = NULL
  /\ \A k \in Items : malloc_items.address[k] \in {asStored(r[k]), NULL}
  /\ \A k \in Items : \/ malloc_items.address[k] = asStored(r[k])
                      \/ freeFirst /\ \E t \in Workers : index(t) = k /\ at[t] = "store"
  /\ \A t \in Workers : at[t] = "store" => got[t] = asStored(r[index(t)])

Holding(r) == Regions(r) /\ Addresses(r)

\* No malloc returns, and no FREE is called.
LEMMA RegionsKept ==
  ASSUME NEW r \in [Items -> Ptr], Regions(r),
         malloc_items'.bytes = malloc_items.bytes, UNCHANGED <<version, program, freeFirst>>,
         mem.blocks \subseteq mem'.blocks,
         \A b \in mem.blocks : mem'.dataSize[b] = mem.dataSize[b],
         \A u \in Threads : HasNew(u)' =>
           (HasNew(u) /\ ptr'[u] = ptr[u]) \/ ptr'[u] \notin mem.blocks,
         asked' = asked, \A k \in Items : Freed(k)' <=> Freed(k)
  PROVE  Regions(r)'
<1>1. \A k \in Items : r[k] # NULL =>
        /\ r[k] \in mem'.blocks /\ mem'.dataSize[r[k]] = malloc_items'.bytes[k]
        /\ \A j \in Items \ {k} : r[j] # r[k]
        /\ ~Freed(k)' => asked'[r[k]] # 0
  BY DEF Regions
<1>2. ASSUME NEW u \in Threads, NEW k \in Items, HasNew(u)' PROVE ptr'[u] # r[k]
  <2>1. ptr'[u] # NULL
    BY <1>2 DEF HasNew
  <2> QED
    BY <1>2, <2>1 DEF Regions
<1>3. (Asks' <=> Asks) /\ \A b \in Addr : Survives(b)' <=> Survives(b)
  BY DEF Asks, Survives
<1>4. \A b \in Addr : asked'[b] # 0 =>
        \E k \in Items : r[k] = b /\ (Freed(k)' /\ Survives(b)' => Asks' /\ freeFirst')
  BY <1>3 DEF Regions
<1> QED
  BY <1>1, <1>2, <1>4 DEF Regions

\* FREE is called for item n, and gives back the block at address.
LEMMA RegionsFreed ==
  ASSUME NEW r \in [Items -> Ptr], Regions(r), NEW n \in Items,
         asked \in [Addr -> Sizes \cup {0}],
         malloc_items'.bytes = malloc_items.bytes, UNCHANGED <<version, program, freeFirst, mem>>,
         \A u \in Threads : HasNew(u)' => HasNew(u) /\ ptr'[u] = ptr[u],
         NEW address \in {r[n], NULL},
         address = r[n] \/ (Asks /\ freeFirst) \/ ~Survives(r[n]),
         asked' = IF address = NULL THEN asked ELSE [asked EXCEPT ![address] = 0],
         \A k \in Items : Freed(k)' <=> Freed(k) \/ k = n
  PROVE  Regions(r)'
<1>1. ASSUME NEW k \in Items, r[k] # NULL
      PROVE  /\ r[k] \in mem'.blocks /\ mem'.dataSize[r[k]] = malloc_items'.bytes[k]
             /\ \A j \in Items \ {k} : r[j] # r[k]
             /\ ~Freed(k)' => asked'[r[k]] # 0
  <2>1. k # n => address # r[k]
    BY <1>1 DEF Regions
  <2>2. ~Freed(k)' => asked[r[k]] # 0 /\ k # n
    BY <1>1 DEF Regions
  <2>3. k # n => asked'[r[k]] = asked[r[k]]
    BY <1>1, <2>1 DEF Ptr
  <2> QED
    BY <1>1, <2>2, <2>3 DEF Regions
<1>2. \A u \in Threads, k \in Items : HasNew(u)' => ptr'[u] # r[k]
  BY DEF Regions
<1>3. (Asks' <=> Asks) /\ \A b \in Addr : Survives(b)' <=> Survives(b)
  BY DEF Asks, Survives
<1>4. ASSUME NEW b \in Addr, asked'[b] # 0
      PROVE  \E k \in Items : r[k] = b /\ (Freed(k)' /\ Survives(b)' => Asks' /\ freeFirst')
  <2>1. asked[b] # 0 /\ b # address
    BY <1>4 DEF Addr, NULL
  <2>2. PICK k \in Items : r[k] = b /\ (Freed(k) /\ Survives(b) => Asks /\ freeFirst)
    BY <2>1 DEF Regions
  <2>3. k = n /\ Survives(b) => Asks /\ freeFirst
    BY <2>1, <2>2
  <2> QED
    BY <1>3, <2>2, <2>3
<1> QED
  BY <1>1, <1>2, <1>4 DEF Regions

\* Thread t's malloc returns b for its item.
LEMMA RegionsReturned ==
  ASSUME NEW r \in [Items -> Ptr], Regions(r), NEW n \in Items, NEW t \in Threads,
         asked \in [Addr -> Sizes \cup {0}],
         NEW b \in Ptr, NEW size, size # 0, r[n] = NULL,
         malloc_items'.bytes = malloc_items.bytes, UNCHANGED <<version, program, freeFirst, mem>>,
         b # NULL => /\ b \in mem.blocks /\ mem.dataSize[b] = malloc_items.bytes[n]
                     /\ \A k \in Items : r[k] # b
                     /\ \A u \in Threads \ {t} : HasNew(u) => ptr[u] # b,
         ~HasNew(t)', \A u \in Threads \ {t} : HasNew(u)' => HasNew(u) /\ ptr'[u] = ptr[u],
         asked' = IF b = NULL THEN asked ELSE [asked EXCEPT ![b] = size],
         ~Freed(n), \A k \in Items : Freed(k)' <=> Freed(k)
  PROVE  Regions([r EXCEPT ![n] = b])'
<1> DEFINE s == [r EXCEPT ![n] = b]
<1>0. s[n] = b /\ \A k \in Items \ {n} : s[k] = r[k]
  OBVIOUS
<1>1. ASSUME NEW k \in Items, s[k] # NULL
      PROVE  /\ s[k] \in mem'.blocks /\ mem'.dataSize[s[k]] = malloc_items'.bytes[k]
             /\ \A j \in Items \ {k} : s[j] # s[k]
             /\ ~Freed(k)' => asked'[s[k]] # 0
  <2>1. CASE k = n
    <3>1. b # NULL /\ b \in Addr
      BY <1>0, <1>1, <2>1 DEF Ptr
    <3>2. asked'[b] = size
      BY <3>1
    <3> QED
      BY <1>0, <2>1, <3>1, <3>2
  <2>2. CASE k # n
    <3>1. /\ s[k] = r[k] /\ r[k] # NULL /\ r[k] # b /\ r[k] \in Addr
      BY <1>0, <1>1, <2>2 DEF Ptr
    <3>2. asked'[r[k]] = asked[r[k]]
      BY <3>1
    <3>3. \A j \in Items \ {k} : s[j] # s[k]
      BY <1>0, <3>1 DEF Regions
    <3> QED
      BY <3>1, <3>2, <3>3 DEF Regions
  <2> QED
    BY <2>1, <2>2
<1>2. ASSUME NEW u \in Threads, NEW k \in Items, HasNew(u)' PROVE ptr'[u] # s[k]
  <2>1. u # t /\ HasNew(u) /\ ptr'[u] = ptr[u] /\ ptr[u] # NULL
    BY <1>2 DEF HasNew
  <2> QED
    BY <1>0, <2>1 DEF Regions
<1>3. (Asks' <=> Asks) /\ \A a \in Addr : Survives(a)' <=> Survives(a)
  BY DEF Asks, Survives
<1>4. ASSUME NEW a \in Addr, asked'[a] # 0
      PROVE  \E k \in Items : s[k] = a /\ (Freed(k)' /\ Survives(a)' => Asks' /\ freeFirst')
  <2>1. CASE a = b
    BY <1>0, <2>1
  <2>2. CASE a # b
    <3>1. asked[a] # 0
      BY <1>4, <2>2
    <3>2. PICK k \in Items : r[k] = a /\ (Freed(k) /\ Survives(a) => Asks /\ freeFirst)
      BY <3>1 DEF Regions
    <3>3. k # n
      BY <3>2 DEF Addr, NULL
    <3> QED
      BY <1>0, <1>3, <3>2, <3>3
  <2> QED
    BY <2>1, <2>2
<1> HIDE DEF s
<1>5. Regions(s)'
  BY <1>1, <1>2, <1>4 DEF Regions
<1> QED
  BY <1>5 DEF s

LEMMA AddressesKept ==
  ASSUME TInv, program # "any", NEW r \in [Items -> Ptr], Addresses(r), UNCHANGED <<version, freeFirst, got>>,
         malloc_items'.address = malloc_items.address,
         \A k \in Items : ToMalloc(k)' => ToMalloc(k),
         \A u \in Workers : /\ at'[u] = "store" <=> at[u] = "store"
                            /\ at[u] = "store" => index(u)' = index(u)
  PROVE  Addresses(r)'
<1>1. \A b \in Ptr : asStored(b)' = asStored(b)
  BY DEF asStored, Survives
<1>2. \A k \in Items : asStored(r[k])' = asStored(r[k])
  BY <1>1
<1>3. \A k \in Items : malloc_items'.address[k] \in {asStored(r[k])', NULL}
  BY <1>2 DEF Addresses
<1>4. \A k \in Items : \/ malloc_items'.address[k] = asStored(r[k])'
                       \/ freeFirst' /\ \E t \in Workers : index(t)' = k /\ at'[t] = "store"
  BY <1>2 DEF Addresses
<1>5. \A t \in Workers : at'[t] = "store" => got'[t] = asStored(r[index(t)])'
  <2> SUFFICES ASSUME NEW t \in Workers, at'[t] = "store"
               PROVE  got'[t] = asStored(r[index(t)])'
    OBVIOUS
  <2>1. at[t] = "store" /\ got'[t] = got[t] /\ index(t)' = index(t)
    OBVIOUS
  <2>2. PICK k \in Items : k = index(t)
    BY <2>1, InRange
  <2> QED
    BY <1>2, <2>1, <2>2 DEF Addresses
<1> QED
  BY <1>3, <1>4, <1>5 DEF Addresses

\* The test stays where it is, and no FREE begins or ends.
LEMMA StandsStill ==
  ASSUME TInv, program # "any", NEW r \in [Items -> Ptr], Addresses(r), UNCHANGED <<version, test>>,
         \A u \in Threads : pc'[u] \in FreePCs <=> pc[u] \in FreePCs
  PROVE  Addresses(r)' /\ \A k \in Items : Freed(k)' <=> Freed(k)
<1>1. UNCHANGED <<version, program, freeFirst, malloc_items, i, counter, at, got>>
  BY DEF test
<1>2. \A u \in Workers : index(u)' = index(u)
  BY <1>1 DEF index
<1>3. \A k \in Items : ToMalloc(k)' => ToMalloc(k)
  BY <1>1, <1>2 DEF ToMalloc, Own, First
<1>4. Addresses(r)'
  BY <1>1, <1>2, <1>3, AddressesKept
<1>5. Does' = Does
  BY <1>1 DEF Does
<1>6. \A k \in Items : Freed(k)' <=> Freed(k)
  BY <1>1, <1>5, ThreadsAre DEF Freed, WorkerFreed, MainFreed, First
<1> QED
  BY <1>4, <1>6

\* A step inside a call, or the call of malloc.
LEMMA HoldingInside ==
  ASSUME TInv, MInv, program # "any", NEW r \in [Items -> Ptr], Holding(r), NEW t \in Threads,
         (Inner(t) /\ UNCHANGED test) \/ (t \in Workers /\ callMalloc(t))
  PROVE  Holding(r)'
<1>0. /\ pc \in [Threads -> PCs] /\ ptr \in [Threads -> Ptr] /\ ListsEmpty
      /\ Regions(r) /\ Addresses(r)
  BY DEF MInv, LInv, TypeOK, Holding
<1>1. ASSUME Inner(t), UNCHANGED test PROVE Holding(r)'
  <2>1. Within(t)
    BY <1>1, InnerStep
  <2>2. \A u \in Threads : pc'[u] \in FreePCs <=> pc[u] \in FreePCs
    BY <2>1 DEF Within, MallocPCs, FreePCs
  <2>a. UNCHANGED <<version, test>>
    BY <1>1, <2>1 DEF Within
  <2>3. Addresses(r)' /\ \A k \in Items : Freed(k)' <=> Freed(k)
    BY <1>0, <2>2, <2>a, StandsStill
  <2>4. UNCHANGED <<version, program, freeFirst, malloc_items>>
    BY <2>a DEF test
  <2>5. /\ mem.blocks \subseteq mem'.blocks
        /\ \A b \in mem.blocks : mem'.dataSize[b] = mem.dataSize[b]
        /\ \A u \in Threads : HasNew(u)' =>
             (HasNew(u) /\ ptr'[u] = ptr[u]) \/ ptr'[u] \notin mem.blocks
        /\ asked' = asked
    BY <2>1 DEF Within
  <2>6. Regions(r)'
    BY <1>0, <2>3, <2>4, <2>5, RegionsKept
  <2> QED
    BY <2>3, <2>6 DEF Holding
<1>2. ASSUME t \in Workers, callMalloc(t) PROVE Holding(r)'
  <2> DEFINE bytes == malloc_items.bytes[index(t)]
  <2>1. PICK to \in {"malloc_lock", "sbrk_lock"} :
          /\ pc' = [pc EXCEPT ![t] = to] /\ pc[t] = "idle"
          /\ \A u \in Threads \ {t} : ptr'[u] = ptr[u]
          /\ UNCHANGED <<asked, mem, version, test>>
    <3>1. CASE ts_malloc_lock(t, bytes)
      BY <1>2, <3>1 DEF callMalloc, ts_malloc_lock, Call, Goto
    <3>2. CASE ts_malloc_nolock(t, bytes)
      <4>1. findBestFit(mem, ts_nolockHead[t], bytes) = NULL
        BY <1>0, NothingFits DEF ListsEmpty
      <4>2. /\ Call(t, bytes, "sbrk_lock") /\ mem' = mem
            /\ ptr' = [ptr EXCEPT ![t] = NULL]
        BY <3>2, <4>1 DEF ts_malloc_nolock
      <4> QED
        BY <1>0, <1>2, <4>2 DEF callMalloc, Call, Goto
    <3> QED
      BY <1>2, <3>1, <3>2 DEF callMalloc
  <2>2. \A u \in Threads : pc'[u] \in FreePCs <=> pc[u] \in FreePCs
    BY <1>0, <2>1 DEF FreePCs
  <2>3. Addresses(r)' /\ \A k \in Items : Freed(k)' <=> Freed(k)
    BY <1>0, <2>1, <2>2, StandsStill
  <2>4. UNCHANGED <<version, program, freeFirst, malloc_items>>
    BY <2>1 DEF test
  <2>5. \A u \in Threads : HasNew(u)' => (HasNew(u) /\ ptr'[u] = ptr[u])
    BY <1>0, <2>1 DEF HasNew
  <2>6. Regions(r)'
    BY <1>0, <2>1, <2>3, <2>4, <2>5, RegionsKept
  <2> QED
    BY <2>3, <2>6 DEF Holding
<1> QED
  BY <1>1, <1>2

\* malloc returns.
LEMMA HoldingReturned ==
  ASSUME TInv, MInv, Flags, program # "any", NEW r \in [Items -> Ptr], Holding(r),
         NEW t \in Workers, mallocReturns(t)
  PROVE  \E s \in [Items -> Ptr] : Holding(s)'
<1>0. /\ pc \in [Threads -> PCs] /\ ptr \in [Threads -> Ptr] /\ Regions(r) /\ Addresses(r)
      /\ asked \in [Addr -> Sizes \cup {0}]
  BY DEF MInv, LInv, TypeOK, Holding
<1>a. PICK n \in Items, b \in Ptr : n = index(t) /\ b = ptr[t]
  BY <1>0, ThreadsAre, InRange DEF mallocReturns
<1> DEFINE s == [r EXCEPT ![n] = b]
<1>1. /\ at[t] = "malloc" /\ at' = [at EXCEPT ![t] = "store"] /\ t \in Threads
      /\ pc[t] = "return" /\ pc' = [pc EXCEPT ![t] = "idle"] /\ i[t] \in Nat
      /\ asked' = IF b = NULL THEN asked ELSE [asked EXCEPT ![b] = req[t]]
      /\ ptr' = [ptr EXCEPT ![t] = NULL] /\ got' = [got EXCEPT ![t] = asStored(b)]
      /\ UNCHANGED <<version, program, freeFirst, i, counter, mem>>
  BY <1>a, ThreadsAre, InRange DEF mallocReturns, returnMalloc, Hand, Goto
<1>2. /\ malloc_items'.bytes = malloc_items.bytes
      /\ malloc_items'.address = IF freeFirst THEN malloc_items.address
                                 ELSE [malloc_items.address EXCEPT ![n] = asStored(b)]
  BY <1>a, Types DEF mallocReturns, Store
<1>3. req[t] \in Sizes /\ req[t] # 0 /\ req[t] = malloc_items.bytes[n]
  <2>1. CallAt(t) /\ pc[t] \in MallocPCs
    BY <1>1 DEF TInv, MallocPCs
  <2>2. req[t] \in Sizes
    BY <1>1, <2>1 DEF MInv
  <2> QED
    BY <1>a, <2>1, <2>2, TsMallocAssumption DEF CallAt
<1>4. ~Freed(n) /\ ToMalloc(n)
  BY <1>a, <1>1, NotFreedYet, OneOwner DEF ToMalloc
<1>5. r[n] = NULL
  BY <1>0, <1>1, <1>4 DEF Addresses
<1>6. \A k \in Items : Freed(k)' <=> Freed(k)
  <2>1. PICK c \in Nat : c = counter[t]
    BY Types
  <2>2. counter' = [counter EXCEPT ![t] = c] /\ i'[Main] = i[Main] /\ at[t] # "end"
    BY <1>1, <2>1, Types
  <2>3. (pc'[t] \in FreePCs <=> pc[t] \in FreePCs) /\ \A u \in Threads \ {t} : pc'[u] = pc[u]
    BY <1>0, <1>1 DEF FreePCs
  <2> QED
    BY <1>1, <2>1, <2>2, <2>3, WorkerFrees
<1>7. \A k \in Items : ToMalloc(k)' <=> ToMalloc(k) /\ n # k
  <2>1. PICK to \in {"store"}, j \in Nat : j = i[t]
    BY <1>1
  <2>2. at' = [at EXCEPT ![t] = to] /\ i' = [i EXCEPT ![t] = j] /\ at[t] # "end"
    BY <1>1, <2>1, Types
  <2>3. \A k \in Items : ToMalloc(k)' <=> ToMalloc(k) /\ (index(t) = k => at[t] # "malloc")
    BY <1>1, <2>1, <2>2, Passing
  <2> QED
    BY <1>a, <1>1, <2>3
<1>8. Regions(s)'
  <2>1. b # NULL => /\ b \in mem.blocks
                         /\ mem.dataSize[b] = malloc_items.bytes[n]
                         /\ \A k \in Items : r[k] # b
                         /\ \A u \in Threads \ {t} : HasNew(u) => ptr[u] # b
    <3> SUFFICES ASSUME b # NULL
                 PROVE  /\ b \in mem.blocks
                        /\ mem.dataSize[b] = malloc_items.bytes[n]
                        /\ \A k \in Items : r[k] # b
                        /\ \A u \in Threads \ {t} : HasNew(u) => ptr[u] # b
      OBVIOUS
    <3>1. HasNew(t) /\ Has(t)
      BY <1>a, <1>1 DEF HasNew, Has
    <3>2. \A u \in Threads : HasNew(u) => Has(u)
      BY DEF Has
    <3> QED
      BY <1>a, <1>0, <1>1, <1>3, <3>1, <3>2 DEF MInv, HandsApart, Regions
  <2>2. /\ ~HasNew(t)'
        /\ \A u \in Threads \ {t} : HasNew(u)' => HasNew(u) /\ ptr'[u] = ptr[u]
    BY <1>0, <1>1 DEF HasNew
  <2> QED
    <3> DEFINE size == req[t]
    <3>1. size # 0 /\ asked' = IF b = NULL THEN asked ELSE [asked EXCEPT ![b] = size]
      BY <1>1, <1>3
    <3>2. /\ n \in Items /\ b \in Ptr /\ t \in Threads /\ Regions(r) /\ r[n] = NULL
          /\ asked \in [Addr -> Sizes \cup {0}] /\ ~Freed(n)
          /\ malloc_items'.bytes = malloc_items.bytes
          /\ UNCHANGED <<version, program, freeFirst, mem>>
      BY <1>a, <1>0, <1>1, <1>2, <1>4, <1>5
    <3> HIDE DEF size
    <3>3. Regions([r EXCEPT ![n] = b])'
      BY <1>6, <2>1, <2>2, <3>1, <3>2, RegionsReturned
    <3> QED
      BY <3>3
<1>9. Addresses(s)'
  <2>0. s[n] = b /\ \A k \in Items \ {n} : s[k] = r[k]
    BY <1>1
  <2>1. /\ \A u \in Workers \ {t} : at'[u] = at[u] /\ got'[u] = got[u]
        /\ at'[t] = "store" /\ got'[t] = asStored(b)
        /\ \A u \in Workers : index(u)' = index(u)
    BY <1>1, Types, ThreadsAre DEF index
  <2>2. malloc_items.address[n] = NULL
    <3>1. malloc_items.address[n] \in {asStored(r[n]), NULL} /\ r[n] = NULL
      BY <1>0, <1>5 DEF Addresses
    <3> QED
      BY <3>1 DEF asStored
  <2>3. \A u \in Workers \ {t} : at[u] = "store" => index(u) # n
    BY <1>a, <1>1, OneOwner
  <2>4. \A k \in Items : ToMalloc(k)' => s[k] = NULL
    BY <1>0, <1>7, <2>0 DEF Addresses
  <2>5. /\ \A k \in Items \ {n} : malloc_items'.address[k] = malloc_items.address[k]
        /\ malloc_items'.address[n] = IF freeFirst THEN NULL ELSE asStored(b)
    BY <1>1, <1>2, <2>2, Types DEF Store
  <2>a. \A c \in Ptr : asStored(c)' = asStored(c)
    BY <1>1 DEF asStored, Survives
  <2>b. \A k \in Items \ {n} : asStored(s[k])' = asStored(r[k])
    BY <1>1, <2>0, <2>a
  <2>c. asStored(s[n])' = asStored(b)
    BY <2>0, <2>a
  <2> HIDE DEF s
  <2>6. \A k \in Items : malloc_items'.address[k] \in {asStored(s[k])', NULL}
    BY <1>0, <2>5, <2>b, <2>c DEF Addresses
  <2>7. \A k \in Items : \/ malloc_items'.address[k] = asStored(s[k])'
                         \/ freeFirst' /\ \E u \in Workers : index(u)' = k /\ at'[u] = "store"
    <3>1. ASSUME NEW k \in Items \ {n}, malloc_items'.address[k] # asStored(s[k])'
          PROVE  freeFirst' /\ \E u \in Workers : index(u)' = k /\ at'[u] = "store"
      <4>1. freeFirst /\ \E u \in Workers : index(u) = k /\ at[u] = "store"
        BY <1>0, <2>5, <2>b, <3>1 DEF Addresses
      <4> QED
        BY <1>1, <2>1, <4>1
    <3>2. \/ malloc_items'.address[n] = asStored(s[n])'
          \/ freeFirst' /\ \E u \in Workers : index(u)' = n /\ at'[u] = "store"
      BY <1>a, <1>1, <2>1, <2>5, <2>c
    <3> QED
      BY <3>1, <3>2
  <2>8. \A u \in Workers : at'[u] = "store" => got'[u] = asStored(s[index(u)])'
    <3>1. ASSUME NEW u \in Workers \ {t}, at'[u] = "store"
          PROVE  got'[u] = asStored(s[index(u)])'
      <4>1. at[u] = "store" /\ got'[u] = got[u] /\ index(u)' = index(u)
        BY <2>1, <3>1
      <4>2. PICK k \in Items \ {n} : k = index(u)
        BY <2>3, <4>1, InRange
      <4>3. got[u] = asStored(r[k])
        BY <1>0, <4>1, <4>2 DEF Addresses
      <4>4. asStored(s[k])' = asStored(r[k])
        BY <2>b
      <4> QED
        BY <4>1, <4>2, <4>3, <4>4
    <3>2. got'[t] = asStored(s[index(t)])'
      BY <1>a, <2>1, <2>c
    <3> QED
      BY <3>1, <3>2
  <2> QED
    BY <2>4, <2>6, <2>7, <2>8 DEF Addresses
<1>10. s \in [Items -> Ptr]
  BY <1>0, <1>1
<1> QED
  BY <1>8, <1>9, <1>10 DEF Holding

\* A worker that is in no call goes on in its loop, and no FREE is called.
LEMMA WorkerHolds ==
  ASSUME TInv, program # "any", NEW r \in [Items -> Ptr], Regions(r), NEW t \in Workers,
         at[t] # "end", UNCHANGED <<vars, program, freeFirst, counter>>,
         i'[Main] = i[Main], malloc_items'.bytes = malloc_items.bytes
  PROVE  Regions(r)'
<1>1. PICK c \in Nat : c = counter[t]
  BY Types
<1>2. counter' = [counter EXCEPT ![t] = c]
  BY <1>1, Types
<1>3. UNCHANGED <<version, mem, asked, pc, ptr>>
  BY DEF vars, client
<1>4. \A k \in Items : Freed(k)' <=> Freed(k)
  BY <1>1, <1>2, <1>3, WorkerFrees
<1>5. \A u \in Threads : HasNew(u)' => HasNew(u) /\ ptr'[u] = ptr[u]
  BY <1>3 DEF HasNew
<1> QED
  BY <1>3, <1>4, <1>5, RegionsKept

LEMMA HoldingStored ==
  ASSUME TInv, program # "any", NEW r \in [Items -> Ptr], Holding(r),
         NEW t \in Workers, store(t)
  PROVE  Holding(r)'
<1>0. Regions(r) /\ Addresses(r) /\ t # Main /\ t \in Threads /\ i[t] \in Nat
  BY ThreadsAre, Types DEF Holding
<1>1. PICK n \in Items : n = index(t)
  BY InRange DEF store
<1>2. /\ at[t] = "store" /\ got' = [got EXCEPT ![t] = NULL]
      /\ UNCHANGED <<vars, program, freeFirst, counter>>
  BY DEF store
<1>3. /\ malloc_items'.bytes = malloc_items.bytes
      /\ malloc_items'.address = IF freeFirst THEN [malloc_items.address EXCEPT ![n] = got[t]]
                                 ELSE malloc_items.address
  BY <1>1, Types DEF store, Store
<1>4. PICK to \in {"claim", "free", "malloc", "end"}, j \in Nat :
        /\ at' = [at EXCEPT ![t] = to] /\ i' = [i EXCEPT ![t] = j]
        /\ \/ j = i[t] /\ to \in {"claim", "free"}
           \/ j = i[t] + 1 /\ to = IF j < NumItems THEN "malloc" ELSE "end"
  <2>1. CASE Does.frees[t][i[t]]
    <3>1. /\ i' = [i EXCEPT ![t] = i[t]]
          /\ \E to \in {"claim", "free"} : at' = [at EXCEPT ![t] = to]
      BY <2>1, Types DEF store
    <3> QED
      BY <1>0, <3>1
  <2>2. CASE ~Does.frees[t][i[t]]
    <3>1. PICK j \in Nat, to \in {"malloc", "end"} :
            /\ j = i[t] + 1 /\ to = IF j < NumItems THEN "malloc" ELSE "end"
            /\ i' = [i EXCEPT ![t] = j] /\ at' = [at EXCEPT ![t] = to]
      BY <1>2, <2>2, RoundEnds DEF store
    <3> QED
      BY <3>1
  <2> QED
    BY <2>1, <2>2
<1>5. i'[Main] = i[Main]
  BY <1>0, <1>4, Types, ThreadsAre
<1>6. Regions(r)'
  BY <1>0, <1>2, <1>3, <1>5, WorkerHolds
<1>7. \A k \in Items : ToMalloc(k)' => ToMalloc(k)
  BY <1>2, <1>4, Passing
<1>8. \A u \in Workers \ {t} : index(u)' = index(u) /\ at'[u] = at[u] /\ got'[u] = got[u]
  BY <1>0, <1>2, <1>4, Types, ThreadsAre DEF index
<1>9. at'[t] # "store"
  BY <1>0, <1>4, Types
<1>10. got[t] = asStored(r[n])
  BY <1>0, <1>1, <1>2 DEF Addresses
<1>11. /\ \A k \in Items \ {n} : malloc_items'.address[k] = malloc_items.address[k]
       /\ malloc_items'.address[n] = asStored(r[n])
  <2>1. malloc_items.address[n] = asStored(r[n]) \/ freeFirst
    BY <1>0 DEF Addresses
  <2> QED
    BY <1>3, <1>10, <2>1, Types DEF Store
<1>12. Addresses(r)'
  <2>a. \A c \in Ptr : asStored(c)' = asStored(c)
    BY <1>2 DEF asStored, Survives, vars
  <2>b. \A k \in Items : asStored(r[k])' = asStored(r[k])
    BY <2>a
  <2>1. \A k \in Items : ToMalloc(k)' => r[k] = NULL
    BY <1>0, <1>7 DEF Addresses
  <2>2. \A k \in Items : malloc_items'.address[k] \in {asStored(r[k])', NULL}
    BY <1>0, <1>11, <2>b DEF Addresses
  <2>3. \A k \in Items : \/ malloc_items'.address[k] = asStored(r[k])'
                         \/ freeFirst' /\ \E u \in Workers : index(u)' = k /\ at'[u] = "store"
    <3>1. SUFFICES ASSUME NEW k \in Items \ {n}
                   PROVE  \/ malloc_items.address[k] = asStored(r[k])
                          \/ freeFirst' /\ \E u \in Workers : index(u)' = k /\ at'[u] = "store"
      BY <1>11, <2>b
    <3>2. CASE malloc_items.address[k] = asStored(r[k])
      BY <3>2
    <3>3. CASE malloc_items.address[k] # asStored(r[k])
      <4>1. freeFirst /\ \E u \in Workers : index(u) = k /\ at[u] = "store"
        BY <1>0, <3>3 DEF Addresses
      <4>2. PICK u \in Workers \ {t} : index(u) = k /\ at[u] = "store"
        BY <1>1, <4>1
      <4> QED
        BY <1>2, <1>8, <4>1, <4>2
    <3> QED
      BY <3>2, <3>3
  <2>4. \A u \in Workers : at'[u] = "store" => got'[u] = asStored(r[index(u)])'
    <3> SUFFICES ASSUME NEW u \in Workers, at'[u] = "store" PROVE got'[u] = asStored(r[index(u)])'
      OBVIOUS
    <3>1. u # t /\ at[u] = "store" /\ got'[u] = got[u] /\ index(u)' = index(u)
      BY <1>8, <1>9
    <3>2. PICK k \in Items : k = index(u)
      BY <3>1, InRange
    <3>3. got[u] = asStored(r[k])
      BY <1>0, <3>1, <3>2 DEF Addresses
    <3> QED
      BY <2>b, <3>1, <3>2, <3>3
  <2> QED
    BY <2>1, <2>2, <2>3, <2>4 DEF Addresses
<1> QED
  BY <1>6, <1>12 DEF Holding

LEMMA HoldingClaimed ==
  ASSUME TInv, program # "any", NEW r \in [Items -> Ptr], Holding(r),
         NEW t \in Workers, claim(t)
  PROVE  Holding(r)'
<1>0. Regions(r) /\ Addresses(r) /\ t # Main /\ t \in Threads /\ i[t] \in Nat
  BY ThreadsAre, Types DEF Holding
<1>1. at[t] = "claim" /\ UNCHANGED <<vars, program, freeFirst, counter, got>>
  BY DEF claim
<1>2. /\ malloc_items'.bytes = malloc_items.bytes
      /\ malloc_items'.address = malloc_items.address
  BY Types DEF claim, Store
<1>3. PICK to \in {"free", "malloc", "end"}, j \in Nat :
        /\ at' = [at EXCEPT ![t] = to] /\ i' = [i EXCEPT ![t] = j]
        /\ \/ j = i[t] /\ to = "free"
           \/ j = i[t] + 1 /\ to = IF j < NumItems THEN "malloc" ELSE "end"
  <2>1. CASE malloc_items.free[counter[t]] = 0
    <3>1. i' = [i EXCEPT ![t] = i[t]] /\ at' = [at EXCEPT ![t] = "free"]
      BY <2>1, Types DEF claim
    <3> QED
      BY <1>0, <3>1
  <2>2. CASE malloc_items.free[counter[t]] # 0
    <3>1. PICK j \in Nat, to \in {"malloc", "end"} :
            /\ j = i[t] + 1 /\ to = IF j < NumItems THEN "malloc" ELSE "end"
            /\ i' = [i EXCEPT ![t] = j] /\ at' = [at EXCEPT ![t] = to]
      BY <1>1, <2>2, RoundEnds DEF claim
    <3> QED
      BY <3>1
  <2> QED
    BY <2>1, <2>2
<1>4. i'[Main] = i[Main]
  BY <1>0, <1>3, Types, ThreadsAre
<1>5. Regions(r)'
  BY <1>0, <1>1, <1>2, <1>4, WorkerHolds
<1>6. \A k \in Items : ToMalloc(k)' => ToMalloc(k)
  BY <1>1, <1>3, Passing
<1>7. \A u \in Workers : /\ at'[u] = "store" <=> at[u] = "store"
                         /\ at[u] = "store" => index(u)' = index(u)
  BY <1>0, <1>1, <1>3, Types, ThreadsAre DEF index
<1>8. Addresses(r)'
  <2>1. UNCHANGED version
    BY <1>1 DEF vars
  <2> QED
    BY <1>0, <1>1, <1>2, <1>6, <1>7, <2>1, AddressesKept
<1> QED
  BY <1>5, <1>8 DEF Holding

\* What malloc_items says after a FREE, and where the threads are.
LEMMA PastFree ==
  ASSUME TInv, program # "any", NEW r \in [Items -> Ptr], Addresses(r), NEW t \in Threads,
         at[t] = "free", freed(t), UNCHANGED version
  PROVE  /\ Addresses(r)' /\ malloc_items'.bytes = malloc_items.bytes
         /\ UNCHANGED <<program, freeFirst>>
         /\ t \in Workers => /\ counter' = [counter EXCEPT ![t] = counter[t] + 1]
                             /\ i'[Main] = i[Main]
         /\ t = Main => i'[Main] = i[Main] + 1 /\ UNCHANGED <<malloc_items, counter>>
<1>1. UNCHANGED <<program, freeFirst, got>> /\ nextRound(t)
  BY DEF freed
<1>2. /\ malloc_items'.bytes = malloc_items.bytes
      /\ malloc_items'.address = malloc_items.address
  BY Types DEF freed, Store
<1>3. CASE t \in Workers
  <2>1. t # Main /\ i[t] \in Nat
    BY <1>3, ThreadsAre, Types
  <2>2. counter' = [counter EXCEPT ![t] = counter[t] + 1]
    BY <2>1 DEF freed
  <2>3. PICK j \in Nat, to \in {"malloc", "end"} :
          /\ j = i[t] + 1 /\ to = IF j < NumItems THEN "malloc" ELSE "end"
          /\ i' = [i EXCEPT ![t] = j] /\ at' = [at EXCEPT ![t] = to]
    BY <1>1, <1>3, RoundEnds
  <2>4. i'[Main] = i[Main]
    BY <2>1, <2>3, Types, ThreadsAre
  <2>5. \A k \in Items : ToMalloc(k)' => ToMalloc(k)
    BY <1>1, <1>3, <2>3, Passing
  <2>6. \A u \in Workers : /\ at'[u] = "store" <=> at[u] = "store"
                           /\ at[u] = "store" => index(u)' = index(u)
    BY <2>1, <2>3, Types, ThreadsAre DEF index
  <2>7. Addresses(r)'
    BY <1>1, <1>2, <2>5, <2>6, AddressesKept
  <2> QED
    BY <1>1, <1>2, <1>3, <2>1, <2>2, <2>4, <2>7
<1>4. CASE t = Main
  <2>1. \A u \in Workers : at'[u] = at[u] /\ i'[u] = i[u]
    BY <1>1, <1>4, ThreadsAre, Types DEF nextRound
  <2>2. i'[Main] = i[Main] + 1 /\ UNCHANGED <<malloc_items, counter>>
    BY <1>1, <1>4, ThreadsAre, Types DEF nextRound, freed
  <2>3. \A u \in Workers : index(u)' = index(u)
    BY <2>1 DEF index
  <2>4. \A k \in Items : ToMalloc(k)' => ToMalloc(k)
    BY <2>1, <2>3 DEF ToMalloc, Own, First
  <2>5. Addresses(r)'
    BY <1>1, <1>2, <2>1, <2>3, <2>4, AddressesKept
  <2> QED
    BY <1>1, <1>2, <1>4, <2>2, <2>5, ThreadsAre
<1> QED
  BY <1>3, <1>4, ThreadsAre

\* FREE is called.
LEMMA HoldingFreed ==
  ASSUME TInv, MInv, Flags, program # "any", NEW r \in [Items -> Ptr], Holding(r),
         NEW t \in Threads, callFree(t)
  PROVE  Holding(r)'
<1>0. /\ pc \in [Threads -> PCs] /\ ptr \in [Threads -> Ptr] /\ asked \in [Addr -> Sizes \cup {0}]
      /\ Regions(r) /\ Addresses(r)
  BY DEF MInv, LInv, TypeOK, Holding
<1>1. PICK n \in Items : n = target(t)
  BY InRange, ThreadsAre DEF callFree, freesNext, target
<1> DEFINE stored == malloc_items.address[n]
<1>a. PICK address : address = IF stored \in Ptr THEN stored ELSE NULL
  OBVIOUS
<1>b. stored \in {asStored(r[n]), NULL} /\ r[n] \in Ptr
  BY <1>0 DEF Addresses
<1>c. address \in {r[n], NULL} /\ (version = "lock" => address = stored)
  BY <1>a, <1>b, StoredAs DEF Ptr
<1>2. /\ at[t] = "free" /\ freesNext(t) /\ GiveBack(t, address)
      /\ pc[t] = "idle" /\ UNCHANGED <<version, mem, req>>
      /\ \/ UNCHANGED test /\ pc' = [pc EXCEPT ![t] = "free_lock"]
            /\ \A u \in Threads \ {t} : ptr'[u] = ptr[u]
         \/ freed(t) /\ UNCHANGED <<pc, ptr>>
  <2>1. CASE ts_free_lock(t, malloc_items.address[target(t)]) /\ UNCHANGED test
    <3>1. address = stored
      BY <1>c, <2>1 DEF ts_free_lock
    <3> QED
      BY <1>0, <1>1, <2>1, <3>1 DEF callFree, ts_free_lock, freesNext, GiveBack, Goto
  <2>2. CASE ts_free_nolock(t, Passed(t)) /\ freed(t)
    BY <1>1, <1>a, <2>2 DEF Passed, callFree, ts_free_nolock, freesNext, GiveBack
  <2> QED
    BY <2>1, <2>2 DEF callFree, Passed
<1>3. asked' = IF address = NULL THEN asked ELSE [asked EXCEPT ![address] = 0]
  BY <1>2 DEF GiveBack
<1>4. /\ Addresses(r)' /\ malloc_items'.bytes = malloc_items.bytes
      /\ UNCHANGED <<program, freeFirst>>
  <2>1. CASE UNCHANGED test
    <3>1. UNCHANGED <<version, program, freeFirst, malloc_items, i, at, got>>
      BY <1>2, <2>1 DEF test
    <3>2. \A u \in Workers : index(u)' = index(u)
      BY <3>1 DEF index
    <3>3. \A k \in Items : ToMalloc(k)' => ToMalloc(k)
      BY <3>1, <3>2 DEF ToMalloc, Own, First
    <3> QED
      BY <1>0, <3>1, <3>2, <3>3, AddressesKept
  <2>2. CASE freed(t)
    BY <1>0, <1>2, <2>2, PastFree
  <2> QED
    BY <1>2, <2>1, <2>2
<1>5. \A k \in Items : Freed(k)' <=> Freed(k) \/ k = n
  <2>1. pc[t] \notin FreePCs /\ \A u \in Threads \ {t} : pc'[u] = pc[u]
    BY <1>0, <1>2 DEF FreePCs
  <2>2. CASE t \in Workers
    <3>1. n = counter[t] /\ counter[t] \in Nat /\ counter \in [Workers -> Nat] /\ t # Main
      BY <1>1, <2>2, Types, ThreadsAre DEF target
    <3>2. PICK c \in Nat : /\ counter' = [counter EXCEPT ![t] = c] /\ i'[Main] = i[Main]
                           /\ \/ c = counter[t] + 1 /\ pc'[t] \notin FreePCs
                              \/ c = counter[t] /\ pc'[t] \in FreePCs
      <4>1. CASE UNCHANGED test /\ pc' = [pc EXCEPT ![t] = "free_lock"]
        <5>1. counter' = [counter EXCEPT ![t] = counter[t]] /\ i'[Main] = i[Main]
          BY <3>1, <4>1 DEF test
        <5>2. pc'[t] \in FreePCs
          BY <1>0, <4>1 DEF FreePCs
        <5> QED
          BY <3>1, <5>1, <5>2
      <4>2. CASE freed(t) /\ UNCHANGED <<pc, ptr>>
        <5>1. counter' = [counter EXCEPT ![t] = counter[t] + 1] /\ i'[Main] = i[Main]
          BY <1>0, <1>2, <2>2, <4>2, PastFree
        <5>2. counter[t] + 1 \in Nat /\ pc'[t] \notin FreePCs
          BY <2>1, <3>1, <4>2
        <5> QED
          BY <5>1, <5>2
      <4> QED
        BY <1>2, <4>1, <4>2
    <3> QED
      BY <1>2, <1>4, <2>1, <2>2, <3>1, <3>2, WorkerFrees
  <2>3. CASE t = Main
    <3>1. n = i[Main] /\ i[Main] \in Nat
      BY <1>1, <2>3, Types, ThreadsAre DEF target
    <3>2. PICK j \in Nat : /\ i'[Main] = j /\ UNCHANGED <<malloc_items, counter>>
                           /\ \/ j = i[Main] + 1 /\ pc'[Main] \notin FreePCs
                              \/ j = i[Main] /\ pc'[Main] \in FreePCs
      <4>1. CASE UNCHANGED test /\ pc' = [pc EXCEPT ![t] = "free_lock"]
        <5>1. pc'[t] \in FreePCs
          BY <1>0, <4>1 DEF FreePCs
        <5> QED
          BY <2>3, <3>1, <4>1, <5>1 DEF test
      <4>2. CASE freed(t) /\ UNCHANGED <<pc, ptr>>
        <5>1. i'[Main] = i[Main] + 1 /\ UNCHANGED <<malloc_items, counter>>
          BY <1>0, <1>2, <2>3, <4>2, PastFree
        <5> QED
          BY <2>1, <2>3, <3>1, <4>2, <5>1
      <4> QED
        BY <1>2, <4>1, <4>2
    <3>3. \A u \in Workers : pc'[u] = pc[u]
      BY <2>1, <2>3, ThreadsAre
    <3> QED
      BY <1>2, <1>4, <2>1, <2>3, <3>1, <3>2, <3>3, MainFrees
  <2> QED
    BY <2>2, <2>3, ThreadsAre
<1>6. address = r[n] \/ (Asks /\ freeFirst) \/ ~Survives(r[n])
  <2> SUFFICES ASSUME address # r[n], Survives(r[n]) PROVE Asks /\ freeFirst
    OBVIOUS
  <2>0. stored # asStored(r[n])
    BY <1>a, <1>b, StoredAs
  <2>1. PICK u \in Workers : freeFirst /\ index(u) = n /\ at[u] = "store"
    BY <1>0, <2>0 DEF Addresses
  <2>2. t \in Workers /\ u # t
    BY <1>2, <2>1, ThreadsAre DEF TInv, MainAt
  <2>3. n = counter[t] /\ WorkerAt(t) /\ n < First(Does.victim[t]) + NumItems
    BY <1>1, <1>2, <2>2, InRange, ThreadsAre DEF target, TInv
  <2>4. ASSUME ~Asks PROVE FALSE
    <3>1. Does.victim[t] = t /\ program # "thread_test"
      BY <1>2, <2>2, <2>3, <2>4, Types, Victims DEF WorkerAt
    <3>2. Own(t, n)
      <4>1. First(t) \in Nat /\ i[t] \in Nat /\ counter[t] \in Nat
        BY <2>2, Types, Layout, ThreadsAre
      <4>2. First(t) <= counter[t]
        BY <2>3, <3>1, <4>1 DEF WorkerAt
      <4> QED
        BY <2>3, <3>1, <4>2 DEF Own
    <3> QED
      BY <2>1, <2>2, <3>2, OneOwner
  <2> QED
    BY <2>1, <2>4
<1>7. Regions(r)'
  <2>2. \A u \in Threads : HasNew(u)' => HasNew(u) /\ ptr'[u] = ptr[u]
    BY <1>0, <1>2 DEF HasNew
  <2>3. UNCHANGED <<version, program, freeFirst, mem>>
    BY <1>2, <1>4
  <2> QED
    BY <1>0, <1>3, <1>4, <1>5, <1>6, <1>c, <2>2, <2>3, RegionsFreed
<1> QED
  BY <1>4, <1>7 DEF Holding

\* FREE returns.
LEMMA HoldingPastFree ==
  ASSUME TInv, MInv, program # "any", NEW r \in [Items -> Ptr], Holding(r),
         NEW t \in Threads, freeReturns(t)
  PROVE  Holding(r)'
<1>0. pc \in [Threads -> PCs] /\ ptr \in [Threads -> Ptr] /\ Regions(r) /\ Addresses(r)
  BY DEF MInv, LInv, TypeOK, Holding
<1>1. /\ at[t] = "free" /\ freed(t) /\ pc[t] = "free_unlock" /\ pc' = [pc EXCEPT ![t] = "idle"]
      /\ ptr' = [ptr EXCEPT ![t] = NULL] /\ UNCHANGED <<version, mem, asked>>
  BY DEF freeReturns, releaseFree, Goto, client
<1>2. /\ Addresses(r)' /\ malloc_items'.bytes = malloc_items.bytes
      /\ UNCHANGED <<program, freeFirst>>
  BY <1>0, <1>1, PastFree
<1>3. /\ pc[t] \in FreePCs /\ pc'[t] \notin FreePCs
      /\ \A u \in Threads \ {t} : pc'[u] = pc[u]
  BY <1>0, <1>1 DEF FreePCs
<1>4. \A k \in Items : Freed(k)' <=> Freed(k)
  <2>1. CASE t \in Workers
    <3>0. counter[t] \in Nat
      BY <2>1, Types
    <3>1. PICK c \in Nat : c = counter[t] + 1
      BY <3>0
    <3>2. counter' = [counter EXCEPT ![t] = c] /\ i'[Main] = i[Main] /\ at[t] # "end"
      BY <1>0, <1>1, <2>1, <3>1, PastFree
    <3> QED
      BY <1>2, <1>3, <2>1, <3>1, <3>2, WorkerFrees
  <2>2. CASE t = Main
    <3>0. i[Main] \in Nat
      BY Types, ThreadsAre
    <3>1. PICK j \in Nat : j = i[Main] + 1
      BY <3>0
    <3>2. i'[Main] = j /\ UNCHANGED <<program, malloc_items, counter>>
      BY <1>0, <1>1, <1>2, <2>2, <3>1, PastFree
    <3>3. \A u \in Workers : pc'[u] = pc[u]
      BY <1>3, <2>2, ThreadsAre
    <3> QED
      BY <1>3, <2>2, <3>1, <3>2, <3>3, MainFrees
  <2> QED
    BY <2>1, <2>2, ThreadsAre
<1>5. \A u \in Threads : HasNew(u)' => HasNew(u) /\ ptr'[u] = ptr[u]
  BY <1>0, <1>1 DEF HasNew
<1>6. Regions(r)'
  BY <1>0, <1>1, <1>2, <1>4, <1>5, RegionsKept
<1> QED
  BY <1>2, <1>6 DEF Holding

\* main goes on, and frees nothing.
LEMMA HoldingMain ==
  ASSUME TInv, program # "any", NEW r \in [Items -> Ptr], Holding(r), join \/ passOver
  PROVE  Holding(r)'
<1>0. Regions(r) /\ Addresses(r) /\ i[Main] \in Nat
  BY Types, ThreadsAre DEF Holding
<1>1. UNCHANGED <<vars, program, freeFirst, malloc_items, counter, got>>
  BY DEF join, passOver
<1>2. \A u \in Workers : at'[u] = at[u] /\ i'[u] = i[u]
  BY Types, ThreadsAre DEF join, passOver, nextRound
<1>3. UNCHANGED <<version, mem, asked, pc, ptr>>
  BY <1>1 DEF vars, client
<1>4. \A u \in Workers : index(u)' = index(u)
  BY <1>2 DEF index
<1>5. \A k \in Items : ToMalloc(k)' => ToMalloc(k)
  BY <1>2, <1>4 DEF ToMalloc, Own, First
<1>6. Addresses(r)'
  BY <1>0, <1>1, <1>2, <1>3, <1>4, <1>5, AddressesKept
<1>7. \A k \in Items : Freed(k)' <=> Freed(k)
  <2>1. CASE join
    <3>1. PICK j \in Nat : j = i[Main]
      BY <1>0
    <3>2. i'[Main] = j
      BY <2>1, <3>1 DEF join
    <3> QED
      BY <1>1, <1>3, <3>1, <3>2, MainFrees
  <2>2. CASE passOver
    <3>1. PICK j \in Nat : j = i[Main] + 1
      BY <1>0
    <3>2. i'[Main] = j /\ at[Main] = "free" /\ ~freesNext(Main)
      BY <2>2, <3>1, Types, ThreadsAre DEF passOver, nextRound
    <3>3. pc'[Main] \notin FreePCs
      BY <1>3, <3>2, ThreadsAre DEF TInv, CallAt
    <3> QED
      BY <1>1, <1>3, <3>1, <3>2, <3>3, MainFrees
  <2> QED
    BY <2>1, <2>2
<1>8. \A u \in Threads : HasNew(u)' => HasNew(u) /\ ptr'[u] = ptr[u]
  BY <1>3 DEF HasNew
<1>9. Regions(r)'
  BY <1>0, <1>1, <1>3, <1>7, <1>8, RegionsKept
<1> QED
  BY <1>6, <1>9 DEF Holding

\* The invariant of the tests' own.
OInv == program # "any" => Flags /\ \E r \in [Items -> Ptr] : Holding(r)

LEMMA OwnershipStep ==
  ASSUME TInv, MInv, OInv, [TestNext]_allVars
  PROVE  OInv'
<1> SUFFICES ASSUME program' # "any" PROVE (Flags /\ \E r \in [Items -> Ptr] : Holding(r))'
  BY DEF OInv
<1>1. program # "any"
  BY DEF TestNext, AnyStep, WorkerStep, MainStep, allVars, test, callMalloc, mallocReturns,
     store, claim, callFree, freeReturns, freed, join, passOver
<1>2. Flags /\ Flags'
  BY <1>1, FlagsStep DEF OInv
<1>3. PICK r \in [Items -> Ptr] : Holding(r)
  BY <1>1 DEF OInv
<1>4. CASE UNCHANGED allVars
  <2>1. UNCHANGED <<version, test>> /\ UNCHANGED <<mem, asked, pc, ptr>>
    BY <1>4 DEF allVars, vars, client
  <2>2. Addresses(r)' /\ \A k \in Items : Freed(k)' <=> Freed(k)
    BY <1>1, <1>3, <2>1, StandsStill DEF Holding
  <2>3. \A u \in Threads : HasNew(u)' => HasNew(u) /\ ptr'[u] = ptr[u]
    BY <2>1 DEF HasNew
  <2>4. UNCHANGED <<version, program, freeFirst, malloc_items>>
    BY <2>1 DEF test
  <2>5. Regions(r)'
    BY <1>3, <2>1, <2>2, <2>3, <2>4, RegionsKept DEF Holding
  <2> QED
    BY <1>2, <2>2, <2>5 DEF Holding
<1>5. ASSUME NEW t \in Workers, mallocReturns(t) PROVE \E s \in [Items -> Ptr] : Holding(s)'
  BY <1>1, <1>2, <1>3, <1>5, HoldingReturned
<1>6. ASSUME NEW t \in Workers, store(t) \/ claim(t) PROVE Holding(r)'
  BY <1>1, <1>3, <1>6, HoldingStored, HoldingClaimed
<1>7. ASSUME NEW t \in Threads, callFree(t) \/ freeReturns(t) PROVE Holding(r)'
  BY <1>1, <1>2, <1>3, <1>7, HoldingFreed, HoldingPastFree
<1>8. ASSUME NEW t \in Threads, (Inner(t) /\ UNCHANGED test) \/ (t \in Workers /\ callMalloc(t))
      PROVE  Holding(r)'
  BY <1>1, <1>3, <1>8, HoldingInside
<1>9. ASSUME join \/ passOver PROVE Holding(r)'
  BY <1>1, <1>3, <1>9, HoldingMain
<1> QED
  BY <1>1, <1>2, <1>4, <1>5, <1>6, <1>7, <1>8, <1>9, ThreadsAre
     DEF TestNext, AnyStep, WorkerStep, MainStep

LEMMA OwnershipInit ==
  ASSUME TestInit
  PROVE  OInv
<1> SUFFICES ASSUME program # "any" PROVE Flags /\ \E r \in [Items -> Ptr] : Holding(r)
  BY DEF OInv
<1>1. TInv
  BY TypesInit
<1>2. /\ malloc_items \in [bytes : [Items -> Sizes], address : {[k \in Items |-> NULL]},
                           free : {[k \in Items |-> Does.free]}]
      /\ counter = [t \in Workers |-> Does.victim[t] * NumItems]
      /\ \A t \in Threads : i[t] = 0 /\ at[t] = (IF t = Main THEN "join" ELSE "malloc")
  BY DEF TestInit
<1>3. /\ mem.blocks = {} /\ \A t \in Threads : pc[t] = "idle"
      /\ \A b \in Addr : asked[b] = 0
  BY DEF TestInit, Init
<1>4. \A t \in Workers : index(t) = First(t) /\ at[t] = "malloc" /\ First(t) \in Nat
  BY <1>1, <1>2, InRange, Layout, ThreadsAre
<1>5. ASSUME NEW k \in Items PROVE ToMalloc(k) /\ ToFlag(k)
  <2>1. PICK t \in Workers : First(t) <= k /\ k < First(t) + NumItems
    BY Layout
  <2>2. k \in Nat
    BY Layout DEF Items
  <2> QED
    BY <1>4, <2>1, <2>2 DEF ToMalloc, ToFlag, Own
<1>6. \A t \in Workers : counter[t] = First(Does.victim[t])
  BY <1>2 DEF First
<1>7. ASSUME NEW k \in Items PROVE ~Marked(k)
  <2>1. \A t \in Workers : First(Does.victim[t]) \in Nat
    BY <1>1, Types, AllPrograms, Layout
  <2>2. k \in Nat
    BY Layout DEF Items
  <2> QED
    BY <1>4, <1>6, <2>1, <2>2 DEF Marked
<1>8. ASSUME Asks PROVE \A k \in Items : malloc_items.free[k] = 1
  BY <1>2, <1>8 DEF Asks, Does, thread_test_malloc_free_change_thread, thread_test_measurement
<1>9. Flags
  BY <1>5, <1>7, <1>8 DEF Flags
<1>10. Holding([k \in Items |-> NULL])
  <2> DEFINE r == [k \in Items |-> NULL]
  <2>1. \A k \in Items : r[k] = NULL /\ malloc_items.address[k] = NULL
    BY <1>2
  <2>2. \A t \in Threads : ~HasNew(t)
    BY <1>3 DEF HasNew
  <2>3. \A t \in Workers : at[t] # "store"
    BY <1>4
  <2> HIDE DEF r
  <2>4. Regions(r) /\ Addresses(r)
    <3>1. asStored(NULL) = NULL
      BY DEF asStored
    <3> QED
      BY <1>3, <2>1, <2>2, <2>3, <3>1 DEF Regions, Addresses
  <2> QED
    BY <2>4 DEF Holding, r
<1>11. [k \in Items |-> NULL] \in [Items -> Ptr]
  BY DEF Ptr
<1> QED
  BY <1>9, <1>10, <1>11

\* A step of a test is a step of the allocator, or one outside it: what a thread
\* mallocs is a size, what it frees is an address or NULL.
LEMMA TestSteps ==
  ASSUME TInv, MInv, OInv, [TestNext]_allVars
  PROVE  [Next]_vars
<1>1. ASSUME NEW t \in Workers, AnyStep(t) PROVE Next
  BY <1>1, ThreadsAre DEF AnyStep, Next
<1>2. ASSUME program # "any", NEW t \in Workers, callMalloc(t) PROVE Next
  <2>1. malloc_items.bytes[index(t)] \in Sizes /\ t \in Threads
    BY <1>2, Types, InRange, ThreadsAre DEF callMalloc, Store
  <2>2. Enter(t)
    BY <1>2, <2>1 DEF callMalloc, Enter
  <2> QED
    BY <2>1, <2>2 DEF Next
<1>3. ASSUME program # "any", NEW t \in Threads, callFree(t) PROVE Next
  <2>1. target(t) \in Items
    BY <1>3, InRange, ThreadsAre DEF callFree, freesNext, target
  <2>2. Passed(t) \in Ptr
    BY DEF Passed, Ptr
  <2>3. version = "lock" => malloc_items.address[target(t)] \in Ptr
    <3>1. PICK r \in [Items -> Ptr] : Addresses(r)
      BY <1>3 DEF OInv, Holding
    <3>2. r[target(t)] \in Ptr /\ malloc_items.address[target(t)] \in {asStored(r[target(t)]), NULL}
      BY <2>1, <3>1 DEF Addresses
    <3> QED
      BY <3>2, StoredAs DEF Ptr
  <2>4. \/ ts_free_lock(t, malloc_items.address[target(t)])
        \/ ts_free_nolock(t, Passed(t))
    BY <1>3 DEF callFree, Passed
  <2>5. Enter(t)
    <3>1. CASE ts_free_lock(t, malloc_items.address[target(t)])
      BY <2>3, <3>1 DEF Enter, ts_free_lock
    <3>2. CASE ts_free_nolock(t, Passed(t))
      BY <2>2, <3>2 DEF Enter
    <3> QED
      BY <2>4, <3>1, <3>2
  <2> QED
    BY <2>5 DEF Next
<1>4. ASSUME NEW t \in Threads, mallocReturns(t) \/ freeReturns(t) \/ Inner(t) PROVE Next
  BY <1>4 DEF mallocReturns, freeReturns, Return, Next
<1>5. ASSUME NEW t, store(t) \/ claim(t) \/ join \/ passOver PROVE UNCHANGED vars
  BY <1>5 DEF store, claim, join, passOver
<1>6. CASE UNCHANGED allVars
  BY <1>6 DEF allVars
<1> QED
  BY <1>1, <1>2, <1>3, <1>4, <1>5, <1>6, ThreadsAre
     DEF TestNext, WorkerStep, MainStep, Next

LEMMA TestInvariance == TestSpec => [](MInv /\ TInv /\ OInv)
<1>1. TestInit => MInv /\ TInv /\ OInv
  <2>1. TestInit => Init
    BY DEF TestInit
  <2> QED
    BY <2>1, InitMInv, TypesInit, OwnershipInit
<1>2. MInv /\ TInv /\ OInv /\ [TestNext]_allVars => MInv' /\ TInv' /\ OInv'
  BY TestSteps, MemoryStep, TypesStep, OwnershipStep
<1> QED
  BY <1>1, <1>2, PTL DEF TestSpec

\* Whatever the number of threads and items, the variables of the tests keep their
\* types: no thread goes past its items, or past those it frees.
THEOREM TestsTypeCorrect == TestSpec => []TestTypeOK
<1>1. TInv => TestTypeOK
  BY DEF TInv
<1> QED
  BY <1>1, TestInvariance, PTL

\* The test programs are clients the allocator is specified for: so everything
\* proved of it holds while they run, and no two regions they hold ever overlap.
THEOREM TestsAreClients == TestSpec => Spec
<1>1. TestInit => Init
  BY DEF TestInit
<1>2. MInv /\ TInv /\ OInv /\ [TestNext]_allVars => [Next]_vars
  BY TestSteps
<1> QED
  BY <1>1, <1>2, TestInvariance, PTL DEF TestSpec, Spec

-----------------------------------------------------------------------------

\* For any number of threads and items: no item is freed twice, by two workers or by a
\* worker and main, and none before its malloc has returned.
THEOREM HeldIsFreed == TestSpec => []FreesWhatIsHeld
<1>1. MInv /\ TInv /\ OInv => FreesWhatIsHeld
  <2> SUFFICES ASSUME MInv, TInv, OInv, program # "any", NEW t \in Threads, pc[t] = "idle",
                      freesNext(t), malloc_items.address[target(t)] # NULL
               PROVE  /\ \E b \in Addr :
                           asked[b] # 0 /\ malloc_items.address[target(t)] = asStored(b)
                      /\ malloc_items.address[target(t)] \in Addr =>
                           asked[malloc_items.address[target(t)]] # 0
    BY DEF FreesWhatIsHeld
  <2>1. PICK r \in [Items -> Ptr] : Regions(r) /\ Addresses(r)
    BY DEF OInv, Holding
  <2>2. target(t) \in Items
    BY InRange, ThreadsAre DEF freesNext, target
  <2>3. malloc_items.address[target(t)] = asStored(r[target(t)]) /\ r[target(t)] \in Ptr
    BY <2>1, <2>2 DEF Addresses
  <2>4. ~Freed(target(t))
    <3>1. CASE t = Main
      BY <3>1, MainFreesOnce DEF target, FreePCs, OInv
    <3>2. CASE t # Main
      BY <3>2, WorkerFreesOnce, ThreadsAre DEF target, FreePCs, freesNext
    <3> QED
      BY <3>1, <3>2
  <2>5. r[target(t)] # NULL
    BY <2>3, StoredAs
  <2>6. asked[r[target(t)]] # 0
    BY <2>1, <2>2, <2>4, <2>5 DEF Regions
  <2>7. malloc_items.address[target(t)] \in Addr =>
          malloc_items.address[target(t)] = r[target(t)]
    BY <2>3, StoredAs DEF Ptr
  <2> QED
    BY <2>3, <2>5, <2>6, <2>7 DEF Ptr
<1> QED
  BY <1>1, TestInvariance, PTL

\* In the two programs whose threads free each other's items, what a thread frees is
\* not one of its own, as long as there is another thread.
THEOREM OthersAreFreed ==
  ASSUME NumThreads > 1
  PROVE  TestSpec => []FreesAnothers
<1>1. TInv /\ OInv => FreesAnothers
  <2> SUFFICES ASSUME TInv, OInv, Asks, NEW t \in Workers, at[t] = "free",
                      NEW k \in Items, k \div NumItems = t
               PROVE  \/ malloc_items.address[k] = NULL
                      \/ malloc_items.address[k] # malloc_items.address[counter[t]]
    BY DEF FreesAnothers, Asks
  <2>0. program # "any"
    BY DEF Asks
  <2>1. PICK r \in [Items -> Ptr] : Regions(r) /\ Addresses(r)
    BY <2>0 DEF OInv, Holding
  <2>2. /\ counter[t] \in Items /\ counter[t] \in Nat /\ WorkerAt(t)
        /\ counter[t] < First(Does.victim[t]) + NumItems
    BY <2>0, InRange, Types, ThreadsAre DEF TInv
  <2>3. /\ Does.victim[t] \in Workers /\ Does.victim[t] # t /\ program # "thread_test"
        /\ First(Does.victim[t]) \in Nat
    BY <2>0, Types, AllPrograms, Victims, Layout DEF Asks
  <2>4. First(Does.victim[t]) <= counter[t]
    BY <2>2, <2>3 DEF WorkerAt
  <2>5. First(t) <= k /\ k < First(t) + NumItems /\ k \in Nat
    <3>1. k \in Nat /\ NumItems \in Nat \ {0}
      BY Layout DEF Items
    <3>2. (k \div NumItems) * NumItems <= k /\ k < (k \div NumItems) * NumItems + NumItems
      BY <3>1
    <3> QED
      BY <3>1, <3>2 DEF First
  <2>6. k # counter[t]
    BY <2>2, <2>3, <2>4, <2>5, Layout
  <2> SUFFICES ASSUME malloc_items.address[k] # NULL,
                      malloc_items.address[k] = malloc_items.address[counter[t]]
               PROVE  FALSE
    OBVIOUS
  <2>7. PICK b \in Ptr, c \in Ptr : b = r[k] /\ c = r[counter[t]]
    BY <2>2
  <2>8. asStored(b) # NULL /\ asStored(b) = asStored(c)
    BY <2>1, <2>2, <2>7 DEF Addresses
  <2>9. b # NULL /\ b = c
    BY <2>8, StoredAs
  <2> QED
    BY <2>1, <2>2, <2>6, <2>7, <2>9 DEF Regions
<1> QED
  BY <1>1, TestInvariance, PTL

\* When main returns, every region has been freed, as far as the programs free them.
THEOREM NothingIsLeft == TestSpec => []NothingLeaks
<1>1. TInv /\ OInv => NothingLeaks
  <2> SUFFICES ASSUME TInv, OInv, at[Main] = "end",
                      \/ program \in {"thread_test", "malloc_free"}
                      \/ program = "change_thread" /\ ~freeFirst,
                      NEW b \in Addr, Survives(b), asked[b] # 0
               PROVE  FALSE
    BY DEF NothingLeaks
  <2>1. program # "any" /\ Flags
    BY DEF OInv
  <2>2. PICK r \in [Items -> Ptr] : Regions(r) /\ Addresses(r)
    BY <2>1 DEF OInv, Holding
  <2>3. PICK k \in Items : ~Freed(k)
    BY <2>2 DEF Regions, Asks
  <2>4. k \in Nat /\ k < Total /\ i[Main] = Total /\ \A u \in Workers : at[u] = "end"
    BY <2>1, Layout DEF Items, TInv, MainAt
  <2>5. malloc_items.free[k] \notin Does.mainFrees
    BY <2>3, <2>4 DEF Freed, MainFreed
  <2>6. malloc_items.free[k] \in {0, 1}
    BY Types DEF Store
  <2>7. program # "thread_test" /\ malloc_items.free[k] = 1
    BY <2>5, <2>6 DEF Does, thread_test, thread_test_malloc_free,
       thread_test_malloc_free_change_thread
  <2>8. ~ToFlag(k)
    <3>1. \A u \in Workers : index(u) = First(u) + i[u] /\ i[u] = NumItems
      BY <2>1, <2>4, InRange, ThreadsAre DEF TInv, WorkerAt
    <3> QED
      BY <2>4, <3>1, Layout DEF ToFlag, ToMalloc, Own
  <2>9. ~Marked(k)
    BY <2>3, <2>4 DEF Marked, Freed, WorkerFreed
  <2> QED
    BY <2>1, <2>7, <2>8, <2>9 DEF Flags
<1> QED
  BY <1>1, TestInvariance, PTL

-----------------------------------------------------------------------------
(***************************************************************************)
(* The verdict                                                             *)
(***************************************************************************)

\* Two items whose malloc failed, and that are not marked free.
TwoFailed == \E j, k \in Failed : j # k

LEMMA ItemsFinite ==
  /\ IsFiniteSet(Items) /\ \A G \in SUBSET Items : IsFiniteSet(G)
<1>1. 0 \in Int /\ Total - 1 \in Int
  BY Layout
<1>2. IsFiniteSet(Items)
  BY <1>1, FS_Interval DEF Items
<1> QED
  BY <1>2, FS_Subset

\* Once every worker is done, two items overlap for the test only if both are NULL.
LEMMA OverlapsAtNull ==
  ASSUME TInv, MInv, OInv, program # "any", \A t \in Workers : at[t] = "end",
         NEW j \in Items, NEW k \in Items, j # k
  PROVE  overlap(j, k) <=> malloc_items.address[j] = NULL /\ malloc_items.address[k] = NULL
<1> DEFINE a == malloc_items.address[j]
           c == malloc_items.address[k]
<1>1. CASE a = NULL \/ c = NULL
  BY <1>1 DEF overlap
<1>2. CASE a # NULL /\ c # NULL
  <2>1. PICK r \in [Items -> Ptr] : Regions(r) /\ Addresses(r)
    BY DEF OInv, Holding
  <2>2. PICK x \in Ptr, y \in Ptr : x = r[j] /\ y = r[k] /\ a = asStored(x) /\ c = asStored(y)
    BY <2>1 DEF Addresses
  <2>a. x # NULL /\ y # NULL
    BY <1>2, <2>2, StoredAs
  <2>3. /\ x \in mem.blocks /\ mem.dataSize[x] = malloc_items.bytes[j]
        /\ y \in mem.blocks /\ mem.dataSize[y] = malloc_items.bytes[k]
        /\ x # y
    BY <2>1, <2>2, <2>a DEF Regions
  <2>4. /\ x \in Nat /\ 0 < x /\ y \in Nat /\ 0 < y /\ MetaSize \in Nat \ {0}
        /\ malloc_items.bytes[j] \in Nat /\ malloc_items.bytes[k] \in Nat
        /\ HeapLimit \in Nat /\ brk \in Nat /\ brk <= HeapLimit
    <3>1. mem \in Memory /\ brk \in Addr
      BY DEF MInv, TypeOK
    <3>2. x \in Addr /\ y \in Addr /\ mem.dataSize[x] \in Nat /\ mem.dataSize[y] \in Nat
      BY <2>3, <3>1 DEF Memory
    <3> QED
      BY <2>3, <3>1, <3>2, TsMallocAssumption DEF Addr
  <2>5. /\ x < y => x + MetaSize + malloc_items.bytes[j] <= y
        /\ y < x => y + MetaSize + malloc_items.bytes[k] <= x
        /\ x + MetaSize + malloc_items.bytes[j] <= brk
        /\ y + MetaSize + malloc_items.bytes[k] <= brk
    BY <2>3 DEF MInv, BlocksDisjoint, EndOf
  <2>b. (a = x \/ a = x - HeapLimit - 1) /\ (c = y \/ c = y - HeapLimit - 1)
    BY <2>2 DEF asStored
  <2> DEFINE from(n) == malloc_items.address[n] + MetaSize
             to(n)   == from(n) + malloc_items.bytes[n]
  <2>6. ~(from(j) \in from(k) .. to(k) \/ to(j) \in from(k) .. to(k))
    BY <2>3, <2>4, <2>5, <2>b
  <2>7. overlap(j, k) <=> from(j) \in from(k) .. to(k) \/ to(j) \in from(k) .. to(k)
    BY <1>2 DEF overlap
  <2> QED
    BY <1>2, <2>6, <2>7
<1> QED
  BY <1>1, <1>2

\* What main has printed says whether two mallocs failed.
Tells == verdict = "Test failed" <=> TwoFailed

\* Nothing is printed before the joins; what main prints then stays true.
VInv ==
  /\ program = "any" \/ at[Main] = "join" => verdict = "none"
  /\ verdict # "none" => Tells

\* What main prints after its joins is true.
LEMMA JoinTells ==
  ASSUME TInv, MInv, OInv, program # "any", join
  PROVE  Tells'
<1> DEFINE live == {k \in Items : malloc_items.free[k] # 1}
           fail == \E j, k \in live : j # k /\ overlap(j, k)
<1>1. (\A t \in Workers : at[t] = "end") /\ malloc_items' = malloc_items
  BY DEF join
<1>2. verdict' = IF fail THEN "Test failed" ELSE "Test passed"
  BY DEF join
<1>3. \A k \in Items : malloc_items.free[k] \in {0, 1}
  BY Types DEF Store
<1>4. fail <=> TwoFailed
  BY <1>1, <1>3, OverlapsAtNull DEF TwoFailed, Failed
<1>5. TwoFailed' <=> TwoFailed
  BY <1>1 DEF TwoFailed, Failed
<1> QED
  BY <1>2, <1>4, <1>5 DEF Tells

LEMMA VerdictStep ==
  ASSUME TInv, MInv, OInv, VInv, [TestNext]_allVars
  PROVE  VInv'
<1>1. ASSUME UNCHANGED <<program, malloc_items, verdict>>,
             at'[Main] = "join" => at[Main] = "join"
      PROVE  VInv'
  BY <1>1 DEF VInv, Tells, TwoFailed, Failed
<1>2. ASSUME UNCHANGED test PROVE VInv'
  BY <1>1, <1>2 DEF test
<1>3. ASSUME program # "any", join PROVE VInv'
  <2>1. program' = program /\ at'[Main] = "free"
    BY <1>3, Types, ThreadsAre DEF join
  <2> QED
    BY <1>3, <2>1, JoinTells DEF VInv
<1>4. ASSUME program # "any", passOver PROVE VInv'
  <2>1. at'[Main] # "join" /\ UNCHANGED <<program, malloc_items, verdict>>
    BY <1>4, Types, ThreadsAre DEF passOver, nextRound
  <2> QED
    BY <1>1, <2>1
<1>5. ASSUME program # "any", at[Main] = "free", freed(Main) PROVE VInv'
  <2>1. at'[Main] # "join" /\ UNCHANGED <<program, malloc_items, verdict>>
    BY <1>5, Types, ThreadsAre DEF freed, nextRound
  <2> QED
    BY <1>1, <2>1
<1>6. ASSUME NEW t \in Workers, program # "any", at[t] # "end",
             UNCHANGED <<program, verdict>>, at'[Main] = at[Main]
      PROVE  VInv'
  BY <1>6 DEF TInv, MainAt, VInv
<1>7. ASSUME NEW t \in Workers, program # "any",
             mallocReturns(t) \/ store(t) \/ claim(t) \/ (at[t] = "free" /\ freed(t))
      PROVE  VInv'
  <2>1. at[t] # "end" /\ UNCHANGED <<program, verdict>> /\ at'[Main] = at[Main]
    BY <1>7, Types, ThreadsAre DEF mallocReturns, store, claim, freed, nextRound
  <2> QED
    BY <1>6, <1>7, <2>1
<1>8. ASSUME NEW t \in Threads, program # "any", callFree(t) \/ freeReturns(t) PROVE VInv'
  <2>1. UNCHANGED test \/ (at[t] = "free" /\ freed(t))
    BY <1>8 DEF callFree, freesNext, freeReturns
  <2> QED
    BY <1>2, <1>5, <1>7, <1>8, <2>1, ThreadsAre
<1> QED
  BY <1>2, <1>3, <1>4, <1>7, <1>8, ThreadsAre
     DEF TestNext, AnyStep, WorkerStep, MainStep, callMalloc, allVars

\* However many threads and items: main finds no two regions that overlap, though it
\* lets them touch, but for two items that malloc had no memory for.
THEOREM VerdictIsTrue == TestSpec => []VerdictIsRight
<1>1. TestInit => VInv
  BY DEF TestInit, VInv
<1>2. MInv /\ TInv /\ OInv /\ VInv /\ [TestNext]_allVars => VInv'
  BY VerdictStep
<1>3. VInv => VerdictIsRight
  <2>1. IsFiniteSet(Failed)
    <3>1. Failed \in SUBSET Items
      BY DEF Failed
    <3> QED
      BY <3>1, ItemsFinite
  <2>2. Cardinality(Failed) \in Nat
    BY <2>1, FS_CardinalityType
  <2>3. Cardinality(Failed) = 0 => Failed = {}
    BY <2>1, FS_EmptySet
  <2>4. Cardinality(Failed) = 1 <=> \E k : Failed = {k}
    BY <2>1, FS_Singleton
  <2>5. Cardinality({}) = 0
    BY FS_EmptySet
  <2>6. Cardinality(Failed) >= 2 <=> TwoFailed
    <3>1. CASE Cardinality(Failed) = 0
      BY <2>3, <3>1 DEF TwoFailed
    <3>2. CASE Cardinality(Failed) = 1
      BY <2>4, <3>2 DEF TwoFailed
    <3>3. CASE Cardinality(Failed) >= 2
      <4>1. Failed # {} /\ \A k : Failed # {k}
        <5>1. Cardinality(Failed) # 0 /\ Cardinality(Failed) # 1
          BY <3>3
        <5> QED
          BY <2>4, <2>5, <5>1
      <4>2. PICK j : j \in Failed
        BY <4>1
      <4>3. PICK k \in Failed : k # j
        BY <4>1, <4>2
      <4> QED
        BY <3>3, <4>2, <4>3 DEF TwoFailed
    <3> QED
      BY <2>2, <3>1, <3>2, <3>3
  <2> QED
    BY <2>6 DEF VInv, Tells, VerdictIsRight
<1> QED
  BY <1>1, <1>2, <1>3, TestInvariance, PTL DEF TestSpec

-----------------------------------------------------------------------------
(***************************************************************************)
(* The data segment                                                        *)
(***************************************************************************)

\* What an item takes of the segment, its header included.
Footprint == [k \in Items |-> MetaSize + malloc_items.bytes[k]]

\* Thread t has yet to move the break for the item of its round ...
Before(t) ==
  /\ at[t] = "malloc"
  /\ pc[t] \in {"idle", "malloc_lock", "search", "sbrk_lock", "sbrk_read", "sbrk_set"}

\* ... or has memory for it that is not in malloc_items yet.
InHand(t) ==
  \/ /\ at[t] = "malloc" /\ ptr[t] # NULL
     /\ pc[t] \in {"sbrk_unlock", "allocate", "malloc_unlock", "return"}
  \/ at[t] = "store" /\ got[t] # NULL

\* The thread that item k belongs to has not moved the break for it.
Awaits(k) == \E t \in Workers : Own(t, k) /\ (index(t) < k \/ (index(t) = k /\ Before(t)))

\* The break was moved for the items of G, once each.  An item may be in G and its
\* malloc return NULL, for an errno that is left from an earlier call.
PaidFor(G) ==
  /\ brk = FirstBreak + SumOver(Footprint, G)
  /\ \A k \in G : ~Awaits(k)
  /\ \A k \in Items : malloc_items.address[k] # NULL => k \in G
  /\ \A t \in Workers : InHand(t) => index(t) \in G

\* The sum of the property is the one of SumOver.
LEMMA SegmentIs ==
  ASSUME TInv
  PROVE  MapThenSumSet(LAMBDA k : MetaSize + malloc_items.bytes[k], Items)
           = SumOver(Footprint, Items)
<1>1. \A s \in SUBSET Items : s # {} => Pick(s) \in Items
  BY DEF Pick
<1>2. \A k \in Items : MetaSize + malloc_items.bytes[k] = Footprint[k]
  BY DEF Footprint
<1> DEFINE IsIt(g) ==
      g = [s \in SUBSET Items |-> IF s = {} THEN 0
             ELSE (MetaSize + malloc_items.bytes[Pick(s)]) + g[s \ {Pick(s)}]]
<1>3. \A g : IsIt(g) <=> IsFold(g, Footprint, Items)
  <2> SUFFICES ASSUME NEW g PROVE IsIt(g) <=> IsFold(g, Footprint, Items)
    OBVIOUS
  <2>1. \A s \in SUBSET Items :
          (IF s = {} THEN 0 ELSE (MetaSize + malloc_items.bytes[Pick(s)]) + g[s \ {Pick(s)}])
            = (IF s = {} THEN 0 ELSE Footprint[Pick(s)] + g[s \ {Pick(s)}])
    BY <1>1, <1>2
  <2> QED
    BY <2>1 DEF IsFold
<1>4. MapThenSumSet(LAMBDA k : MetaSize + malloc_items.bytes[k], Items)
        = (CHOOSE g : IsIt(g))[Items]
  BY DEF MapThenSumSet, MapThenFoldSet, Pick
<1>5. SumOver(Footprint, Items) = (CHOOSE g : IsFold(g, Footprint, Items))[Items]
  BY DEF SumOver, MapThenSumSet, MapThenFoldSet, IsFold, Pick
<1>6. (CHOOSE g : IsIt(g)) = (CHOOSE g : IsFold(g, Footprint, Items))
  <2> HIDE DEF IsIt
  <2> QED
    BY <1>3
<1> QED
  BY <1>4, <1>5, <1>6

\* The break stays, and one thread goes on: to the second store, or to its next item.
LEMMA PaidKept ==
  ASSUME TInv, program # "any", NEW G \in SUBSET Items, PaidFor(G), NEW t \in Threads,
         brk' = brk, malloc_items'.bytes = malloc_items.bytes,
         \A u \in Workers \ {t} : UNCHANGED <<i[u], at[u], pc[u], ptr[u], got[u]>>,
         t \in Workers =>
           /\ \/ i'[t] = i[t] /\ (Before(t)' => Before(t))
              \/ i'[t] = i[t] + 1
           /\ InHand(t)' => InHand(t) /\ i'[t] = i[t],
         \A k \in Items : malloc_items'.address[k] # NULL =>
           malloc_items.address[k] # NULL \/ (t \in Workers /\ InHand(t) /\ k = index(t))
  PROVE  PaidFor(G)'
<1>1. brk' = FirstBreak + SumOver(Footprint', G)
  BY DEF PaidFor, Footprint
<1>2. \A u \in Workers \ {t} : index(u)' = index(u)
  BY DEF index
<1>3. \A k \in Items : k \in Nat
  BY Layout DEF Items
<1>4. ASSUME NEW k \in Items, Awaits(k)' PROVE Awaits(k)
  <2>1. PICK u \in Workers :
          Own(u, k) /\ (index(u)' < k \/ (index(u)' = k /\ Before(u)'))
    BY <1>4 DEF Awaits, Own, First
  <2>2. CASE u # t
    BY <1>2, <2>1, <2>2 DEF Awaits, Before
  <2>3. CASE u = t /\ i'[t] = i[t]
    <3>1. index(t)' = index(t) /\ (Before(t)' => Before(t))
      <4>1. i[t] \in Nat
        BY <2>3, Types, ThreadsAre
      <4> QED
        BY <2>3, <4>1 DEF index
    <3> QED
      BY <2>1, <2>3, <3>1 DEF Awaits
  <2>4. CASE u = t /\ i'[t] = i[t] + 1
    <3>1. index(t)' = index(t) + 1 /\ index(t) \in Nat
      BY <2>4, InRange, Layout DEF index, First
    <3>2. index(t) < k
      BY <1>3, <2>1, <2>4, <3>1
    <3> QED
      BY <2>1, <2>4, <3>2 DEF Awaits
  <2> QED
    BY <2>2, <2>3, <2>4
<1>5. ASSUME NEW u \in Workers, InHand(u)' PROVE index(u)' \in G
  <2>1. InHand(u) /\ index(u)' = index(u)
    BY <1>2, <1>5 DEF InHand, index
  <2> QED
    BY <2>1 DEF PaidFor
<1>6. \A k \in Items : malloc_items'.address[k] # NULL => k \in G
  BY DEF PaidFor
<1>7. \A k \in G : ~Awaits(k)'
  BY <1>4 DEF PaidFor
<1> QED
  BY <1>1, <1>5, <1>6, <1>7 DEF PaidFor

\* A step inside a call that leaves the break alone gets memory for nobody.
LEMMA InnerKeepsBreak ==
  ASSUME MInv, NEW t \in Threads, Inner(t)
  PROVE  /\ \A u \in Threads \ {t} : pc'[u] = pc[u] /\ ptr'[u] = ptr[u]
         /\ \/ /\ pc[t] = "sbrk_set" /\ pc'[t] \in {"sbrk_unlock", "allocate"}
               /\ brk' = brk + MetaSize + req[t] /\ ptr' = ptr
            \/ /\ brk' = brk
               /\ pc'[t] \in {"malloc_lock", "search", "sbrk_lock", "sbrk_read", "sbrk_set"}
                    => pc[t] \in {"malloc_lock", "search", "sbrk_lock", "sbrk_read", "sbrk_set"}
               /\ pc'[t] # "idle"
               /\ pc'[t] \in {"sbrk_unlock", "allocate", "malloc_unlock", "return"}
                    /\ ptr'[t] # NULL
                    => /\ pc[t] \in {"sbrk_unlock", "allocate", "malloc_unlock", "return"}
                       /\ ptr[t] # NULL
<1>1. /\ ListsEmpty /\ pc \in [Threads -> PCs] /\ ptr \in [Threads -> Ptr]
      /\ pc[t] = "sbrk_set" => ptr[t] = brk
  BY DEF MInv, LInv, TypeOK
<1>2. CASE acquire(t)
  <2>1. PICK from_to \in {<<"malloc_lock", "search">>, <<"sbrk_lock", "sbrk_read">>,
                          <<"free_lock", "free_body">>} :
          pc[t] = from_to[1] /\ pc' = [pc EXCEPT ![t] = from_to[2]]
    BY <1>2 DEF acquire, Goto
  <2>2. UNCHANGED <<brk, ptr>>
    BY <1>2 DEF acquire
  <2> QED
    BY <1>1, <2>1, <2>2
<1>3. CASE bf_malloc(t)
  <2>1. findBestFit(mem, head, req[t]) = NULL
    BY <1>1, NothingFits DEF ListsEmpty
  <2>2. /\ pc[t] = "search" /\ pc' = [pc EXCEPT ![t] = "sbrk_read"]
        /\ ptr' = [ptr EXCEPT ![t] = NULL] /\ brk' = brk
    BY <1>3, <2>1 DEF bf_malloc, Goto
  <2> QED
    BY <1>1, <2>2
<1>4. CASE sbrkRead(t)
  <2>1. /\ pc[t] = "sbrk_read" /\ pc' = [pc EXCEPT ![t] = "sbrk_set"]
        /\ ptr' = [ptr EXCEPT ![t] = brk] /\ brk' = brk
    BY <1>4 DEF sbrkRead, Goto
  <2> QED
    BY <1>1, <2>1
<1>5. CASE sbrkSet(t)
  <2>1. PICK to \in {"allocate", "sbrk_unlock"} : pc' = [pc EXCEPT ![t] = to]
    BY <1>5 DEF sbrkSet, Goto
  <2>2. pc[t] = "sbrk_set" /\ ptr[t] = brk
    BY <1>1, <1>5 DEF sbrkSet
  <2>3. \/ brk' = brk + MetaSize + req[t] /\ ptr' = ptr
        \/ brk' = brk /\ ptr' = [ptr EXCEPT ![t] = NULL]
    BY <1>5, <2>2 DEF sbrkSet
  <2> QED
    BY <1>1, <2>1, <2>2, <2>3
<1>6. CASE sbrk_nolock(t)
  <2>1. /\ pc[t] = "sbrk_unlock" /\ pc' = [pc EXCEPT ![t] = "allocate"]
        /\ ptr' = ptr \/ ptr' = [ptr EXCEPT ![t] = NULL]
        /\ brk' = brk
    BY <1>6 DEF sbrk_nolock, Goto
  <2> QED
    BY <1>1, <2>1
<1>7. CASE allocateMemory(t)
  <2>1. PICK to \in {"malloc_unlock", "return"} : pc' = [pc EXCEPT ![t] = to]
    BY <1>7 DEF allocateMemory, Goto
  <2>2. /\ pc[t] = "allocate" /\ brk' = brk
        /\ ptr' = ptr \/ ptr' = [ptr EXCEPT ![t] = NULL]
    BY <1>7 DEF allocateMemory
  <2> QED
    BY <1>1, <2>1, <2>2
<1>8. CASE releaseMalloc(t)
  <2>1. pc[t] = "malloc_unlock" /\ pc' = [pc EXCEPT ![t] = "return"] /\ UNCHANGED <<brk, ptr>>
    BY <1>8 DEF releaseMalloc, Goto
  <2> QED
    BY <1>1, <2>1
<1>9. CASE bf_free(t)
  <2>1. pc[t] = "free_body" /\ pc' = [pc EXCEPT ![t] = "free_unlock"] /\ UNCHANGED <<brk, ptr>>
    BY <1>9 DEF bf_free, Goto
  <2> QED
    BY <1>1, <2>1
<1> QED
  BY <1>2, <1>3, <1>4, <1>5, <1>6, <1>7, <1>8, <1>9 DEF Inner

\* sbrk moves the break for an item it was not moved for before.
LEMMA PaidMore ==
  ASSUME TInv, MInv, program # "any", NEW G \in SUBSET Items, PaidFor(G),
         NEW t \in Workers, UNCHANGED test,
         \A u \in Threads \ {t} : pc'[u] = pc[u] /\ ptr'[u] = ptr[u],
         pc[t] = "sbrk_set", pc'[t] \in {"sbrk_unlock", "allocate"},
         brk' = brk + MetaSize + req[t], ptr' = ptr
  PROVE  PaidFor(G \cup {index(t)})'
<1> DEFINE n == index(t)
           H == G \cup {n}
<1>1. /\ at[t] = "malloc" /\ req[t] = malloc_items.bytes[n] /\ n \in Items
      /\ t \in Threads
  BY ThreadsAre, InRange DEF TInv, CallAt, MallocPCs
<1>2. Awaits(n)
  BY <1>1, OneOwner DEF Awaits, Before
<1>3. n \notin G /\ IsFiniteSet(G)
  BY <1>2, ItemsFinite DEF PaidFor
<1>4. \A k \in Items : Footprint[k] \in Nat
  <2>1. \A k \in Items : malloc_items.bytes[k] \in Nat
    BY Types, TsMallocAssumption DEF Store
  <2> QED
    BY <2>1, TsMallocAssumption DEF Footprint
<1>5. SumOver(Footprint, G) \in Nat
  BY <1>3, <1>4, SumNat
<1>6. SumOver(Footprint, G \cup {n}) = Footprint[n] + SumOver(Footprint, G)
  <2>1. \A k \in G \cup {n} : Footprint[k] \in Nat
    BY <1>1, <1>4
  <2> HIDE DEF n
  <2> QED
    BY <1>3, <2>1, SumMore
<1>7. /\ index(t)' = n /\ Footprint' = Footprint
      /\ \A u \in Workers : index(u)' = index(u)
      /\ UNCHANGED <<malloc_items, at, i, got>>
  BY DEF test, index, Footprint
<1>8. brk' = FirstBreak + SumOver(Footprint, H)
  <2>1. Footprint[n] = MetaSize + malloc_items.bytes[n] /\ malloc_items.bytes[n] \in Nat
    BY <1>1, Types, TsMallocAssumption DEF Footprint, Store
  <2>2. /\ brk = FirstBreak + SumOver(Footprint, G)
        /\ MetaSize \in Nat /\ FirstBreak \in Nat
    BY TsMallocAssumption DEF PaidFor
  <2>3. brk' = brk + MetaSize + malloc_items.bytes[n]
    BY <1>1
  <2> HIDE DEF n
  <2> QED
    BY <1>5, <1>6, <2>1, <2>2, <2>3
<1>9. ASSUME NEW k \in Items, Awaits(k)' PROVE Awaits(k) /\ k # n
  <2>1. PICK u \in Workers : Own(u, k) /\ (index(u) < k \/ (index(u) = k /\ Before(u)'))
    BY <1>7, <1>9 DEF Awaits, Own, First
  <2>2. CASE u = t
    <3>1. ~Before(t)'
      BY DEF Before
    <3>2. n \in Nat
      BY <1>1, Layout DEF Items
    <3> QED
      BY <2>1, <2>2, <3>1, <3>2 DEF Awaits
  <2>3. CASE u # t
    <3>1. Before(u)' => Before(u)
      BY <1>7, <2>3, ThreadsAre DEF Before
    <3>2. k # n
      BY <1>1, <2>1, <2>3, OneOwner
    <3> QED
      BY <2>1, <3>1, <3>2 DEF Awaits
  <2> QED
    BY <2>2, <2>3
<1>10. ASSUME NEW u \in Workers, InHand(u)' PROVE index(u)' \in H
  <2>1. CASE u = t
    BY <1>7, <2>1
  <2>2. CASE u # t
    <3>1. InHand(u)
      BY <1>7, <1>10, <2>2, ThreadsAre DEF InHand
    <3> QED
      BY <1>7, <3>1 DEF PaidFor
  <2> QED
    BY <2>1, <2>2
<1>11. \A k \in H : ~Awaits(k)'
  <2>1. \A k \in H : k \in Items
    BY <1>1
  <2> QED
    BY <1>9, <2>1 DEF PaidFor
<1>12. \A k \in Items : malloc_items'.address[k] # NULL => k \in H
  BY <1>7 DEF PaidFor
<1>13. H' = H
  BY <1>7
<1> QED
  BY <1>7, <1>8, <1>10, <1>11, <1>12, <1>13 DEF PaidFor

\* Where the threads are, a worker that is not in its malloc is in none.
LEMMA OutsideMalloc ==
  ASSUME TInv, MInv, program # "any", NEW t \in Workers, at[t] \in {"store", "claim"}
  PROVE  pc[t] = "idle"
BY ThreadsAre DEF MInv, LInv, PCs, TInv, CallAt, freesNext, MallocPCs, FreePCs

\* Every step of a test program.
LEMMA PaidStep ==
  ASSUME TInv, MInv, program # "any", NEW G \in SUBSET Items, PaidFor(G), [TestNext]_allVars
  PROVE  \E H \in SUBSET Items : PaidFor(H)'
<1>0. /\ pc \in [Threads -> PCs] /\ ptr \in [Threads -> Ptr] /\ ListsEmpty
      /\ at \in [Threads -> {"malloc", "store", "claim", "free", "join", "end"}]
      /\ i \in [Threads -> Nat] /\ got \in [Threads -> Pointer] /\ malloc_items \in Store
  BY Types DEF MInv, LInv, TypeOK
<1>1. CASE UNCHANGED allVars
  <2>1. UNCHANGED <<brk, malloc_items, i, at, pc, ptr, got>> /\ Main \in Threads
    BY <1>1, ThreadsAre DEF allVars, vars, test
  <2>2. \A t \in Workers : Before(t)' <=> Before(t)
    BY <2>1 DEF Before
  <2>3. \A t \in Workers : InHand(t)' <=> InHand(t)
    BY <2>1 DEF InHand
  <2>4. PaidFor(G)'
    BY <2>1, <2>2, <2>3, PaidKept
  <2> QED
    BY <2>4
<1>2. ASSUME NEW t \in Threads, Inner(t), UNCHANGED test PROVE \E H \in SUBSET Items : PaidFor(H)'
  <2>1. /\ \A u \in Threads \ {t} : pc'[u] = pc[u] /\ ptr'[u] = ptr[u]
        /\ UNCHANGED <<malloc_items, i, at, got>>
    BY <1>2, InnerKeepsBreak DEF test
  <2>2. CASE /\ pc[t] = "sbrk_set" /\ pc'[t] \in {"sbrk_unlock", "allocate"}
             /\ brk' = brk + MetaSize + req[t] /\ ptr' = ptr
    <3>1. at[t] = "malloc" /\ CallAt(t)
      BY <2>2 DEF TInv, CallAt, MallocPCs
    <3>2. t \in Workers
      BY <3>1, ThreadsAre DEF TInv, MainAt
    <3>3. index(t) \in Items
      BY <3>1, <3>2, InRange
    <3>4. PaidFor(G \cup {index(t)})'
      BY <1>2, <2>1, <2>2, <3>2, PaidMore
    <3>5. PICK n \in Items : n = index(t) /\ n = index(t)'
      BY <2>1, <3>3 DEF index
    <3>6. PaidFor(G \cup {n})'
      BY <3>4, <3>5
    <3> QED
      BY <3>6
  <2>3. CASE ~(/\ pc[t] = "sbrk_set" /\ pc'[t] \in {"sbrk_unlock", "allocate"}
               /\ brk' = brk + MetaSize + req[t] /\ ptr' = ptr)
    <3>1. /\ brk' = brk
          /\ pc'[t] \in {"malloc_lock", "search", "sbrk_lock", "sbrk_read", "sbrk_set"}
               => pc[t] \in {"malloc_lock", "search", "sbrk_lock", "sbrk_read", "sbrk_set"}
          /\ pc'[t] # "idle"
          /\ pc'[t] \in {"sbrk_unlock", "allocate", "malloc_unlock", "return"} /\ ptr'[t] # NULL
               => /\ pc[t] \in {"sbrk_unlock", "allocate", "malloc_unlock", "return"}
                  /\ ptr[t] # NULL
      BY <1>2, <2>3, InnerKeepsBreak
    <3>2. Before(t)' => Before(t)
      BY <2>1, <3>1 DEF Before
    <3>3. InHand(t)' => InHand(t)
      BY <2>1, <3>1 DEF InHand
    <3>4. \A u \in Workers \ {t} : UNCHANGED <<i[u], at[u], pc[u], ptr[u], got[u]>>
      BY <2>1, ThreadsAre
    <3>5. PaidFor(G)'
      BY <2>1, <3>1, <3>2, <3>3, <3>4, PaidKept
    <3> QED
      BY <3>5
  <2> QED
    BY <2>2, <2>3
<1>3. ASSUME NEW t \in Workers, callMalloc(t) PROVE PaidFor(G)'
  <2>1. PICK bytes : ts_malloc_lock(t, bytes) \/ ts_malloc_nolock(t, bytes)
    BY <1>3 DEF callMalloc
  <2>2. findBestFit(mem, ts_nolockHead[t], bytes) = NULL
    BY <1>0, NothingFits, ThreadsAre DEF ListsEmpty
  <2>3. PICK to \in {"malloc_lock", "sbrk_lock"} :
          /\ pc[t] = "idle" /\ pc' = [pc EXCEPT ![t] = to] /\ brk' = brk
    BY <2>1, <2>2 DEF ts_malloc_lock, ts_malloc_nolock, Call, Goto
  <2>4. ptr' = ptr \/ ptr' = [ptr EXCEPT ![t] = NULL]
    BY <2>1, <2>2 DEF ts_malloc_lock, ts_malloc_nolock
  <2>5. at[t] = "malloc" /\ UNCHANGED <<malloc_items, i, at, got>> /\ t \in Threads
    BY <1>3, ThreadsAre DEF callMalloc, test
  <2>6. Before(t) /\ ~InHand(t)'
    BY <1>0, <2>3, <2>5 DEF Before, InHand
  <2>7. \A u \in Workers \ {t} : UNCHANGED <<i[u], at[u], pc[u], ptr[u], got[u]>>
    BY <1>0, <2>3, <2>4, <2>5, ThreadsAre
  <2> QED
    BY <2>3, <2>5, <2>6, <2>7, PaidKept
<1>4. ASSUME NEW t \in Workers, mallocReturns(t) PROVE PaidFor(G)'
  <2>1. /\ at[t] = "malloc" /\ pc[t] = "return" /\ t \in Threads /\ index(t) \in Items
        /\ pc' = [pc EXCEPT ![t] = "idle"] /\ ptr' = [ptr EXCEPT ![t] = NULL]
        /\ got' = [got EXCEPT ![t] = asStored(ptr[t])] /\ at' = [at EXCEPT ![t] = "store"]
        /\ UNCHANGED <<brk, i>>
    BY <1>4, ThreadsAre, InRange DEF mallocReturns, returnMalloc, Hand, Goto
  <2>a. asStored(ptr[t]) = NULL <=> ptr[t] = NULL
    BY <1>0, <2>1, StoredAs
  <2>2. /\ malloc_items'.bytes = malloc_items.bytes
        /\ \A k \in Items : malloc_items'.address[k] # NULL =>
             malloc_items.address[k] # NULL \/ (ptr[t] # NULL /\ k = index(t))
    BY <1>0, <1>4, <2>1, <2>a DEF mallocReturns, Store
  <2>3. ~Before(t)' /\ (InHand(t)' => InHand(t)) /\ (ptr[t] # NULL => InHand(t))
    BY <1>0, <2>1, <2>a DEF Before, InHand
  <2>4. \A u \in Workers \ {t} : UNCHANGED <<i[u], at[u], pc[u], ptr[u], got[u]>>
    BY <1>0, <2>1, ThreadsAre
  <2> QED
    BY <2>1, <2>2, <2>3, <2>4, PaidKept
<1>5. ASSUME NEW t \in Workers, at[t] # "malloc", at[t] # "end", brk' = brk,
             \/ i' = i /\ at'[t] \in {"claim", "free"}
             \/ nextRound(t),
             \A u \in Threads \ {t} : at'[u] = at[u] /\ pc'[u] = pc[u] /\ ptr'[u] = ptr[u]
                                      /\ got'[u] = got[u],
             pc'[t] \notin {"sbrk_unlock", "allocate", "malloc_unlock", "return"},
             malloc_items'.bytes = malloc_items.bytes,
             \A k \in Items : malloc_items'.address[k] # NULL =>
               malloc_items.address[k] # NULL \/ (InHand(t) /\ k = index(t))
      PROVE  PaidFor(G)'
  <2>1. t \in Threads
    BY ThreadsAre
  <2>2. \/ i'[t] = i[t] /\ at'[t] \in {"claim", "free"}
        \/ i'[t] = i[t] + 1 /\ at'[t] \in {"malloc", "end"}
    BY <1>0, <1>5, <2>1, ThreadsAre DEF nextRound
  <2>3. ~InHand(t)' /\ (i'[t] = i[t] + 1 \/ ~Before(t)')
    BY <1>5, <2>2 DEF InHand, Before
  <2>4. \A u \in Workers \ {t} : i'[u] = i[u]
    BY <1>0, <1>5, ThreadsAre DEF nextRound
  <2>5. \A u \in Workers \ {t} : UNCHANGED <<i[u], at[u], pc[u], ptr[u], got[u]>>
    BY <1>5, <2>4, ThreadsAre
  <2> QED
    BY <1>5, <2>1, <2>2, <2>3, <2>5, PaidKept
<1>6. ASSUME NEW t \in Workers, store(t) PROVE PaidFor(G)'
  <2>1. /\ at[t] = "store" /\ pc[t] = "idle" /\ UNCHANGED <<brk, pc, ptr>> /\ t \in Threads
        /\ got' = [got EXCEPT ![t] = NULL] /\ index(t) \in Items
    BY <1>6, OutsideMalloc, ThreadsAre, InRange DEF store, vars
  <2>2. /\ malloc_items'.bytes = malloc_items.bytes
        /\ \A k \in Items : malloc_items'.address[k] # NULL =>
             malloc_items.address[k] # NULL \/ (got[t] # NULL /\ k = index(t))
    BY <1>0, <1>6, <2>1 DEF store, Store
  <2>3. got[t] # NULL => InHand(t)
    BY <2>1 DEF InHand
  <2>4. \/ i' = i /\ \E to \in {"claim", "free"} : at' = [at EXCEPT ![t] = to]
        \/ nextRound(t)
    BY <1>6 DEF store
  <2>5. \/ i' = i /\ at'[t] \in {"claim", "free"}
        \/ nextRound(t)
    BY <1>0, <2>1, <2>4
  <2>6. \A u \in Threads \ {t} : at'[u] = at[u] /\ got'[u] = got[u]
    BY <1>0, <2>1, <2>4 DEF nextRound
  <2>7. /\ \A u \in Threads \ {t} : pc'[u] = pc[u] /\ ptr'[u] = ptr[u]
        /\ pc'[t] \notin {"sbrk_unlock", "allocate", "malloc_unlock", "return"}
    BY <2>1
  <2>8. at[t] # "malloc" /\ at[t] # "end" /\ brk' = brk
    BY <2>1
  <2>9. /\ \A u \in Threads \ {t} : at'[u] = at[u] /\ pc'[u] = pc[u] /\ ptr'[u] = ptr[u]
                                    /\ got'[u] = got[u]
        /\ \A k \in Items : malloc_items'.address[k] # NULL =>
             malloc_items.address[k] # NULL \/ (InHand(t) /\ k = index(t))
    BY <2>2, <2>3, <2>6, <2>7
  <2> QED
    BY <1>5, <2>2, <2>5, <2>7, <2>8, <2>9
<1>7. ASSUME NEW t \in Workers, claim(t) PROVE PaidFor(G)'
  <2>1. /\ at[t] = "claim" /\ pc[t] = "idle" /\ UNCHANGED <<brk, pc, ptr, got>> /\ t \in Threads
    BY <1>7, OutsideMalloc, ThreadsAre DEF claim, vars
  <2>2. malloc_items'.bytes = malloc_items.bytes /\ malloc_items'.address = malloc_items.address
    BY <1>0, <1>7 DEF claim, Store
  <2>3. \/ i' = i /\ at' = [at EXCEPT ![t] = "free"]
        \/ nextRound(t)
    BY <1>7 DEF claim
  <2>4. \/ i' = i /\ at'[t] \in {"claim", "free"}
        \/ nextRound(t)
    BY <1>0, <2>1, <2>3
  <2>5. \A u \in Threads \ {t} : at'[u] = at[u] /\ pc'[u] = pc[u] /\ ptr'[u] = ptr[u]
                                 /\ got'[u] = got[u]
    BY <1>0, <2>1, <2>3 DEF nextRound
  <2>6. /\ pc'[t] \notin {"sbrk_unlock", "allocate", "malloc_unlock", "return"}
        /\ at[t] # "malloc" /\ at[t] # "end" /\ brk' = brk
    BY <2>1
  <2> QED
    BY <1>5, <2>2, <2>4, <2>5, <2>6
<1>8. ASSUME NEW t \in Threads, at[t] = "free", brk' = brk, freed(t),
             pc'[t] = "idle", \A u \in Threads \ {t} : pc'[u] = pc[u] /\ ptr'[u] = ptr[u]
      PROVE  PaidFor(G)'
  <2>1. /\ malloc_items'.bytes = malloc_items.bytes
        /\ malloc_items'.address = malloc_items.address
        /\ got' = got /\ nextRound(t)
    BY <1>0, <1>8 DEF freed, Store
  <2>2. \A u \in Threads \ {t} : at'[u] = at[u] /\ i'[u] = i[u]
    BY <1>0, <2>1 DEF nextRound
  <2>3. CASE t \in Workers
    <3>1. /\ \A u \in Threads \ {t} : at'[u] = at[u] /\ pc'[u] = pc[u] /\ ptr'[u] = ptr[u]
                                      /\ got'[u] = got[u]
          /\ pc'[t] \notin {"sbrk_unlock", "allocate", "malloc_unlock", "return"}
          /\ at[t] # "malloc" /\ at[t] # "end" /\ brk' = brk
      BY <1>8, <2>1, <2>2
    <3> QED
      BY <1>5, <2>1, <2>3, <3>1
  <2>4. CASE t = Main
    <3>1. /\ t \notin Workers
          /\ \A u \in Workers \ {t} : UNCHANGED <<i[u], at[u], pc[u], ptr[u], got[u]>>
      BY <1>8, <2>1, <2>2, <2>4, ThreadsAre
    <3> QED
      BY <1>8, <2>1, <3>1, PaidKept
  <2> QED
    BY <2>3, <2>4, ThreadsAre
<1>9. ASSUME NEW t \in Threads, UNCHANGED test, at[t] = "free", brk' = brk,
             \A u \in Threads \ {t} : pc'[u] = pc[u] /\ ptr'[u] = ptr[u]
      PROVE  PaidFor(G)'
  <2>1. UNCHANGED <<malloc_items, i, at, got>>
    BY <1>9 DEF test
  <2>2. /\ ~Before(t)' /\ ~InHand(t)'
        /\ \A u \in Workers \ {t} : UNCHANGED <<i[u], at[u], pc[u], ptr[u], got[u]>>
    BY <1>9, <2>1, ThreadsAre DEF Before, InHand
  <2> QED
    BY <1>9, <2>1, <2>2, PaidKept
<1>10. ASSUME NEW t \in Threads, callFree(t) PROVE PaidFor(G)'
  <2>1. CASE ts_free_lock(t, malloc_items.address[target(t)]) /\ UNCHANGED test
    <3>1. /\ at[t] = "free" /\ brk' = brk /\ pc' = [pc EXCEPT ![t] = "free_lock"]
          /\ \E b : ptr' = [ptr EXCEPT ![t] = b]
      BY <1>10, <2>1 DEF callFree, freesNext, ts_free_lock, Goto
    <3>2. \A u \in Threads \ {t} : pc'[u] = pc[u] /\ ptr'[u] = ptr[u]
      BY <1>0, <3>1
    <3> QED
      BY <1>9, <2>1, <3>1, <3>2
  <2>2. CASE ts_free_nolock(t, Passed(t)) /\ freed(t)
    <3>1. at[t] = "free" /\ pc[t] = "idle" /\ UNCHANGED <<brk, pc, ptr>>
      BY <1>10, <2>2 DEF callFree, freesNext, ts_free_nolock, GiveBack
    <3> QED
      BY <1>8, <2>2, <3>1
  <2> QED
    BY <1>10, <2>1, <2>2 DEF callFree, Passed
<1>11. ASSUME NEW t \in Threads, freeReturns(t) PROVE PaidFor(G)'
  <2>1. /\ at[t] = "free" /\ freed(t) /\ brk' = brk
        /\ pc' = [pc EXCEPT ![t] = "idle"] /\ ptr' = [ptr EXCEPT ![t] = NULL]
    BY <1>11 DEF freeReturns, releaseFree, Goto
  <2>2. pc'[t] = "idle" /\ \A u \in Threads \ {t} : pc'[u] = pc[u] /\ ptr'[u] = ptr[u]
    BY <1>0, <2>1
  <2> QED
    BY <1>8, <2>1, <2>2
<1>12. ASSUME join \/ passOver PROVE PaidFor(G)'
  <2>1. UNCHANGED <<vars, malloc_items, got>> /\ Main \in Threads /\ Main \notin Workers
    BY <1>12, ThreadsAre DEF join, passOver
  <2>2. \A u \in Workers : at'[u] = at[u] /\ i'[u] = i[u]
    BY <1>0, <1>12, ThreadsAre DEF join, passOver, nextRound
  <2>3. UNCHANGED <<brk, pc, ptr>>
    BY <2>1 DEF vars
  <2> QED
    BY <2>1, <2>2, <2>3, PaidKept
<1> QED
  <2>1. ASSUME PaidFor(G)' PROVE \E H \in SUBSET Items : PaidFor(H)'
    BY <2>1
  <2> QED
    BY <1>1, <1>2, <1>3, <1>4, <1>6, <1>7, <1>10, <1>11, <1>12, <2>1, ThreadsAre
       DEF TestNext, AnyStep, WorkerStep, MainStep

\* The break is where the items' mallocs have moved it, and nobody else has.
SInv == program # "any" => \E G \in SUBSET Items : PaidFor(G)

LEMMA SegmentStep ==
  ASSUME TInv, MInv, SInv, [TestNext]_allVars
  PROVE  SInv'
<1> SUFFICES ASSUME program' # "any" PROVE \E H \in SUBSET Items : PaidFor(H)'
  BY DEF SInv, Items, Total
<1>1. program # "any"
  BY DEF TestNext, AnyStep, WorkerStep, MainStep, allVars, test, callMalloc, mallocReturns,
     store, claim, callFree, freeReturns, freed, join, passOver
<1>2. PICK G \in SUBSET Items : PaidFor(G)
  BY <1>1 DEF SInv
<1> QED
  BY <1>1, <1>2, PaidStep

LEMMA SegmentInit ==
  ASSUME TestInit
  PROVE  SInv
<1> SUFFICES ASSUME program # "any" PROVE PaidFor({})
  BY DEF SInv
<1>1. brk = FirstBreak /\ SumOver(Footprint, {}) = 0
  BY SumEmpty DEF TestInit, Init
<1>a. brk = FirstBreak + SumOver(Footprint, {})
  BY <1>1, TsMallocAssumption
<1>2. \A k \in Items : malloc_items.address[k] = NULL
  BY DEF TestInit
<1>3. \A t \in Workers : pc[t] = "idle" /\ at[t] = "malloc"
  BY ThreadsAre DEF TestInit, Init
<1>4. \A t \in Workers : ~InHand(t)
  BY <1>3 DEF InHand
<1> QED
  BY <1>a, <1>2, <1>4 DEF PaidFor

\* What the measurement reports is what its items and the C library take, for any number
\* of threads and items and in every interleaving: no free saves anything, no memory is
\* given twice.
THEOREM SegmentIsWhatWasAsked == TestSpec => []SegmentIsTheSum
<1>1. TestInit => SInv /\ VInv
  BY SegmentInit DEF TestInit, VInv
<1>2. MInv /\ TInv /\ OInv /\ SInv /\ VInv /\ [TestNext]_allVars => SInv' /\ VInv'
  BY SegmentStep, VerdictStep
<1>3. TInv /\ MInv /\ SInv /\ VInv => SegmentIsTheSum
  <2> SUFFICES ASSUME TInv, MInv, SInv, VInv, verdict # "none",
                      \A k \in Items : malloc_items.address[k] # NULL
               PROVE  brk - start_segment_addr =
                        LibcBytes + MapThenSumSet(LAMBDA k : MetaSize + malloc_items.bytes[k], Items)
    BY DEF SegmentIsTheSum
  <2>1. PICK G \in SUBSET Items : PaidFor(G)
    BY DEF SInv, VInv
  <2>2. G = Items
    BY <2>1 DEF PaidFor
  <2>3. SumOver(Footprint, Items) \in Nat
    <3>1. \A k \in Items : malloc_items.bytes[k] \in Nat
      BY Types, TsMallocAssumption DEF Store
    <3>2. \A k \in Items : Footprint[k] \in Nat
      BY <3>1, TsMallocAssumption DEF Footprint
    <3> QED
      BY <3>2, ItemsFinite, SumNat
  <2>4. brk = FirstBreak + SumOver(Footprint, Items)
    BY <2>1, <2>2 DEF PaidFor
  <2>5. brk - start_segment_addr = LibcBytes + SumOver(Footprint, Items)
    <3>1. FirstBreak \in Nat /\ LibcBytes \in Nat
      BY TsMallocAssumption, ThreadTestsAssumption
    <3> QED
      BY <2>3, <2>4, <3>1 DEF start_segment_addr
  <2> QED
    BY <2>5, SegmentIs
<1> QED
  BY <1>1, <1>2, <1>3, TestInvariance, PTL DEF TestSpec

-----------------------------------------------------------------------------
(***************************************************************************)
(* What a test can hang on: the guards of its steps, written out           *)
(***************************************************************************)

\* Thread t, in its call, is not at a mutex somebody has; or it is at a step of its
\* program, and there at a join only when all the others have exited.
CanMove(t) ==
  IF pc[t] # "idle" THEN pc[t] \in {"malloc_lock", "sbrk_lock", "free_lock"} => lock = NoThread
  ELSE \/ at[t] \in {"store", "claim"}
       \/ at[t] = "malloc" /\ calls[t] > 0
       \/ at[t] = "free" /\
            (freesNext(t) =>
               calls[t] > 0 /\ (Passed(t) # NULL => asked[Passed(t)] # 0))
       \/ at[t] = "join" /\ \A u \in Workers : at[u] = "end"

\* sbrk_nolock's return after a failed sbrk has left the mutex locked.
HangsOnMutex ==
  version = "nolock" /\ lock # NoThread /\ ~Inside(lock) /\ errno[lock] = "ENOMEM"

\* Who has the mutex outside it has come there by that return.
Left(t) ==
  /\ lock = t /\ ~Inside(t) => errno[t] = "ENOMEM" /\ version = "nolock"
  /\ pc[t] = "sbrk_unlock" /\ ptr[t] = NULL => errno[t] = "ENOMEM"

\* A worker makes at most two calls a round, main one; those thread t may have made.
Made(t) ==
  IF t = Main THEN i[t] + (IF pc[t] = "idle" THEN 0 ELSE 1)
  ELSE 2 * i[t] + (IF at[t] \in {"store", "claim", "free"} THEN 1 ELSE 0)
                + (IF pc[t] = "idle" THEN 0 ELSE 1)

HInv == program # "any" => \A t \in Threads : Left(t) /\ NumCalls <= calls[t] + Made(t)

\* What thread t has to show when it alone has moved.
LEMMA OthersHang ==
  ASSUME HInv, program # "any", NEW t \in Threads,
         version' = version, lock' \in {lock, t, NoThread},
         \A u \in Threads \ {t} :
           UNCHANGED <<pc[u], ptr[u], errno[u], calls[u], i[u], at[u]>>,
         Left(t)', NumCalls <= calls'[t] + Made(t)'
  PROVE  HInv'
<1> SUFFICES ASSUME NEW u \in Threads, u # t
             PROVE  Left(u)' /\ NumCalls <= calls'[u] + Made(u)'
  BY DEF HInv
<1>1. Left(u) /\ NumCalls <= calls[u] + Made(u)
  BY DEF HInv
<1>2. UNCHANGED <<pc[u], ptr[u], errno[u], calls[u], i[u], at[u]>>
  OBVIOUS
<1>3. lock' = u => lock = u
  BY TsMallocAssumption
<1>4. Inside(u)' = Inside(u)
  BY <1>2 DEF Inside
<1>5. Left(u)'
  BY <1>1, <1>2, <1>3, <1>4 DEF Left
<1>6. Made(u)' = Made(u)
  BY <1>2 DEF Made, Main
<1> QED
  BY <1>1, <1>2, <1>5, <1>6

\* A step inside a call: after a failed sbrk the mutex may stay behind, and so does
\* the error.
LEMMA InnerLeft ==
  ASSUME MInv, NEW t \in Threads, Inner(t), Left(t)
  PROVE  /\ Left(t)' /\ version' = version /\ lock' \in {lock, t, NoThread}
         /\ pc[t] # "idle" /\ pc'[t] # "idle" /\ calls' = calls
         /\ \A u \in Threads \ {t} : UNCHANGED <<pc[u], ptr[u], errno[u]>>
<1>1. /\ ListsEmpty /\ pc \in [Threads -> PCs] /\ ptr \in [Threads -> Ptr]
      /\ errno \in [Threads -> {"ENOMEM", "other"}] /\ version \in {"lock", "nolock"}
      /\ pc[t] = "sbrk_unlock" => version # "lock"
  BY TsMallocAssumption DEF MInv, LInv, TypeOK
<1> USE DEF Left, Inside
<1>2. CASE acquire(t)
  <2>1. PICK from_to \in {<<"malloc_lock", "search">>, <<"sbrk_lock", "sbrk_read">>,
                          <<"free_lock", "free_body">>} :
          pc[t] = from_to[1] /\ pc' = [pc EXCEPT ![t] = from_to[2]]
    BY <1>2 DEF acquire, Goto
  <2>2. UNCHANGED <<version, errno, ptr, calls>> /\ lock' = t
    BY <1>2 DEF acquire, client
  <2> QED
    BY <1>1, <2>1, <2>2
<1>3. CASE bf_malloc(t)
  <2>1. findBestFit(mem, head, req[t]) = NULL
    BY <1>1, NothingFits DEF ListsEmpty
  <2>2. /\ pc[t] = "search" /\ pc' = [pc EXCEPT ![t] = "sbrk_read"]
        /\ ptr' = [ptr EXCEPT ![t] = NULL]
        /\ UNCHANGED <<version, errno, lock, calls>>
    BY <1>3, <2>1 DEF bf_malloc, Goto, client
  <2> QED
    BY <1>1, <2>2
<1>4. CASE sbrkRead(t)
  <2>1. /\ pc[t] = "sbrk_read" /\ pc' = [pc EXCEPT ![t] = "sbrk_set"]
        /\ ptr' = [ptr EXCEPT ![t] = brk]
        /\ UNCHANGED <<version, errno, lock, calls>>
    BY <1>4 DEF sbrkRead, Goto, client
  <2> QED
    BY <1>1, <2>1
<1>5. CASE sbrkSet(t)
  <2>1. /\ pc[t] = "sbrk_set" /\ UNCHANGED <<version, lock, calls>>
        /\ pc' = [pc EXCEPT ![t] = IF version = "lock" THEN "allocate" ELSE "sbrk_unlock"]
    BY <1>5 DEF sbrkSet, Goto, client
  <2>2. \/ ptr' = ptr /\ errno' = errno
        \/ /\ ptr' = [ptr EXCEPT ![t] = NULL]
           /\ errno' = [errno EXCEPT ![t] = "ENOMEM"]
    BY <1>5 DEF sbrkSet
  <2>3. ptr[t] # NULL
    <3>1. ptr[t] = brk /\ brk \in Addr
      BY <2>1 DEF MInv, TypeOK
    <3> QED
      BY <3>1, Numbers DEF Addr, NULL
  <2> QED
    BY <1>1, <2>1, <2>2, <2>3
<1>6. CASE sbrk_nolock(t)
  <2>1. /\ pc[t] = "sbrk_unlock" /\ pc' = [pc EXCEPT ![t] = "allocate"]
        /\ UNCHANGED <<version, errno, calls>>
    BY <1>6 DEF sbrk_nolock, Goto, client
  <2>2. \/ /\ ptr[t] = NULL \/ errno[t] = "ENOMEM"
           /\ ptr' = [ptr EXCEPT ![t] = NULL] /\ lock' = lock
        \/ lock' = NoThread /\ ptr' = ptr
    BY <1>6 DEF sbrk_nolock
  <2>3. NoThread # t
    BY TsMallocAssumption
  <2> QED
    BY <1>1, <2>1, <2>2, <2>3
<1>7. CASE allocateMemory(t)
  <2>1. /\ pc[t] = "allocate" /\ UNCHANGED <<version, errno, lock, calls>>
        /\ pc' = [pc EXCEPT ![t] = IF version = "lock" THEN "malloc_unlock" ELSE "return"]
        /\ ptr' = ptr \/ ptr' = [ptr EXCEPT ![t] = NULL]
    BY <1>7 DEF allocateMemory, Goto, client
  <2> QED
    BY <1>1, <2>1
<1>8. CASE releaseMalloc(t)
  <2>1. /\ pc[t] = "malloc_unlock" /\ pc' = [pc EXCEPT ![t] = "return"]
        /\ lock' = NoThread /\ UNCHANGED <<version, errno, ptr, calls>>
    BY <1>8 DEF releaseMalloc, Goto, client
  <2> QED
    BY <1>1, <2>1, TsMallocAssumption
<1>9. CASE bf_free(t)
  <2>1. /\ pc[t] = "free_body" /\ pc' = [pc EXCEPT ![t] = "free_unlock"]
        /\ UNCHANGED <<version, errno, lock, ptr, calls>>
    BY <1>9 DEF bf_free, Goto, client
  <2> QED
    BY <1>1, <2>1
<1> QED
  BY <1>2, <1>3, <1>4, <1>5, <1>6, <1>7, <1>8, <1>9 DEF Inner

\* What a step outside a call's inner steps, of a thread that may only have released the
\* mutex from inside it, has to show.
LEMMA OutsideLeft ==
  ASSUME HInv, MInv, program # "any", NEW t \in Threads,
         UNCHANGED <<version, errno>>,
         \/ lock' = lock /\ ~Inside(t)
         \/ lock' = NoThread,
         pc'[t] # "sbrk_unlock",
         \A u \in Threads \ {t} : UNCHANGED <<pc[u], ptr[u], calls[u], i[u], at[u]>>,
         NumCalls <= calls'[t] + Made(t)'
  PROVE  HInv'
<1>1. Left(t)
  BY DEF HInv
<1>2. Left(t)'
  BY <1>1, TsMallocAssumption DEF Left
<1>3. lock' \in {lock, t, NoThread}
  OBVIOUS
<1>4. \A u \in Threads \ {t} :
        UNCHANGED <<pc[u], ptr[u], errno[u], calls[u], i[u], at[u]>>
  OBVIOUS
<1> QED
  BY <1>2, <1>3, <1>4, OthersHang

\* The numbers a thread's calls are counted with.
LEMMA Counts ==
  ASSUME TInv, MInv
  PROVE  /\ NumCalls \in Nat
         /\ \A t \in Threads : i[t] \in Nat /\ calls[t] \in Nat
         /\ pc \in [Threads -> PCs] /\ ptr \in [Threads -> Ptr] /\ calls \in [Threads -> Int]
         /\ i \in [Threads -> Nat]
         /\ at \in [Threads -> {"malloc", "store", "claim", "free", "join", "end"}]
<1>1. NumCalls \in Nat
  BY TsMallocAssumption
<1>2. /\ calls \in [Threads -> 0 .. NumCalls] /\ pc \in [Threads -> PCs]
      /\ ptr \in [Threads -> Ptr]
  BY DEF MInv, LInv, TypeOK
<1>3. \A t \in Threads : calls[t] \in Nat
  BY <1>1, <1>2
<1>4. calls \in [Threads -> Int]
  BY <1>1, <1>2
<1> QED
  BY <1>1, <1>2, <1>3, <1>4, Types

\* FREE has returned, or does nothing.
LEMMA FreedMade ==
  ASSUME TInv, MInv, HInv, program # "any", NEW t \in Threads, at[t] = "free", freed(t),
         pc'[t] = "idle",
         \/ pc[t] = "idle" /\ calls'[t] = calls[t] - 1
         \/ pc[t] # "idle" /\ calls'[t] = calls[t]
  PROVE  /\ NumCalls <= calls'[t] + Made(t)'
         /\ \A u \in Threads \ {t} : UNCHANGED <<i[u], at[u]>>
<1>1. /\ i' = [i EXCEPT ![t] = i[t] + 1]
      /\ \E to \in {"malloc", "free", "end"} : at' = [at EXCEPT ![t] = to]
  BY DEF freed, nextRound
<1>2. /\ i'[t] = i[t] + 1 /\ at'[t] \in {"malloc", "free", "end"}
      /\ \A u \in Threads \ {t} : UNCHANGED <<i[u], at[u]>>
  BY <1>1, Counts
<1>3. t # Main => at'[t] \in {"malloc", "end"}
  BY <1>2, Types DEF freed, nextRound
<1>4. NumCalls <= calls[t] + Made(t)
  BY DEF HInv
<1>5. /\ i[t] \in Nat /\ calls[t] \in Nat /\ NumCalls \in Nat
  BY Counts
<1>6. CASE t = Main
  <2>1. /\ Made(t) = i[t] + (IF pc[t] = "idle" THEN 0 ELSE 1)
        /\ Made(t)' = i[t] + 1
    BY <1>2, <1>5, <1>6 DEF Made, Main
  <2> QED
    BY <1>2, <1>4, <1>5, <2>1
<1>7. CASE t # Main
  <2>1. /\ Made(t) = 2 * i[t] + 1 + (IF pc[t] = "idle" THEN 0 ELSE 1)
        /\ Made(t)' = 2 * (i[t] + 1)
    BY <1>2, <1>3, <1>5, <1>7 DEF Made, Main
  <2> QED
    BY <1>2, <1>4, <1>5, <2>1
<1> QED
  BY <1>6, <1>7

\* A worker that makes no call and ends none goes on, in its round or to the next.
LEMMA GoesOnMade ==
  ASSUME TInv, MInv, HInv, program # "any", NEW t \in Workers, at[t] \in {"store", "claim"},
         pc[t] = "idle", UNCHANGED <<pc, calls>>,
         \/ i' = i /\ \E to \in {"claim", "free"} : at' = [at EXCEPT ![t] = to]
         \/ nextRound(t)
  PROVE  /\ NumCalls <= calls'[t] + Made(t)'
         /\ \A u \in Threads \ {t} : UNCHANGED <<i[u], at[u]>>
<1>1. \/ i' = i /\ \E to \in {"claim", "free"} : at' = [at EXCEPT ![t] = to]
      \/ /\ i' = [i EXCEPT ![t] = i[t] + 1]
         /\ \E to \in {"malloc", "end"} : at' = [at EXCEPT ![t] = to]
  BY ThreadsAre DEF nextRound
<1>2. /\ \/ i'[t] = i[t] /\ at'[t] \in {"claim", "free"}
         \/ i'[t] = i[t] + 1 /\ at'[t] \in {"malloc", "end"}
      /\ \A u \in Threads \ {t} : UNCHANGED <<i[u], at[u]>>
  BY <1>1, Counts, ThreadsAre
<1>3. NumCalls <= calls[t] + Made(t)
  BY ThreadsAre DEF HInv
<1>4. /\ i[t] \in Nat /\ calls[t] \in Nat /\ NumCalls \in Nat /\ t # Main
  BY Counts, ThreadsAre
<1>5. Made(t) = 2 * i[t] + 1
  BY <1>4 DEF Made, Main
<1>6. Made(t)' = 2 * i'[t] + (IF at'[t] \in {"store", "claim", "free"} THEN 1 ELSE 0)
  BY <1>2, <1>4 DEF Made, Main
<1>7. Made(t)' >= Made(t) /\ Made(t)' \in Nat /\ Made(t) \in Nat
  BY <1>2, <1>4, <1>5, <1>6
<1> QED
  BY <1>2, <1>3, <1>4, <1>7

LEMMA HangStep ==
  ASSUME TInv, MInv, HInv, [TestNext]_allVars
  PROVE  HInv'
<1> SUFFICES ASSUME program' # "any" PROVE HInv'
  BY DEF HInv
<1>0. program # "any"
  BY DEF TestNext, AnyStep, WorkerStep, MainStep, allVars, test, callMalloc, mallocReturns,
     store, claim, callFree, freeReturns, freed, join, passOver
<1>1. CASE UNCHANGED allVars
  BY <1>1 DEF allVars, vars, client, test, HInv, Left, Inside, Made, Main
<1>2. ASSUME NEW t \in Threads, Inner(t), UNCHANGED test PROVE HInv'
  <2>1. Left(t) /\ NumCalls <= calls[t] + Made(t)
    BY <1>0 DEF HInv
  <2>2. /\ Left(t)' /\ version' = version /\ lock' \in {lock, t, NoThread}
        /\ pc[t] # "idle" /\ pc'[t] # "idle" /\ calls' = calls
        /\ \A u \in Threads \ {t} : UNCHANGED <<pc[u], ptr[u], errno[u]>>
    BY <1>2, <2>1, InnerLeft
  <2>3. UNCHANGED <<i, at>>
    BY <1>2 DEF test
  <2>4. Made(t)' = Made(t)
    BY <2>2, <2>3 DEF Made, Main
  <2>5. NumCalls <= calls'[t] + Made(t)'
    BY <2>1, <2>2, <2>4
  <2>6. \A u \in Threads \ {t} :
          UNCHANGED <<pc[u], ptr[u], errno[u], calls[u], i[u], at[u]>>
    BY <2>2, <2>3
  <2> QED
    BY <1>0, <2>2, <2>5, <2>6, OthersHang
<1>3. ASSUME NEW t \in Workers, callMalloc(t) PROVE HInv'
  <2>1. PICK bytes : ts_malloc_lock(t, bytes) \/ ts_malloc_nolock(t, bytes)
    BY <1>3 DEF callMalloc
  <2>2. findBestFit(mem, ts_nolockHead[t], bytes) = NULL
    BY NothingFits, ThreadsAre DEF MInv, ListsEmpty
  <2>3. PICK to \in {"malloc_lock", "sbrk_lock"} :
          /\ pc[t] = "idle" /\ pc' = [pc EXCEPT ![t] = to]
          /\ calls' = [calls EXCEPT ![t] = calls[t] - 1]
          /\ UNCHANGED <<version, errno, lock>>
    BY <2>1, <2>2 DEF ts_malloc_lock, ts_malloc_nolock, Call, Goto
  <2>4. ptr' = ptr \/ ptr' = [ptr EXCEPT ![t] = NULL]
    BY <2>1, <2>2 DEF ts_malloc_lock, ts_malloc_nolock
  <2>5. /\ t \in Threads /\ t # Main /\ at[t] = "malloc" /\ UNCHANGED <<i, at>>
        /\ i[t] \in Nat /\ calls[t] \in Nat /\ NumCalls \in Nat
    BY <1>3, ThreadsAre, Counts DEF callMalloc, test
  <2>6. /\ pc'[t] \notin {"idle", "sbrk_unlock"} /\ ~Inside(t)
        /\ calls'[t] = calls[t] - 1
        /\ \A u \in Threads \ {t} : UNCHANGED <<pc[u], ptr[u], calls[u], i[u], at[u]>>
    BY <2>3, <2>4, <2>5, Counts DEF Inside
  <2>7. Made(t) = 2 * i[t] /\ Made(t)' = 2 * i[t] + 1
    BY <2>3, <2>5, <2>6 DEF Made, Main
  <2>8. NumCalls <= calls[t] + Made(t)
    BY <1>0, <2>5 DEF HInv
  <2>9. NumCalls <= calls'[t] + Made(t)'
    BY <2>5, <2>6, <2>7, <2>8
  <2> QED
    BY <1>0, <2>3, <2>5, <2>6, <2>9, OutsideLeft
<1>4. ASSUME NEW t \in Workers, mallocReturns(t) PROVE HInv'
  <2>1. /\ at[t] = "malloc" /\ pc[t] = "return" /\ t \in Threads /\ t # Main
        /\ pc' = [pc EXCEPT ![t] = "idle"] /\ ptr' = [ptr EXCEPT ![t] = NULL]
        /\ at' = [at EXCEPT ![t] = "store"]
        /\ UNCHANGED <<version, errno, lock, calls, i>>
    BY <1>4, ThreadsAre DEF mallocReturns, returnMalloc, Hand, Goto
  <2>2. /\ pc'[t] = "idle" /\ at'[t] = "store" /\ ~Inside(t)
        /\ \A u \in Threads \ {t} : UNCHANGED <<pc[u], ptr[u], calls[u], i[u], at[u]>>
    BY <2>1, Counts DEF Inside
  <2>3. i[t] \in Nat /\ NumCalls <= calls[t] + Made(t)
    BY <1>0, <2>1, Counts DEF HInv
  <2>4. Made(t) = 2 * i[t] + 1 /\ Made(t)' = 2 * i[t] + 1
    BY <2>1, <2>2, <2>3 DEF Made, Main
  <2>5. NumCalls <= calls'[t] + Made(t)'
    BY <2>1, <2>3, <2>4
  <2>6. lock' = lock /\ pc'[t] # "sbrk_unlock" /\ UNCHANGED <<version, errno>>
    BY <2>1, <2>2
  <2> QED
    BY <1>0, <2>1, <2>2, <2>5, <2>6, OutsideLeft
<1>5. ASSUME NEW t \in Workers, store(t) \/ claim(t) PROVE HInv'
  <2>1. at[t] \in {"store", "claim"} /\ UNCHANGED vars
    BY <1>5 DEF store, claim
  <2>2. UNCHANGED <<version, errno, lock, pc, ptr, calls>>
    BY <2>1 DEF vars, client
  <2>3. pc[t] = "idle" /\ ~Inside(t) /\ t \in Threads
    BY <1>0, <2>1, OutsideMalloc, ThreadsAre DEF Inside
  <2>4. \/ i' = i /\ \E to \in {"claim", "free"} : at' = [at EXCEPT ![t] = to]
        \/ nextRound(t)
    BY <1>5 DEF store, claim
  <2>5. /\ NumCalls <= calls'[t] + Made(t)'
        /\ \A u \in Threads \ {t} : UNCHANGED <<i[u], at[u]>>
    BY <1>0, <2>1, <2>2, <2>3, <2>4, GoesOnMade
  <2>6. \A u \in Threads \ {t} : UNCHANGED <<pc[u], ptr[u], calls[u], i[u], at[u]>>
    BY <2>2, <2>5
  <2>7. lock' = lock /\ pc'[t] # "sbrk_unlock" /\ UNCHANGED <<version, errno>>
    BY <2>2, <2>3
  <2> QED
    BY <1>0, <2>3, <2>5, <2>6, <2>7, OutsideLeft
<1>6. ASSUME NEW t \in Threads, callFree(t) PROVE HInv'
  <2>1. at[t] = "free" /\ pc[t] = "idle" /\ calls' = [calls EXCEPT ![t] = calls[t] - 1]
        /\ UNCHANGED <<version, errno, lock>>
    BY <1>6 DEF callFree, freesNext, ts_free_lock, ts_free_nolock, GiveBack
  <2>2. /\ ~Inside(t) /\ calls'[t] = calls[t] - 1
        /\ \A u \in Threads \ {t} : calls'[u] = calls[u]
        /\ i[t] \in Nat /\ calls[t] \in Nat /\ NumCalls \in Nat
    BY <2>1, Counts DEF Inside
  <2>3. CASE ts_free_lock(t, malloc_items.address[target(t)]) /\ UNCHANGED test
    <3>1. /\ pc' = [pc EXCEPT ![t] = "free_lock"] /\ UNCHANGED <<i, at>>
          /\ \E b : ptr' = [ptr EXCEPT ![t] = b]
      BY <2>3 DEF ts_free_lock, Goto, test
    <3>2. /\ pc'[t] = "free_lock"
          /\ \A u \in Threads \ {t} : UNCHANGED <<pc[u], ptr[u], calls[u], i[u], at[u]>>
      BY <2>2, <3>1, Counts
    <3>3. ASSUME t = Main PROVE NumCalls <= calls'[t] + Made(t)'
      <4>1. Made(t) = i[t] /\ Made(t)' = i[t] + 1
        BY <2>1, <2>2, <3>1, <3>2, <3>3 DEF Made, Main
      <4>2. NumCalls <= calls[t] + Made(t)
        BY <1>0 DEF HInv
      <4> QED
        BY <2>2, <4>1, <4>2
    <3>4. ASSUME t # Main PROVE NumCalls <= calls'[t] + Made(t)'
      <4>1. Made(t) = 2 * i[t] + 1 /\ Made(t)' = 2 * i[t] + 2
        BY <2>1, <2>2, <3>1, <3>2, <3>4 DEF Made, Main
      <4>2. NumCalls <= calls[t] + Made(t)
        BY <1>0 DEF HInv
      <4> QED
        BY <2>2, <4>1, <4>2
    <3>5. NumCalls <= calls'[t] + Made(t)'
      BY <3>3, <3>4
    <3>6. pc'[t] # "sbrk_unlock" /\ UNCHANGED <<version, errno>> /\ lock' = lock
      BY <2>1, <3>2
    <3> QED
      BY <1>0, <2>2, <3>2, <3>5, <3>6, OutsideLeft
  <2>4. CASE ts_free_nolock(t, Passed(t)) /\ freed(t)
    <3>1. UNCHANGED <<pc, ptr>>
      BY <2>4 DEF ts_free_nolock
    <3>2. /\ NumCalls <= calls'[t] + Made(t)'
          /\ \A u \in Threads \ {t} : UNCHANGED <<i[u], at[u]>>
      BY <1>0, <2>1, <2>2, <2>4, <3>1, FreedMade
    <3>3. \A u \in Threads \ {t} : UNCHANGED <<pc[u], ptr[u], calls[u], i[u], at[u]>>
      BY <2>2, <3>1, <3>2
    <3>4. pc'[t] # "sbrk_unlock" /\ UNCHANGED <<version, errno>> /\ lock' = lock
      BY <2>1, <3>1
    <3> QED
      BY <1>0, <2>2, <3>2, <3>3, <3>4, OutsideLeft
  <2> QED
    BY <1>6, <2>3, <2>4 DEF callFree, Passed
<1>7. ASSUME NEW t \in Threads, freeReturns(t) PROVE HInv'
  <2>1. /\ at[t] = "free" /\ pc[t] = "free_unlock" /\ freed(t) /\ lock' = NoThread
        /\ pc' = [pc EXCEPT ![t] = "idle"] /\ ptr' = [ptr EXCEPT ![t] = NULL]
        /\ UNCHANGED <<version, errno, calls>>
    BY <1>7 DEF freeReturns, releaseFree, Goto, client
  <2>2. /\ pc'[t] = "idle" /\ pc[t] # "idle" /\ calls'[t] = calls[t]
        /\ \A u \in Threads \ {t} : UNCHANGED <<pc[u], ptr[u], calls[u]>>
    BY <2>1, Counts
  <2>3. /\ NumCalls <= calls'[t] + Made(t)'
        /\ \A u \in Threads \ {t} : UNCHANGED <<i[u], at[u]>>
    BY <1>0, <2>1, <2>2, FreedMade
  <2>4. \A u \in Threads \ {t} : UNCHANGED <<pc[u], ptr[u], calls[u], i[u], at[u]>>
    BY <2>2, <2>3
  <2>5. pc'[t] # "sbrk_unlock" /\ UNCHANGED <<version, errno>>
    BY <2>1, <2>2
  <2> QED
    BY <1>0, <2>1, <2>3, <2>4, <2>5, OutsideLeft
<1>8. ASSUME join \/ passOver PROVE HInv'
  <2>1. UNCHANGED <<version, errno, lock, pc, ptr, calls>> /\ Main \in Threads
    BY <1>8, ThreadsAre DEF join, passOver, vars, client
  <2>2. CallAt(Main) /\ at[Main] # "malloc" /\ ~freesNext(Main)
    BY <1>0, <1>8, <2>1 DEF join, passOver, TInv, freesNext
  <2>3. pc[Main] = "idle"
    <3>1. pc[Main] \in PCs
      BY <2>1, Counts
    <3> QED
      BY <2>2, <3>1 DEF CallAt, PCs, MallocPCs, FreePCs
  <2>4. /\ i'[Main] = i[Main] \/ i'[Main] = i[Main] + 1
        /\ \A u \in Threads \ {Main} : UNCHANGED <<i[u], at[u]>>
    BY <1>8, <2>1, Counts DEF join, passOver, nextRound
  <2>5. NumCalls <= calls'[Main] + Made(Main)'
    <3>1. Made(Main) = i[Main] /\ Made(Main)' = i'[Main]
      BY <2>1, <2>3, <2>4, Counts DEF Made, Main
    <3>2. NumCalls <= calls[Main] + Made(Main)
      BY <1>0, <2>1 DEF HInv
    <3>3. i[Main] \in Nat /\ calls[Main] \in Nat /\ NumCalls \in Nat /\ calls'[Main] = calls[Main]
      BY <2>1, Counts
    <3> QED
      BY <2>4, <3>1, <3>2, <3>3
  <2>6. /\ ~Inside(Main) /\ pc'[Main] # "sbrk_unlock" /\ UNCHANGED <<version, errno>>
        /\ \A u \in Threads \ {Main} : UNCHANGED <<pc[u], ptr[u], calls[u], i[u], at[u]>>
    BY <2>1, <2>3, <2>4 DEF Inside
  <2> QED
    BY <1>0, <2>1, <2>5, <2>6, OutsideLeft
<1> QED
  BY <1>0, <1>1, <1>2, <1>3, <1>4, <1>5, <1>6, <1>7, <1>8, ThreadsAre
     DEF TestNext, AnyStep, WorkerStep, MainStep

LEMMA HangInit ==
  ASSUME TestInit
  PROVE  HInv
<1>1. /\ lock = NoThread /\ pc = [t \in Threads |-> "idle"]
      /\ calls = [t \in Threads |-> NumCalls] /\ i = [t \in Threads |-> 0]
      /\ at = [t \in Threads |-> IF t = Main THEN "join" ELSE "malloc"]
  BY DEF TestInit, Init
<1>2. ASSUME NEW t \in Threads PROVE Left(t)
  BY <1>1, TsMallocAssumption DEF Left
<1>3. ASSUME NEW t \in Threads PROVE NumCalls <= calls[t] + Made(t)
  <2>1. Made(t) = 0 /\ calls[t] = NumCalls
    BY <1>1 DEF Made, Main
  <2> QED
    BY <2>1, TsMallocAssumption
<1> QED
  BY <1>2, <1>3 DEF HInv

\* The calls the model lets a thread make are enough for its loop: its bound stops no test.
LEMMA CallsLeft ==
  ASSUME TInv, MInv, HInv, program # "any", NEW t \in Threads, pc[t] = "idle",
         at[t] \in {"malloc", "free"}
  PROVE  calls[t] > 0
<1>1. NumCalls <= calls[t] + Made(t)
  BY DEF HInv
<1>2. calls[t] \in Nat /\ i[t] \in Nat /\ NumCalls \in Nat
  BY Counts
<1>3. NumItems \in Nat /\ Total \in Nat /\ NumItems <= Total /\ Total + NumItems <= NumCalls
  BY Layout, ThreadTestsAssumption
<1>4. CASE t = Main
  <2>1. Made(t) = i[t]
    BY <1>2, <1>4 DEF Made, Main
  <2>2. i[t] < Total
    BY <1>4 DEF TInv, MainAt
  <2> QED
    BY <1>1, <1>2, <1>3, <2>1, <2>2
<1>5. CASE t # Main
  <2>1. Made(t) <= 2 * i[t] + 1 /\ Made(t) \in Nat
    BY <1>2, <1>5 DEF Made, Main
  <2>2. i[t] < NumItems
    BY <1>5, ThreadsAre, InRange
  <2> QED
    BY <1>1, <1>2, <1>3, <2>1, <2>2
<1> QED
  BY <1>4, <1>5

\* What ts_free_nolock takes is NULL or a block still allocated.
LEMMA PassedIsHeld ==
  ASSUME FreesWhatIsHeld, program # "any", NEW t \in Threads, pc[t] = "idle", freesNext(t),
         Passed(t) # NULL
  PROVE  asked[Passed(t)] # 0
<1>1. malloc_items.address[target(t)] \in Ptr /\ Passed(t) = malloc_items.address[target(t)]
  BY DEF Passed
<1>2. malloc_items.address[target(t)] \in Addr
  BY <1>1 DEF Ptr
<1> QED
  BY <1>1, <1>2 DEF FreesWhatIsHeld

\* In any state, somebody can go on, or the mutex has been left behind.
LEMMA SomebodyGoesOn ==
  ASSUME TInv, MInv, HInv, FreesWhatIsHeld, program # "any", at[Main] # "end"
  PROVE  (\E t \in Threads : CanMove(t)) \/ HangsOnMutex
<1>1. CASE \E t \in Threads : pc[t] \notin {"idle", "malloc_lock", "sbrk_lock", "free_lock"}
  BY <1>1 DEF CanMove
<1>2. CASE /\ \A t \in Threads : pc[t] \in {"idle", "malloc_lock", "sbrk_lock", "free_lock"}
           /\ \E t \in Threads : pc[t] # "idle"
  <2>1. CASE lock = NoThread
    BY <1>2, <2>1 DEF CanMove
  <2>2. CASE lock # NoThread
    <3>1. PICK u \in Threads : lock = u
      BY <2>2 DEF MInv, TypeOK
    <3>2. ~Inside(u)
      BY <1>2 DEF Inside
    <3>3. Left(u)
      BY DEF HInv
    <3> QED
      BY <2>2, <3>1, <3>2, <3>3 DEF HangsOnMutex, Left
  <2> QED
    BY <2>1, <2>2
<1>3. CASE \A t \in Threads : pc[t] = "idle"
  <2>1. CASE at[Main] = "free"
    <3>1. ASSUME freesNext(Main), Passed(Main) # NULL PROVE asked[Passed(Main)] # 0
      BY <1>3, <3>1, ThreadsAre, PassedIsHeld
    <3>2. calls[Main] > 0
      BY <1>3, <2>1, ThreadsAre, CallsLeft
    <3> QED
      BY <1>3, <2>1, <3>1, <3>2, ThreadsAre DEF CanMove
  <2>2. CASE at[Main] = "join" /\ \A u \in Workers : at[u] = "end"
    BY <1>3, <2>2, ThreadsAre DEF CanMove
  <2>3. CASE at[Main] = "join" /\ \E u \in Workers : at[u] # "end"
    <3>1. PICK u \in Workers : at[u] # "end"
      BY <2>3
    <3>2. u \in Threads /\ at[u] \in {"malloc", "store", "claim", "free"}
      BY <3>1, ThreadsAre DEF TInv, WorkerAt
    <3>3. at[u] \in {"malloc", "free"} => calls[u] > 0
      BY <1>3, <3>2, CallsLeft
    <3>4. ASSUME freesNext(u), Passed(u) # NULL PROVE asked[Passed(u)] # 0
      BY <1>3, <3>2, <3>4, PassedIsHeld
    <3> QED
      BY <1>3, <3>2, <3>3, <3>4 DEF CanMove
  <2> QED
    BY <2>1, <2>2, <2>3 DEF TInv, MainAt
<1> QED
  BY <1>1, <1>2, <1>3

\* For any number of threads and items, in both builds: until main has returned some
\* thread has what it waits for, unless a failed sbrk has left the mutex of the no-lock
\* build locked; so that this return is all a test can hang on, and in the lock build
\* there is nothing.
THEOREM OnlyALostMutexHangs ==
  TestSpec => [](program # "any" =>
                   at[Main] = "end" \/ (\E t \in Threads : CanMove(t)) \/ HangsOnMutex)
<1>1. TestInit => HInv
  BY HangInit
<1>2. MInv /\ TInv /\ HInv /\ [TestNext]_allVars => HInv'
  BY HangStep
<1>3. MInv /\ TInv /\ HInv /\ FreesWhatIsHeld =>
        (program # "any" =>
           at[Main] = "end" \/ (\E t \in Threads : CanMove(t)) \/ HangsOnMutex)
  BY SomebodyGoesOn
<1> QED
  BY <1>1, <1>2, <1>3, TestInvariance, HeldIsFreed, PTL DEF TestSpec
=============================================================================
