---------------------------- MODULE TsMallocProofs ----------------------------
(***************************************************************************)
(* project2/my_malloc.c for any number of threads and calls: the mutex, and *)
(* what the calls do to memory.                                            *)
(***************************************************************************)
EXTENDS TsMalloc, TLAPS

PCs == {"idle", "malloc_lock", "search", "sbrk_lock", "sbrk_read", "sbrk_set",
        "sbrk_unlock", "allocate", "malloc_unlock", "return", "free_lock",
        "free_body", "free_unlock"}

\* MutualExclusion made inductive: sbrk_nolock's own unlock is not on the path of
\* the lock build.
LInv ==
  /\ pc \in [Threads -> PCs]
  /\ MutualExclusion
  /\ \A t \in Threads : pc[t] = "sbrk_unlock" => version # "lock"

LInside(v, at) ==
  \/ at \in {"search", "sbrk_read", "sbrk_set", "sbrk_unlock",
             "malloc_unlock", "free_body", "free_unlock"}
  \/ at = "allocate" /\ v = "lock"

\* One thread moves on, in the build it is in.
Moves(t, to) ==
  /\ version' = version
  /\ pc' = [pc EXCEPT ![t] = to]
  /\ to \in PCs
  /\ to = "sbrk_unlock" => version # "lock"

\* A thread that stays inside the mutex, or outside it, and leaves it alone.
LEMMA MutexLeftAlone ==
  ASSUME LInv, NEW t \in Threads, NEW to, Moves(t, to), lock' = lock,
         LInside(version, to) => Inside(t),
         Inside(t) /\ version = "lock" => LInside(version, to)
  PROVE  LInv'
BY DEF LInv, Moves, MutualExclusion, Inside, LInside, PCs

\* A thread that finds the mutex free and takes it.
LEMMA MutexTaken ==
  ASSUME LInv, NEW t \in Threads, NEW to, Moves(t, to),
         lock = NoThread, lock' = t, LInside(version, to)
  PROVE  LInv'
BY TsMallocAssumption DEF LInv, Moves, MutualExclusion, Inside, LInside, PCs

\* A thread that has the mutex and releases it.
LEMMA MutexReleased ==
  ASSUME LInv, NEW t \in Threads, NEW to, Moves(t, to),
         Inside(t), lock' = NoThread, ~LInside(version, to)
  PROVE  LInv'
BY TsMallocAssumption DEF LInv, Moves, MutualExclusion, Inside, LInside, PCs

\* What the steps of a thread do to the mutex.
LEMMA ThreadStep ==
  ASSUME LInv, NEW t \in Threads, Enter(t) \/ Inner(t) \/ Return(t)
  PROVE  LInv'
<1>1. ASSUME NEW size, ts_malloc_lock(t, size) PROVE LInv'
  <2>1. Moves(t, "malloc_lock") /\ lock' = lock /\ pc[t] = "idle"
    BY <1>1 DEF ts_malloc_lock, Call, Goto, Moves, PCs
  <2> QED
    BY <2>1, MutexLeftAlone DEF Inside, LInside
<1>2. ASSUME NEW size, ts_malloc_nolock(t, size) PROVE LInv'
  <2>1. PICK to \in {"sbrk_lock", "return"} : pc' = [pc EXCEPT ![t] = to]
    BY <1>2 DEF ts_malloc_nolock, Call, Goto
  <2>2. version' = version /\ lock' = lock /\ pc[t] = "idle"
    BY <1>2 DEF ts_malloc_nolock, Call
  <2>3. Moves(t, to)
    BY <2>1, <2>2 DEF Moves, PCs
  <2> QED
    BY <2>1, <2>2, <2>3, MutexLeftAlone DEF Inside, LInside
<1>3. ASSUME acquire(t) PROVE LInv'
  <2>1. PICK to \in {"search", "sbrk_read", "free_body"} : pc' = [pc EXCEPT ![t] = to]
    <3>1. PICK from_to \in {<<"malloc_lock", "search">>, <<"sbrk_lock", "sbrk_read">>,
                            <<"free_lock", "free_body">>} :
            pc' = [pc EXCEPT ![t] = from_to[2]]
      BY <1>3 DEF acquire, Goto
    <3>2. from_to[2] \in {"search", "sbrk_read", "free_body"}
      OBVIOUS
    <3> QED
      BY <3>1, <3>2
  <2>2. version' = version /\ lock = NoThread /\ lock' = t
    BY <1>3 DEF acquire
  <2>3. Moves(t, to) /\ LInside(version, to)
    BY <2>1, <2>2 DEF Moves, PCs, LInside
  <2> QED
    BY <2>2, <2>3, MutexTaken
<1>4. ASSUME bf_malloc(t) PROVE LInv'
  <2>1. PICK to \in {"sbrk_read", "malloc_unlock"} : pc' = [pc EXCEPT ![t] = to]
    BY <1>4 DEF bf_malloc, Goto
  <2>2. version' = version /\ lock' = lock /\ pc[t] = "search"
    BY <1>4 DEF bf_malloc
  <2>3. Moves(t, to)
    BY <2>1, <2>2 DEF Moves, PCs
  <2> QED
    BY <2>1, <2>2, <2>3, MutexLeftAlone DEF Inside, LInside
<1>5. ASSUME sbrkRead(t) PROVE LInv'
  <2>1. Moves(t, "sbrk_set") /\ lock' = lock /\ pc[t] = "sbrk_read"
    BY <1>5 DEF sbrkRead, Goto, Moves, PCs
  <2> QED
    BY <2>1, MutexLeftAlone DEF Inside, LInside
<1>6. ASSUME sbrkSet(t) PROVE LInv'
  <2>1. PICK to : /\ to = IF version = "lock" THEN "allocate" ELSE "sbrk_unlock"
                  /\ pc' = [pc EXCEPT ![t] = to]
    BY <1>6 DEF sbrkSet, Goto
  <2>2. version' = version /\ lock' = lock /\ pc[t] = "sbrk_set"
    BY <1>6 DEF sbrkSet
  <2>3. Moves(t, to) /\ LInside(version, to)
    BY <2>1, <2>2 DEF Moves, PCs, LInside
  <2> QED
    BY <2>2, <2>3, MutexLeftAlone DEF Inside
<1>7. ASSUME sbrk_nolock(t) PROVE LInv'
  <2>1. /\ version' = version /\ pc[t] = "sbrk_unlock"
        /\ pc' = [pc EXCEPT ![t] = "allocate"]
        /\ lock' = lock \/ lock' = NoThread
    BY <1>7 DEF sbrk_nolock, Goto
  <2>2. version # "lock"
    BY <2>1 DEF LInv
  <2>3. Moves(t, "allocate") /\ Inside(t) /\ ~LInside(version, "allocate")
    BY <2>1, <2>2 DEF Moves, PCs, Inside, LInside
  <2> QED
    BY <2>1, <2>2, <2>3, MutexLeftAlone, MutexReleased
<1>8. ASSUME allocateMemory(t) PROVE LInv'
  <2>1. PICK to : /\ to = IF version = "lock" THEN "malloc_unlock" ELSE "return"
                  /\ pc' = [pc EXCEPT ![t] = to]
    BY <1>8 DEF allocateMemory, Goto
  <2>2. version' = version /\ lock' = lock /\ pc[t] = "allocate"
    BY <1>8 DEF allocateMemory
  <2>3. Moves(t, to)
    BY <2>1, <2>2 DEF Moves, PCs
  <2> QED
    BY <2>1, <2>2, <2>3, MutexLeftAlone DEF Inside, LInside
<1>9. ASSUME releaseMalloc(t) PROVE LInv'
  <2>1. Moves(t, "return") /\ lock' = NoThread /\ pc[t] = "malloc_unlock"
    BY <1>9 DEF releaseMalloc, Goto, Moves, PCs
  <2> QED
    BY <2>1, MutexReleased DEF Inside, LInside
<1>10. ASSUME returnMalloc(t) PROVE LInv'
  <2>1. Moves(t, "idle") /\ lock' = lock /\ pc[t] = "return"
    BY <1>10 DEF returnMalloc, Hand, Goto, Moves, PCs
  <2> QED
    BY <2>1, MutexLeftAlone DEF Inside, LInside
<1>11. ASSUME NEW b, ts_free_lock(t, b) PROVE LInv'
  <2>1. Moves(t, "free_lock") /\ lock' = lock /\ pc[t] = "idle"
    BY <1>11 DEF ts_free_lock, GiveBack, Goto, Moves, PCs
  <2> QED
    BY <2>1, MutexLeftAlone DEF Inside, LInside
<1>12. ASSUME bf_free(t) PROVE LInv'
  <2>1. Moves(t, "free_unlock") /\ lock' = lock /\ pc[t] = "free_body"
    BY <1>12 DEF bf_free, Goto, Moves, PCs
  <2> QED
    BY <2>1, MutexLeftAlone DEF Inside, LInside
<1>13. ASSUME releaseFree(t) PROVE LInv'
  <2>1. Moves(t, "idle") /\ lock' = NoThread /\ pc[t] = "free_unlock"
    BY <1>13 DEF releaseFree, Goto, Moves, PCs
  <2> QED
    BY <2>1, MutexReleased DEF Inside, LInside
<1>14. ASSUME NEW b, ts_free_nolock(t, b) PROVE LInv'
  <2>1. UNCHANGED <<version, lock, pc>>
    BY <1>14 DEF ts_free_nolock
  <2> QED
    BY <2>1 DEF LInv, MutualExclusion, Inside
<1> QED
  BY <1>1, <1>2, <1>3, <1>4, <1>5, <1>6, <1>7, <1>8, <1>9, <1>10, <1>11, <1>12,
     <1>13, <1>14 DEF Enter, Inner, Return

LEMMA LInvStep ==
  ASSUME LInv, [Next]_vars
  PROVE  LInv'
<1>1. ASSUME NEW t \in Threads, LibcErrno(t) PROVE LInv'
  <2>1. UNCHANGED <<version, lock, pc>>
    BY <1>1 DEF LibcErrno
  <2> QED
    BY <2>1 DEF LInv, MutualExclusion, Inside
<1>2. CASE UNCHANGED vars
  BY <1>2 DEF vars, LInv, MutualExclusion, Inside
<1> QED
  BY <1>1, <1>2, ThreadStep DEF Next

\* In both builds, for any number of threads: no two threads are inside the
\* mutex, and in the lock build it is free whenever nobody is inside, so that no
\* path out of a call, not even that of a failed sbrk, keeps it.
THEOREM MutexExcludes == Spec => []MutualExclusion
<1>1. Init => LInv
  BY TsMallocAssumption DEF Init, LInv, MutualExclusion, Inside, PCs
<1>2. LInv => MutualExclusion
  BY DEF LInv
<1> QED
  BY <1>1, <1>2, LInvStep, PTL DEF Spec

-----------------------------------------------------------------------------
(***************************************************************************)
(* Memory                                                                  *)
(***************************************************************************)

MallocPCs == {"malloc_lock", "search", "sbrk_lock", "sbrk_read", "sbrk_set",
              "sbrk_unlock", "allocate", "malloc_unlock", "return"}

\* Nobody assigns to the ends of a list.
ListsEmpty ==
  /\ head = NULL /\ tail = NULL
  /\ \A t \in Threads : ts_nolockHead[t] = NULL /\ ts_nolockTail[t] = NULL

\* Thread t has memory from sbrk and has not written its header yet.
Claims(t) == pc[t] \in {"sbrk_unlock", "allocate"} /\ ptr[t] # NULL

EndOfClaim(t) == ptr[t] + MetaSize + req[t]

ClaimsApart ==
  \A t \in Threads : Claims(t) =>
    /\ EndOfClaim(t) <= brk
    /\ \A b \in mem.blocks : EndOf(mem, b) <= ptr[t] \/ EndOfClaim(t) <= b
    /\ \A u \in Threads \ {t} : Claims(u) =>
         EndOfClaim(u) <= ptr[t] \/ EndOfClaim(t) <= ptr[u]

\* Thread t has a block on its way to the client, or back.
HasNew(t) == pc[t] \in {"malloc_unlock", "return"} /\ ptr[t] # NULL
HasOld(t) == pc[t] \in {"free_lock", "free_body"} /\ ptr[t] # NULL
Has(t)    == HasNew(t) \/ HasOld(t)

HandsApart ==
  \A t \in Threads : Has(t) =>
    /\ ptr[t] \in mem.blocks /\ mem.allocated[ptr[t]] /\ asked[ptr[t]] = 0
    /\ HasNew(t) => mem.dataSize[ptr[t]] = req[t]
    /\ \A u \in Threads \ {t} : Has(u) => ptr[u] # ptr[t]

MInv ==
  /\ LInv
  /\ TypeOK
  /\ ListsEmpty
  /\ BlocksDisjoint
  /\ HeldIsIntact
  /\ \A t \in Threads : pc[t] \in MallocPCs => req[t] \in Sizes
  /\ \A t \in Threads : pc[t] = "sbrk_set" => ptr[t] = brk
  /\ ClaimsApart
  /\ HandsApart

LEMMA InitMInv == Init => MInv
<1> SUFFICES ASSUME Init PROVE MInv
  OBVIOUS
<1>1. LInv
  BY TsMallocAssumption DEF Init, LInv, MutualExclusion, Inside, PCs
<1>2. TypeOK
  BY TsMallocAssumption DEF Init, TypeOK, Memory, Addr, Ptr, NULL
<1> QED
  BY <1>1, <1>2 DEF Init, MInv, ListsEmpty, BlocksDisjoint, HeldIsIntact, MallocPCs,
     ClaimsApart, Claims, HandsApart, Has, HasNew, HasOld

\* A search of an empty list finds nothing.
LEMMA NothingFits ==
  ASSUME NEW m, NEW size
  PROVE  findBestFit(m, NULL, size) = NULL
BY DEF findBestFit

\* A block freed into an empty list is marked, and that is all.
LEMMA OnlyMarked ==
  ASSUME NEW m \in Memory, NEW b \in Addr
  PROVE  freeMemoryBlock(m, NULL, NULL, b) = [m EXCEPT !.allocated[b] = FALSE]
<1>1. isEmptyFreeList(NULL, NULL)
  BY DEF isEmptyFreeList
<1>2. freeMemoryBlock(m, NULL, NULL, b) =
        appendToFreeList([m EXCEPT !.allocated[b] = FALSE], NULL, NULL, b)
  BY <1>1 DEF freeMemoryBlock
<1> QED
  BY <1>1, <1>2 DEF appendToFreeList, Memory

\* What a new header does to the memory.
LEMMA Written ==
  ASSUME mem \in Memory, NEW t \in Threads, ptr[t] \in Addr, req[t] \in Nat,
         mem' = initializeMemoryBlock(mem, ptr[t], req[t], TRUE)
  PROVE  /\ mem' \in Memory /\ mem'.blocks = mem.blocks \cup {ptr[t]}
         /\ mem'.dataSize[ptr[t]] = req[t] /\ mem'.allocated[ptr[t]]
         /\ \A c \in Addr \ {ptr[t]} : /\ mem'.dataSize[c] = mem.dataSize[c]
                                      /\ mem'.allocated[c] = mem.allocated[c]
<1> USE DEF initializeMemoryBlock, Memory
<1>1. mem' \in Memory /\ mem'.blocks = mem.blocks \cup {ptr[t]}
  BY DEF Ptr, NULL
<1>2. mem'.dataSize[ptr[t]] = req[t] /\ mem'.allocated[ptr[t]]
  OBVIOUS
<1>3. \A c \in Addr \ {ptr[t]} : /\ mem'.dataSize[c] = mem.dataSize[c]
                               /\ mem'.allocated[c] = mem.allocated[c]
  OBVIOUS
<1> QED
  BY <1>1, <1>2, <1>3

\* A step of thread t that changes no block and no region, and keeps only a claim or a
\* block that the thread had.
Quiet(t, to) ==
  /\ UNCHANGED <<mem, lists, brk, asked>>
  /\ pc' = [pc EXCEPT ![t] = to]
  /\ \A u \in Threads \ {t} : ptr'[u] = ptr[u] /\ req'[u] = req[u]
  /\ to \in MallocPCs => req'[t] \in Sizes
  /\ to = "sbrk_set" => ptr'[t] = brk
  /\ to \in {"sbrk_unlock", "allocate"} =>
       ptr'[t] = NULL \/ (Claims(t) /\ ptr'[t] = ptr[t] /\ req'[t] = req[t])
  /\ to \in {"malloc_unlock", "return"} =>
       ptr'[t] = NULL \/ (HasNew(t) /\ ptr'[t] = ptr[t] /\ req'[t] = req[t])
  /\ to \in {"free_lock", "free_body"} =>
       ptr'[t] = NULL \/ (HasOld(t) /\ ptr'[t] = ptr[t])

LEMMA QuietStep ==
  ASSUME MInv, LInv', TypeOK', NEW t \in Threads, NEW to, Quiet(t, to)
  PROVE  MInv'
<1>1. pc \in [Threads -> PCs]
  BY DEF MInv, LInv
<1>2. \A u \in Threads : pc'[u] = IF u = t THEN to ELSE pc[u]
  BY <1>1 DEF Quiet
<1>3. UNCHANGED <<mem, lists, brk, asked>>
  BY DEF Quiet
<1>4. ListsEmpty' /\ BlocksDisjoint' /\ HeldIsIntact'
  BY <1>3 DEF MInv, ListsEmpty, BlocksDisjoint, HeldIsIntact, lists, EndOf
<1>5. \A u \in Threads : pc'[u] \in MallocPCs => req'[u] \in Sizes
  BY <1>2 DEF MInv, Quiet
<1>6. \A u \in Threads : pc'[u] = "sbrk_set" => ptr'[u] = brk'
  BY <1>2, <1>3 DEF MInv, Quiet
<1>7. \A u \in Threads : Claims(u)' => Claims(u) /\ ptr'[u] = ptr[u] /\ req'[u] = req[u]
  BY <1>2 DEF Quiet, Claims
<1>8. \A u \in Threads : /\ HasNew(u)' => HasNew(u) /\ ptr'[u] = ptr[u] /\ req'[u] = req[u]
                         /\ HasOld(u)' => HasOld(u) /\ ptr'[u] = ptr[u]
  BY <1>2 DEF Quiet, HasNew, HasOld
<1>9. ClaimsApart'
  BY <1>3, <1>7 DEF MInv, ClaimsApart, EndOfClaim, EndOf
<1>10. HandsApart'
  BY <1>3, <1>8 DEF MInv, HandsApart, Has
<1> QED
  BY <1>4, <1>5, <1>6, <1>9, <1>10 DEF MInv

\* A call leaves every variable it assigns to in its type.
LEMMA CallKeepsTypes ==
  ASSUME TypeOK, NEW t \in Threads, NEW size \in Sizes, NEW to \in MallocPCs,
         Call(t, size, to), mem' \in Memory, ptr' \in [Threads -> Ptr]
  PROVE  TypeOK'
<1>1. UNCHANGED <<version, lists, brk, lock, errno, asked>>
  BY DEF Call
<1>2. calls' \in [Threads -> 0 .. NumCalls]
  <2>1. calls[t] \in 0 .. NumCalls /\ calls[t] > 0 /\ NumCalls \in Nat
    BY TsMallocAssumption DEF TypeOK, Call
  <2>2. calls[t] - 1 \in 0 .. NumCalls /\ calls' = [calls EXCEPT ![t] = calls[t] - 1]
    BY <2>1 DEF Call
  <2> QED
    BY <2>2 DEF TypeOK
<1>3. req' \in [Threads -> Sizes \cup {0}]
  BY DEF TypeOK, Call
<1>4. pc' = [pc EXCEPT ![t] = to]
  BY DEF Call, Goto
<1> QED
  BY <1>1, <1>2, <1>3, <1>4 DEF TypeOK, lists, MallocPCs

\* The steps that are quiet.
LEMMA QuietActions ==
  ASSUME MInv, LInv', NEW t \in Threads,
         \/ \E size \in Sizes : ts_malloc_lock(t, size) \/ ts_malloc_nolock(t, size)
         \/ acquire(t) \/ bf_malloc(t) \/ sbrkRead(t) \/ sbrk_nolock(t)
         \/ releaseMalloc(t) \/ releaseFree(t)
  PROVE  MInv'
<1> USE DEF MallocPCs
<1>1. TypeOK /\ ListsEmpty
  BY DEF MInv
<1>2. Sizes \subseteq Nat \ {0}
  BY TsMallocAssumption
<1>3. ASSUME NEW size \in Sizes, ts_malloc_lock(t, size) PROVE MInv'
  <2>1. Call(t, size, "malloc_lock") /\ UNCHANGED <<mem, ptr>>
    BY <1>3 DEF ts_malloc_lock
  <2>2. Quiet(t, "malloc_lock")
    BY <1>1, <2>1 DEF Call, Goto, Quiet, TypeOK
  <2>3. TypeOK'
    BY <1>1, <2>1, CallKeepsTypes DEF TypeOK
  <2> QED
    BY <2>2, <2>3, QuietStep
<1>4. ASSUME NEW size \in Sizes, ts_malloc_nolock(t, size) PROVE MInv'
  <2>1. findBestFit(mem, ts_nolockHead[t], size) = NULL
    BY <1>1, NothingFits DEF ListsEmpty
  <2>2. /\ Call(t, size, "sbrk_lock")
        /\ ptr' = [ptr EXCEPT ![t] = NULL] /\ mem' = mem
    BY <1>4, <2>1 DEF ts_malloc_nolock
  <2>3. Quiet(t, "sbrk_lock")
    BY <1>1, <2>2 DEF Call, Goto, Quiet, TypeOK
  <2>4. ptr' \in [Threads -> Ptr]
    BY <1>1, <2>2 DEF TypeOK, Ptr
  <2>5. TypeOK'
    BY <1>1, <2>2, <2>4, CallKeepsTypes DEF TypeOK
  <2> QED
    BY <2>3, <2>5, QuietStep
<1>5. ASSUME acquire(t) PROVE MInv'
  <2>1. PICK from_to \in {<<"malloc_lock", "search">>, <<"sbrk_lock", "sbrk_read">>,
                          <<"free_lock", "free_body">>} :
          pc[t] = from_to[1] /\ pc' = [pc EXCEPT ![t] = from_to[2]]
    BY <1>5 DEF acquire, Goto
  <2>2. UNCHANGED <<version, mem, lists, brk, errno, req, ptr, client>> /\ lock' = t
    BY <1>5 DEF acquire
  <2>3. pc[t] \in MallocPCs => req[t] \in Sizes
    BY DEF MInv
  <2>4. Quiet(t, from_to[2])
    BY <2>1, <2>2, <2>3 DEF Quiet, HasOld, client
  <2>5. TypeOK'
    BY <1>1, <2>1, <2>2 DEF TypeOK, lists, client
  <2> QED
    BY <2>4, <2>5, QuietStep
<1>6. ASSUME bf_malloc(t) PROVE MInv'
  <2>1. findBestFit(mem, head, req[t]) = NULL
    BY <1>1, NothingFits DEF ListsEmpty
  <2>2. /\ pc[t] = "search" /\ pc' = [pc EXCEPT ![t] = "sbrk_read"]
        /\ ptr' = [ptr EXCEPT ![t] = NULL] /\ mem' = mem
        /\ UNCHANGED <<version, lists, brk, lock, errno, req, client>>
    BY <1>6, <2>1 DEF bf_malloc, Goto
  <2>3. Quiet(t, "sbrk_read")
    BY <1>1, <2>2 DEF MInv, Quiet, client, TypeOK
  <2>4. TypeOK'
    BY <1>1, <2>2 DEF TypeOK, lists, client, Ptr
  <2> QED
    BY <2>3, <2>4, QuietStep
<1>7. ASSUME sbrkRead(t) PROVE MInv'
  <2>1. Quiet(t, "sbrk_set")
    BY <1>1, <1>7 DEF MInv, sbrkRead, Goto, Quiet, client, TypeOK
  <2>2. TypeOK'
    BY <1>1, <1>7 DEF sbrkRead, Goto, TypeOK, lists, client, Ptr
  <2> QED
    BY <2>1, <2>2, QuietStep
<1>8. ASSUME sbrk_nolock(t) PROVE MInv'
  <2>1. /\ pc[t] = "sbrk_unlock" /\ pc' = [pc EXCEPT ![t] = "allocate"]
        /\ ptr' = [ptr EXCEPT ![t] = NULL] \/ ptr' = ptr
        /\ lock' \in {lock, NoThread}
        /\ UNCHANGED <<version, mem, lists, brk, errno, req, client>>
    BY <1>8 DEF sbrk_nolock, Goto
  <2>2. Quiet(t, "allocate")
    <3>1. ptr'[t] = NULL \/ ptr' = ptr
      BY <1>1, <2>1 DEF TypeOK
    <3>2. ptr'[t] = NULL \/ (Claims(t) /\ ptr'[t] = ptr[t] /\ req'[t] = req[t])
      <4>1. req' = req /\ pc[t] = "sbrk_unlock"
        BY <2>1
      <4>2. ASSUME ptr' = ptr, ptr[t] # NULL
            PROVE  Claims(t) /\ ptr'[t] = ptr[t] /\ req'[t] = req[t]
        BY <4>1, <4>2 DEF Claims
      <4> QED
        BY <3>1, <4>2 DEF Claims
    <3>3. \A u \in Threads \ {t} : ptr'[u] = ptr[u] /\ req'[u] = req[u]
      BY <1>1, <2>1 DEF TypeOK
    <3>4. req'[t] \in Sizes
      BY <2>1 DEF MInv
    <3> QED
      BY <2>1, <3>2, <3>3, <3>4 DEF Quiet, client
  <2>3. TypeOK'
    BY <1>1, <2>1 DEF TypeOK, lists, client, Ptr
  <2> QED
    BY <2>2, <2>3, QuietStep
<1>9. ASSUME releaseMalloc(t) PROVE MInv'
  <2>1. Quiet(t, "return")
    BY <1>1, <1>9 DEF MInv, releaseMalloc, Goto, Quiet, client, HasNew, TypeOK
  <2>2. TypeOK'
    BY <1>1, <1>9 DEF releaseMalloc, Goto, TypeOK, lists, client
  <2> QED
    BY <2>1, <2>2, QuietStep
<1>10. ASSUME releaseFree(t) PROVE MInv'
  <2>1. Quiet(t, "idle")
    BY <1>1, <1>10 DEF releaseFree, Goto, Quiet, client, TypeOK
  <2>2. TypeOK'
    BY <1>1, <1>10 DEF releaseFree, Goto, TypeOK, lists, client, Ptr
  <2> QED
    BY <2>1, <2>2, QuietStep
<1> QED
  BY <1>3, <1>4, <1>5, <1>6, <1>7, <1>8, <1>9, <1>10

\* The numbers a thread computes with.
LEMMA Numbers ==
  ASSUME TypeOK, NEW t \in Threads
  PROVE  /\ ptr[t] \in Nat /\ req[t] \in Nat /\ EndOfClaim(t) \in Nat
         /\ MetaSize \in Nat \ {0} /\ HeapLimit \in Nat
         /\ brk \in Nat /\ brk >= 1
<1>1. MetaSize \in Nat \ {0} /\ HeapLimit \in Nat
  BY TsMallocAssumption
<1>2. Sizes \cup {0} \subseteq Nat
  BY TsMallocAssumption
<1>3. Ptr \subseteq Nat
  BY <1>1 DEF Ptr, Addr, NULL
<1>4. ptr[t] \in Nat /\ req[t] \in Nat
  BY <1>2, <1>3 DEF TypeOK
<1>5. brk \in Nat /\ brk >= 1
  BY <1>1 DEF TypeOK, Addr
<1> QED
  BY <1>1, <1>4, <1>5 DEF EndOfClaim

\* While one thread is inside the mutex, no other is at its sbrk.
LEMMA SbrkSetApart ==
  ASSUME MInv, LInv', NEW t \in Threads, sbrkSet(t)
  PROVE  MInv'
<1> DEFINE to == IF version = "lock" THEN "allocate" ELSE "sbrk_unlock"
<1>1. /\ pc[t] = "sbrk_set" /\ pc' = [pc EXCEPT ![t] = to]
      /\ ptr[t] = brk /\ req[t] \in Sizes
      /\ UNCHANGED <<version, mem, lists, lock, req, client>>
  BY DEF sbrkSet, Goto, MInv, MallocPCs
<1>2. TypeOK /\ pc \in [Threads -> PCs]
  BY DEF MInv, LInv
<1>3. \A u \in Threads : pc'[u] = IF u = t THEN to ELSE pc[u]
  BY <1>1, <1>2
<1>4. \A u \in Threads \ {t} : pc[u] # "sbrk_set"
  BY <1>1 DEF MInv, LInv, MutualExclusion, Inside
<1>5. CASE ptr[t] + MetaSize + req[t] > HeapLimit
  <2>1. /\ ptr' = [ptr EXCEPT ![t] = NULL] /\ brk' = brk
        /\ errno' = [errno EXCEPT ![t] = "ENOMEM"]
    <3>1. ~(ptr[t] + MetaSize + req[t] <= HeapLimit)
      BY <1>2, <1>5, Numbers
    <3> QED
      BY <3>1 DEF sbrkSet
  <2>2. Quiet(t, to)
    BY <1>1, <1>2, <2>1 DEF Quiet, client, TypeOK
  <2>3. TypeOK'
    BY <1>1, <1>2, <2>1 DEF TypeOK, lists, client, Ptr
  <2> QED
    BY <2>2, <2>3, QuietStep
<1>6. CASE ptr[t] + MetaSize + req[t] <= HeapLimit
  <2>1. brk' = ptr[t] + MetaSize + req[t] /\ UNCHANGED <<ptr, errno>>
    BY <1>6 DEF sbrkSet
  <2>2. brk \in Nat /\ MetaSize \in Nat \ {0} /\ req[t] \in Nat /\ brk >= 1
    BY <1>2, Numbers
  <2>3. brk' = EndOfClaim(t) /\ brk' \in Addr /\ brk <= brk'
    BY <1>1, <1>6, <2>1, <2>2, TsMallocAssumption DEF EndOfClaim, Addr
  <2>4. TypeOK'
    BY <1>1, <1>2, <2>1, <2>3 DEF TypeOK, lists, client
  <2>5. \A b \in mem.blocks : EndOf(mem, b) <= brk /\ EndOf(mem, b) \in Nat
    <3>1. \A b \in mem.blocks : b \in Nat /\ mem.dataSize[b] \in Nat
      BY <1>2, TsMallocAssumption DEF TypeOK, Memory, Addr
    <3>2. \A b \in mem.blocks : EndOf(mem, b) <= brk
      BY DEF MInv, BlocksDisjoint
    <3> QED
      BY <2>2, <3>1, <3>2 DEF EndOf
  <2>6. ListsEmpty' /\ HeldIsIntact' /\ BlocksDisjoint'
    <3>1. BlocksDisjoint'
      BY <1>1, <2>2, <2>3, <2>5, TsMallocAssumption
         DEF MInv, BlocksDisjoint, EndOf, Addr
    <3> QED
      BY <1>1, <3>1 DEF MInv, ListsEmpty, HeldIsIntact, lists, client
  <2>7. /\ \A u \in Threads : pc'[u] \in MallocPCs => req'[u] \in Sizes
        /\ \A u \in Threads : pc'[u] = "sbrk_set" => ptr'[u] = brk'
    BY <1>1, <1>3, <1>4 DEF MInv
  <2>8. \A u \in Threads : HasNew(u)' = HasNew(u) /\ HasOld(u)' = HasOld(u)
    BY <1>1, <1>3, <2>1 DEF HasNew, HasOld
  <2>9. HandsApart'
    BY <1>1, <2>1, <2>8 DEF MInv, HandsApart, Has, client
  <2>10. \A u \in Threads \ {t} : Claims(u)' => Claims(u)
    BY <1>3, <2>1 DEF Claims
  <2>11. \A u \in Threads : EndOfClaim(u)' = EndOfClaim(u) /\ EndOfClaim(u) \in Nat
    BY <1>1, <1>2, <2>1, Numbers DEF EndOfClaim
  <2>12. \A u \in Threads : Claims(u) => EndOfClaim(u) <= brk
    BY DEF MInv, ClaimsApart
  <2>13. ClaimsApart'
    <3> SUFFICES ASSUME NEW u \in Threads, Claims(u)'
                 PROVE  /\ EndOfClaim(u)' <= brk'
                        /\ \A b \in mem.blocks :
                             EndOf(mem, b) <= ptr[u] \/ EndOfClaim(u) <= b
                        /\ \A w \in Threads \ {u} : Claims(w)' =>
                             EndOfClaim(w) <= ptr[u] \/ EndOfClaim(u) <= ptr[w]
      BY <1>1, <2>1, <2>11 DEF ClaimsApart, EndOf
    <3>1. CASE u = t
      BY <1>1, <2>3, <2>5, <2>10, <2>11, <2>12, <2>2, <3>1 DEF Addr
    <3>2. CASE u # t
      <4>1. Claims(u) /\ EndOfClaim(u) <= brk
        BY <2>10, <2>12, <3>2
      <4>2. EndOfClaim(u)' <= brk'
        BY <4>1, <2>2, <2>3, <2>11 DEF Addr
      <4>3. \A w \in Threads \ {u, t} : Claims(w)' =>
               EndOfClaim(w) <= ptr[u] \/ EndOfClaim(u) <= ptr[w]
        BY <4>1, <2>10 DEF MInv, ClaimsApart
      <4>4. EndOfClaim(u) <= ptr[t]
        BY <1>1, <4>1
      <4>5. \A b \in mem.blocks : EndOf(mem, b) <= ptr[u] \/ EndOfClaim(u) <= b
        BY <4>1 DEF MInv, ClaimsApart
      <4> QED
        BY <4>2, <4>3, <4>4, <4>5
    <3> QED
      BY <3>1, <3>2
  <2> QED
    BY <2>4, <2>6, <2>7, <2>9, <2>13 DEF MInv
<1> QED
  BY <1>2, <1>5, <1>6, Numbers

\* A claim becomes a block of the same bytes.
LEMMA AllocateApart ==
  ASSUME MInv, LInv', NEW t \in Threads, allocateMemory(t)
  PROVE  MInv'
<1> DEFINE to == IF version = "lock" THEN "malloc_unlock" ELSE "return"
<1>1. /\ pc[t] = "allocate" /\ pc' = [pc EXCEPT ![t] = to]
      /\ req[t] \in Sizes
      /\ UNCHANGED <<version, lists, brk, lock, errno, req, client>>
  BY DEF allocateMemory, Goto, MInv, MallocPCs
<1>2. TypeOK /\ pc \in [Threads -> PCs]
  BY DEF MInv, LInv
<1>3. \A u \in Threads : pc'[u] = IF u = t THEN to ELSE pc[u]
  BY <1>1, <1>2
<1>4. CASE ptr[t] = NULL \/ errno[t] = "ENOMEM"
  <2>1. ptr' = [ptr EXCEPT ![t] = NULL] /\ mem' = mem
    BY <1>4 DEF allocateMemory
  <2>2. Quiet(t, to)
    BY <1>1, <1>2, <2>1 DEF Quiet, client, TypeOK
  <2>3. TypeOK'
    BY <1>1, <1>2, <2>1 DEF TypeOK, lists, client, Ptr
  <2> QED
    BY <2>2, <2>3, QuietStep
<1>5. CASE ~(ptr[t] = NULL \/ errno[t] = "ENOMEM")
  <2> DEFINE b == ptr[t]
  <2>1. ptr' = ptr /\ mem' = initializeMemoryBlock(mem, b, req[t], TRUE)
    BY <1>5 DEF allocateMemory
  <2>2. /\ b \in Addr /\ b \in Nat /\ req[t] \in Nat /\ mem \in Memory
        /\ MetaSize \in Nat \ {0} /\ HeapLimit \in Nat
    BY <1>2, <1>5, Numbers DEF TypeOK, Ptr
  <2>3. /\ mem' \in Memory /\ mem'.blocks = mem.blocks \cup {b}
        /\ mem'.dataSize[b] = req[t] /\ mem'.allocated[b]
        /\ \A c \in Addr \ {b} : /\ mem'.dataSize[c] = mem.dataSize[c]
                                 /\ mem'.allocated[c] = mem.allocated[c]
    BY <2>1, <2>2, Written
  <2>4. TypeOK'
    BY <1>1, <1>2, <2>1, <2>3 DEF TypeOK, lists, client
  <2>5. Claims(t) /\ EndOfClaim(t) = b + MetaSize + req[t]
    BY <1>1, <1>5 DEF Claims, EndOfClaim
  <2>6. /\ EndOfClaim(t) <= brk /\ b < EndOfClaim(t)
        /\ \A c \in mem.blocks : EndOf(mem, c) <= b \/ EndOfClaim(t) <= c
        /\ \A u \in Threads \ {t} : Claims(u) =>
             EndOfClaim(u) <= b \/ EndOfClaim(t) <= ptr[u]
    BY <2>2, <2>5 DEF MInv, ClaimsApart
  <2>7. \A c \in mem.blocks :
          /\ c \in Addr /\ c \in Nat /\ mem.dataSize[c] \in Nat
          /\ EndOf(mem, c) \in Nat /\ c < EndOf(mem, c)
    BY <2>2 DEF Memory, Addr, EndOf
  <2>8. b \notin mem.blocks
    <3> SUFFICES ASSUME b \in mem.blocks PROVE FALSE
      OBVIOUS
    <3>1. b < EndOf(mem, b) /\ EndOf(mem, b) \in Nat /\ EndOfClaim(t) \in Nat
      BY <1>2, <2>7, Numbers
    <3> QED
      BY <2>2, <2>6, <3>1
  <2>9. EndOf(mem', b) = EndOfClaim(t) /\ \A c \in mem.blocks : EndOf(mem', c) = EndOf(mem, c)
    BY <2>3, <2>5, <2>7, <2>8 DEF EndOf
  <2>10. BlocksDisjoint'
    <3>1. \A c \in mem.blocks : EndOf(mem, c) <= brk
      BY DEF MInv, BlocksDisjoint
    <3>2. \A c \in mem.blocks : /\ b < c => EndOfClaim(t) <= c
                                /\ c < b => EndOf(mem, c) <= b
      BY <1>2, <2>2, <2>6, <2>7, Numbers
    <3>3. \A c, d \in mem.blocks : c < d => EndOf(mem, c) <= d
      BY DEF MInv, BlocksDisjoint
    <3>4. \A c \in mem'.blocks : EndOf(mem', c) <= brk'
      BY <1>1, <2>3, <2>6, <2>9, <3>1
    <3>5. \A c, d \in mem'.blocks : c < d => EndOf(mem', c) <= d
      BY <2>2, <2>3, <2>9, <3>2, <3>3
    <3> QED
      BY <3>4, <3>5 DEF BlocksDisjoint
  <2>11. asked' = asked /\ ListsEmpty'
    BY <1>1 DEF MInv, ListsEmpty, lists, client
  <2>12. HeldIsIntact'
    BY <2>3, <2>7, <2>8, <2>11 DEF MInv, HeldIsIntact
  <2>13. \A u \in Threads : Claims(u)' => Claims(u) /\ u # t
    BY <1>1, <1>3, <2>1 DEF Claims
  <2>14. \A u \in Threads : EndOfClaim(u)' = EndOfClaim(u) /\ EndOfClaim(u) \in Nat /\ ptr[u] \in Nat
    BY <1>1, <1>2, <2>1, Numbers DEF EndOfClaim
  <2>15. ClaimsApart'
    <3> SUFFICES ASSUME NEW u \in Threads, Claims(u)'
                 PROVE  /\ EndOfClaim(u) <= brk
                        /\ \A c \in mem'.blocks :
                             EndOf(mem', c) <= ptr[u] \/ EndOfClaim(u) <= c
                        /\ \A w \in Threads \ {u} : Claims(w)' =>
                             EndOfClaim(w) <= ptr[u] \/ EndOfClaim(u) <= ptr[w]
      BY <1>1, <2>1, <2>14 DEF ClaimsApart, EndOf
    <3>1. Claims(u) /\ u # t
      BY <2>13
    <3>2. EndOfClaim(u) <= b \/ EndOfClaim(t) <= ptr[u]
      BY <2>6, <3>1
    <3>3. \A c \in mem.blocks : EndOf(mem, c) <= ptr[u] \/ EndOfClaim(u) <= c
      BY <3>1 DEF MInv, ClaimsApart
    <3>4. \A c \in mem'.blocks : EndOf(mem', c) <= ptr[u] \/ EndOfClaim(u) <= c
      BY <2>3, <2>9, <3>2, <3>3
    <3> QED
      BY <2>13, <3>1, <3>4 DEF MInv, ClaimsApart
  <2>16. \A u \in Threads \ {t} : HasNew(u)' = HasNew(u) /\ HasOld(u)' = HasOld(u)
    BY <1>3, <2>1 DEF HasNew, HasOld
  <2>17. ~HasOld(t)' /\ asked[b] = 0
    BY <1>3, <2>2, <2>8 DEF HasOld, MInv, HeldIsIntact
  <2>18. \A u \in Threads \ {t} : Has(u) => ptr[u] \in mem.blocks /\ ptr[u] # b
    BY <2>8 DEF MInv, HandsApart
  <2>19. HandsApart'
    <3> SUFFICES ASSUME NEW u \in Threads, Has(u)'
                 PROVE  /\ ptr[u] \in mem'.blocks /\ mem'.allocated[ptr[u]]
                        /\ asked[ptr[u]] = 0
                        /\ HasNew(u)' => mem'.dataSize[ptr[u]] = req[u]
                        /\ \A w \in Threads \ {u} : Has(w)' => ptr[w] # ptr[u]
      BY <1>1, <2>1, <2>11 DEF HandsApart
    <3>1. CASE u = t
      BY <2>3, <2>16, <2>17, <2>18, <3>1 DEF Has
    <3>2. CASE u # t
      <4>1. Has(u) /\ HasNew(u)' = HasNew(u)
        BY <2>16, <3>2 DEF Has
      <4>2. ptr[u] \in Addr \ {b}
        BY <2>7, <2>18, <3>2, <4>1
      <4>3. \A w \in Threads \ {u, t} : Has(w)' => Has(w)
        BY <2>16 DEF Has
      <4> QED
        BY <2>3, <3>2, <4>1, <4>2, <4>3 DEF MInv, HandsApart
    <3> QED
      BY <3>1, <3>2
  <2>20. /\ \A u \in Threads : pc'[u] \in MallocPCs => req'[u] \in Sizes
         /\ \A u \in Threads : pc'[u] = "sbrk_set" => ptr'[u] = brk'
    BY <1>1, <1>3, <2>1 DEF MInv
  <2> QED
    BY <2>4, <2>10, <2>11, <2>12, <2>15, <2>19, <2>20 DEF MInv
<1> QED
  BY <1>4, <1>5

\* A block on its way to the client becomes the client's.
LEMMA ReturnApart ==
  ASSUME MInv, LInv', NEW t \in Threads, returnMalloc(t)
  PROVE  MInv'
<1>1. /\ pc[t] = "return" /\ pc' = [pc EXCEPT ![t] = "idle"]
      /\ asked' = IF ptr[t] = NULL THEN asked ELSE [asked EXCEPT ![ptr[t]] = req[t]]
      /\ req' = [req EXCEPT ![t] = 0] /\ ptr' = [ptr EXCEPT ![t] = NULL]
      /\ UNCHANGED <<version, mem, lists, brk, lock, errno, calls>>
      /\ req[t] \in Sizes
  BY DEF returnMalloc, Hand, Goto, MInv, MallocPCs
<1>2. TypeOK /\ pc \in [Threads -> PCs]
  BY DEF MInv, LInv
<1>3. \A u \in Threads : /\ pc'[u] = IF u = t THEN "idle" ELSE pc[u]
                         /\ u # t => ptr'[u] = ptr[u] /\ req'[u] = req[u]
  BY <1>1, <1>2 DEF TypeOK
<1>4. TypeOK'
  <2>1. asked' \in [Addr -> Sizes \cup {0}] /\ ptr' \in [Threads -> Ptr]
    BY <1>1, <1>2 DEF TypeOK, Ptr
  <2> QED
    BY <1>1, <1>2, <2>1 DEF TypeOK, lists
<1>5. CASE ptr[t] = NULL
  <2>1. Quiet(t, "idle")
    BY <1>1, <1>3, <1>5 DEF Quiet, MallocPCs
  <2> QED
    BY <1>4, <2>1, QuietStep
<1>6. CASE ptr[t] # NULL
  <2> DEFINE b == ptr[t]
  <2>1. /\ HasNew(t) /\ b \in mem.blocks /\ mem.allocated[b] /\ asked[b] = 0
        /\ mem.dataSize[b] = req[t] /\ req[t] \in Nat
        /\ \A u \in Threads \ {t} : Has(u) => ptr[u] # b
    BY <1>1, <1>2, <1>6, Numbers DEF MInv, HandsApart, Has, HasNew
  <2>2. \A a \in Addr : asked'[a] = IF a = b THEN req[t] ELSE asked[a]
    BY <1>1, <1>2, <1>6 DEF TypeOK, Ptr
  <2>3. ListsEmpty' /\ BlocksDisjoint'
    BY <1>1 DEF MInv, ListsEmpty, BlocksDisjoint, lists, EndOf
  <2>4. HeldIsIntact'
    BY <1>1, <2>1, <2>2 DEF MInv, HeldIsIntact
  <2>5. /\ \A u \in Threads : pc'[u] \in MallocPCs => req'[u] \in Sizes
        /\ \A u \in Threads : pc'[u] = "sbrk_set" => ptr'[u] = brk'
    BY <1>1, <1>3 DEF MInv, MallocPCs
  <2>6. \A u \in Threads : Claims(u)' => Claims(u) /\ u # t
    BY <1>3 DEF Claims
  <2>7. ClaimsApart'
    BY <1>1, <1>3, <2>6 DEF MInv, ClaimsApart, EndOfClaim, EndOf
  <2>8. \A u \in Threads : (HasNew(u)' => HasNew(u) /\ u # t) /\ (HasOld(u)' => HasOld(u) /\ u # t)
    BY <1>3 DEF HasNew, HasOld
  <2>9. HandsApart'
    <3> SUFFICES ASSUME NEW u \in Threads, Has(u)'
                 PROVE  /\ ptr[u] \in mem.blocks /\ mem.allocated[ptr[u]]
                        /\ asked'[ptr[u]] = 0
                        /\ HasNew(u)' => mem.dataSize[ptr[u]] = req[u]
                        /\ \A w \in Threads \ {u} : Has(w)' => ptr[w] # ptr[u]
      BY <1>1, <1>3, <2>8 DEF HandsApart, Has
    <3>1. u # t /\ Has(u)
      BY <2>8 DEF Has
    <3>2. ptr[u] \in mem.blocks /\ ptr[u] \in Addr /\ ptr[u] # b
      BY <1>2, <2>1, <3>1 DEF MInv, HandsApart, TypeOK, Memory
    <3>3. asked'[ptr[u]] = 0
      BY <2>2, <3>1, <3>2 DEF MInv, HandsApart
    <3> QED
      BY <2>8, <3>1, <3>3 DEF MInv, HandsApart, Has
  <2> QED
    BY <1>4, <2>3, <2>4, <2>5, <2>7, <2>9 DEF MInv
<1> QED
  BY <1>5, <1>6

\* A block the client gives back is nobody else's.
LEMMA FreeApart ==
  ASSUME MInv, LInv', NEW t \in Threads, NEW b \in Ptr, GiveBack(t, b),
         UNCHANGED <<version, mem, lists, brk, lock, errno, req>>,
         \/ pc' = [pc EXCEPT ![t] = "free_lock"] /\ ptr' = [ptr EXCEPT ![t] = b]
         \/ UNCHANGED <<pc, ptr>>
  PROVE  MInv'
<1>1. TypeOK /\ pc \in [Threads -> PCs] /\ pc[t] = "idle"
  BY DEF MInv, LInv, GiveBack
<1>2. \A u \in Threads : u # t => pc'[u] = pc[u] /\ ptr'[u] = ptr[u]
  BY <1>1 DEF TypeOK
<1>3. pc'[t] = "idle" \/ (pc'[t] = "free_lock" /\ ptr'[t] = b)
  BY <1>1 DEF TypeOK
<1>4. TypeOK'
  <2>1. calls[t] - 1 \in 0 .. NumCalls /\ calls' = [calls EXCEPT ![t] = calls[t] - 1]
    <3>1. calls[t] \in 0 .. NumCalls /\ calls[t] > 0 /\ NumCalls \in Nat
      BY <1>1, TsMallocAssumption DEF TypeOK, GiveBack
    <3> QED
      BY <3>1 DEF GiveBack
  <2>2. calls' \in [Threads -> 0 .. NumCalls]
    BY <1>1, <2>1 DEF TypeOK
  <2>3. asked' \in [Addr -> Sizes \cup {0}]
    BY <1>1 DEF TypeOK, GiveBack
  <2>4. ptr' \in [Threads -> Ptr]
    BY <1>1 DEF TypeOK
  <2> QED
    BY <1>1, <2>2, <2>3, <2>4 DEF TypeOK, lists
<1>5. \A a \in Addr : asked'[a] = IF a = b THEN 0 ELSE asked[a]
  BY <1>1 DEF TypeOK, GiveBack, Ptr, NULL, Addr
<1>6. b # NULL => b \in Addr /\ b \in mem.blocks /\ mem.allocated[b] /\ asked[b] # 0
  BY DEF MInv, HeldIsIntact, GiveBack, Ptr
<1>7. ListsEmpty' /\ BlocksDisjoint'
  BY DEF MInv, ListsEmpty, BlocksDisjoint, lists, EndOf
<1>8. HeldIsIntact'
  BY <1>5 DEF MInv, HeldIsIntact
<1>9. /\ \A u \in Threads : pc'[u] \in MallocPCs => req'[u] \in Sizes
      /\ \A u \in Threads : pc'[u] = "sbrk_set" => ptr'[u] = brk'
  BY <1>2, <1>3 DEF MInv, MallocPCs
<1>10. \A u \in Threads : Claims(u)' => Claims(u) /\ u # t
  BY <1>2, <1>3 DEF Claims
<1>11. ClaimsApart'
  BY <1>2, <1>10 DEF MInv, ClaimsApart, EndOfClaim, EndOf
<1>12. \A u \in Threads : /\ HasNew(u)' => HasNew(u) /\ u # t
                          /\ HasOld(u)' => HasOld(u) \/ (u = t /\ ptr'[u] = b /\ b # NULL)
  BY <1>2, <1>3 DEF HasNew, HasOld
<1>13. HandsApart'
  <2> SUFFICES ASSUME NEW u \in Threads, Has(u)'
               PROVE  /\ ptr'[u] \in mem.blocks /\ mem.allocated[ptr'[u]]
                      /\ asked'[ptr'[u]] = 0
                      /\ HasNew(u)' => mem.dataSize[ptr'[u]] = req[u]
                      /\ \A w \in Threads \ {u} : Has(w)' => ptr'[w] # ptr'[u]
    BY DEF HandsApart
  <2>1. \A w \in Threads \ {t} : Has(w)' =>
          /\ Has(w) /\ ptr'[w] = ptr[w] /\ ptr[w] \in mem.blocks /\ mem.allocated[ptr[w]]
          /\ asked[ptr[w]] = 0 /\ ptr[w] \in Addr
    BY <1>1, <1>2, <1>12 DEF Has, MInv, HandsApart, TypeOK, Memory
  <2>2. Has(t)' => ptr'[t] = b /\ b # NULL /\ ~HasNew(t)'
    BY <1>1, <1>12 DEF Has, HasOld
  <2>3. CASE u = t
    BY <1>5, <1>6, <2>1, <2>2, <2>3
  <2>4. CASE u # t
    BY <1>2, <1>5, <1>6, <1>12, <2>1, <2>2, <2>4 DEF Has, MInv, HandsApart
  <2> QED
    BY <2>3, <2>4
<1> QED
  BY <1>4, <1>7, <1>8, <1>9, <1>11, <1>13 DEF MInv

\* bf_free marks a block nobody holds any more.
LEMMA BfFreeApart ==
  ASSUME MInv, LInv', NEW t \in Threads, bf_free(t)
  PROVE  MInv'
<1> DEFINE b == ptr[t]
<1>1. /\ pc[t] = "free_body" /\ pc' = [pc EXCEPT ![t] = "free_unlock"]
      /\ UNCHANGED <<version, lists, brk, lock, errno, req, ptr, client>>
  BY DEF bf_free, Goto
<1>2. TypeOK /\ pc \in [Threads -> PCs] /\ head = NULL /\ tail = NULL
  BY DEF MInv, LInv, ListsEmpty
<1>3. \A u \in Threads : pc'[u] = IF u = t THEN "free_unlock" ELSE pc[u]
  BY <1>1, <1>2
<1>4. CASE ~(b # NULL /\ mem.allocated[b])
  <2>1. mem' = mem
    BY <1>4 DEF bf_free
  <2>2. Quiet(t, "free_unlock")
    BY <1>1, <2>1 DEF Quiet, MallocPCs, client
  <2>3. TypeOK'
    BY <1>1, <1>2, <2>1 DEF TypeOK, lists, client
  <2> QED
    BY <2>2, <2>3, QuietStep
<1>5. CASE b # NULL /\ mem.allocated[b]
  <2>1. b \in Addr /\ mem \in Memory
    BY <1>2, <1>5 DEF TypeOK, Ptr
  <2>2. mem' = [mem EXCEPT !.allocated[b] = FALSE]
    BY <1>2, <1>5, <2>1, OnlyMarked DEF bf_free
  <2>3. /\ mem' \in Memory /\ mem'.blocks = mem.blocks /\ mem'.dataSize = mem.dataSize
        /\ \A c \in Addr \ {b} : mem'.allocated[c] = mem.allocated[c]
    BY <2>1, <2>2 DEF Memory
  <2>4. TypeOK'
    BY <1>1, <1>2, <2>3 DEF TypeOK, lists, client
  <2>5. HasOld(t) /\ Has(t) /\ asked[b] = 0 /\ \A u \in Threads \ {t} : Has(u) => ptr[u] # b
    BY <1>1, <1>5 DEF HasOld, Has, MInv, HandsApart
  <2>6. asked' = asked /\ ListsEmpty' /\ BlocksDisjoint'
    BY <1>1, <2>3 DEF MInv, ListsEmpty, BlocksDisjoint, lists, client, EndOf
  <2>7. HeldIsIntact'
    BY <2>3, <2>5, <2>6 DEF MInv, HeldIsIntact
  <2>8. /\ \A u \in Threads : pc'[u] \in MallocPCs => req'[u] \in Sizes
        /\ \A u \in Threads : pc'[u] = "sbrk_set" => ptr'[u] = brk'
    BY <1>1, <1>3 DEF MInv, MallocPCs
  <2>9. \A u \in Threads : Claims(u)' => Claims(u)
    BY <1>1, <1>3 DEF Claims
  <2>10. ClaimsApart'
    BY <1>1, <2>3, <2>9 DEF MInv, ClaimsApart, EndOfClaim, EndOf
  <2>11. \A u \in Threads : (HasNew(u)' => HasNew(u) /\ u # t) /\ (HasOld(u)' => HasOld(u) /\ u # t)
    BY <1>1, <1>3 DEF HasNew, HasOld
  <2>12. HandsApart'
    <3> SUFFICES ASSUME NEW u \in Threads, Has(u)'
                 PROVE  /\ ptr[u] \in mem.blocks /\ mem'.allocated[ptr[u]]
                        /\ asked[ptr[u]] = 0
                        /\ HasNew(u)' => mem.dataSize[ptr[u]] = req[u]
                        /\ \A w \in Threads \ {u} : Has(w)' => ptr[w] # ptr[u]
      BY <1>1, <2>3, <2>6 DEF HandsApart
    <3>1. u # t /\ Has(u)
      BY <2>11 DEF Has
    <3>2. ptr[u] \in mem.blocks /\ ptr[u] \in Addr \ {b} /\ mem.allocated[ptr[u]]
      BY <2>1, <2>5, <3>1 DEF MInv, HandsApart, Memory
    <3>3. mem'.allocated[ptr[u]]
      BY <2>3, <3>2
    <3> QED
      BY <2>11, <3>1, <3>3 DEF MInv, HandsApart, Has
  <2> QED
    BY <2>4, <2>6, <2>7, <2>8, <2>10, <2>12 DEF MInv
<1> QED
  BY <1>4, <1>5

LEMMA MemoryStep ==
  ASSUME MInv, [Next]_vars
  PROVE  MInv'
<1>1. LInv'
  BY LInvStep DEF MInv
<1>2. ASSUME NEW t \in Threads, Enter(t) PROVE MInv'
  <2>1. ASSUME NEW b \in Ptr, ts_free_lock(t, b) PROVE MInv'
    BY <1>1, <2>1, FreeApart DEF ts_free_lock, Goto
  <2>2. ASSUME NEW b \in Ptr, ts_free_nolock(t, b) PROVE MInv'
    BY <1>1, <2>2, FreeApart DEF ts_free_nolock
  <2> QED
    BY <1>1, <1>2, <2>1, <2>2, QuietActions DEF Enter
<1>3. ASSUME NEW t \in Threads, Inner(t) PROVE MInv'
  BY <1>1, <1>3, QuietActions, SbrkSetApart, AllocateApart, BfFreeApart DEF Inner
<1>4. ASSUME NEW t \in Threads, Return(t) PROVE MInv'
  BY <1>1, <1>4, QuietActions, ReturnApart DEF Return
<1>5. ASSUME NEW t \in Threads, LibcErrno(t) PROVE MInv'
  <2>1. TypeOK'
    BY <1>5 DEF MInv, TypeOK, LibcErrno, lists, client
  <2> QED
    BY <1>1, <1>5, <2>1 DEF LibcErrno, MInv, ListsEmpty, lists, client, BlocksDisjoint,
       EndOf, HeldIsIntact, ClaimsApart, Claims, EndOfClaim, HandsApart, Has, HasNew, HasOld
<1>6. CASE UNCHANGED vars
  BY <1>1, <1>6 DEF vars, MInv, TypeOK, ListsEmpty, lists, client, BlocksDisjoint,
     EndOf, HeldIsIntact, ClaimsApart, Claims, EndOfClaim, HandsApart, Has, HasNew, HasOld
<1> QED
  BY <1>2, <1>3, <1>4, <1>5, <1>6 DEF Next

LEMMA MemoryInvariance == Spec => []MInv
BY InitMInv, MemoryStep, PTL DEF Spec

\* Every variable keeps its type, whatever the threads do.
THEOREM TypeCorrect == Spec => []TypeOK
<1>1. MInv => TypeOK
  BY DEF MInv
<1> QED
  BY <1>1, MemoryInvariance, PTL

\* However the calls interleave, and in the build without a lock too: no byte
\* belongs to two blocks, and no block lies past the break.
THEOREM BlocksAreDisjoint == Spec => []BlocksDisjoint
<1>1. MInv => BlocksDisjoint
  BY DEF MInv
<1> QED
  BY <1>1, MemoryInvariance, PTL

\* What the client holds stays allocated and as large as it was asked for, although
\* other threads allocate, fail and free meanwhile.
THEOREM HeldStaysIntact == Spec => []HeldIsIntact
<1>1. MInv => HeldIsIntact
  BY DEF MInv
<1> QED
  BY <1>1, MemoryInvariance, PTL

-----------------------------------------------------------------------------
(***************************************************************************)
(* The promise of the allocators to their clients.                         *)
(***************************************************************************)

\* A malloc of thread t hands out a block nobody holds.
HandsOut(t) ==
  /\ HasNew(t)
  /\ asked' = [asked EXCEPT ![ptr[t]] = req[t]]

\* What a step does to the regions of the client.
LEMMA RegionStep ==
  ASSUME MInv, [Next]_vars
  PROVE  \/ asked' = asked
         \/ \E t \in Threads : HandsOut(t)
         \/ \E b \in Addr : asked[b] # 0 /\ asked' = [asked EXCEPT ![b] = 0]
<1>1. ASSUME NEW t \in Threads, NEW b \in Ptr, GiveBack(t, b)
      PROVE  \/ asked' = asked
             \/ b \in Addr /\ asked[b] # 0 /\ asked' = [asked EXCEPT ![b] = 0]
  BY <1>1 DEF GiveBack, Ptr
<1>2. ASSUME NEW t \in Threads, Enter(t)
      PROVE  \/ asked' = asked
             \/ \E b \in Addr : asked[b] # 0 /\ asked' = [asked EXCEPT ![b] = 0]
  BY <1>1, <1>2 DEF Enter, ts_malloc_lock, ts_malloc_nolock, Call, ts_free_lock, ts_free_nolock
<1>3. ASSUME NEW t \in Threads, Inner(t) PROVE asked' = asked
  BY <1>3 DEF Inner, acquire, bf_malloc, sbrkRead, sbrkSet, sbrk_nolock, allocateMemory,
     releaseMalloc, bf_free, client
<1>4. ASSUME NEW t \in Threads, Return(t) PROVE asked' = asked \/ HandsOut(t)
  BY <1>4 DEF Return, returnMalloc, releaseFree, Hand, HandsOut, HasNew, client
<1>5. ASSUME NEW t \in Threads, LibcErrno(t) PROVE asked' = asked
  BY <1>5 DEF LibcErrno, client
<1> QED
  BY <1>2, <1>3, <1>4, <1>5 DEF Next, vars, client

\* The regions of two blocks the client holds do not overlap, and lie below the
\* limit of the data segment.
Apart ==
  \A b \in Addr : asked[b] # 0 =>
    /\ b + MetaSize \in 1 .. HeapLimit
    /\ b + MetaSize + asked[b] <= HeapLimit
    /\ \A c \in Addr : asked[c] # 0 /\ c # b =>
         \/ b + MetaSize + asked[b] <= c + MetaSize
         \/ c + MetaSize + asked[c] <= b + MetaSize

LEMMA RegionsApart == MInv => Apart
<1> SUFFICES ASSUME MInv PROVE Apart
  OBVIOUS
<1>1. /\ MetaSize \in Nat \ {0} /\ HeapLimit \in Nat /\ brk \in Nat /\ brk <= HeapLimit
      /\ Sizes \cup {0} \subseteq Nat
  BY TsMallocAssumption DEF MInv, TypeOK, Addr
<1>2. \A a \in Addr : a \in Nat /\ a # 0 /\ asked[a] \in Nat /\ mem.dataSize[a] \in Nat
  BY <1>1 DEF MInv, TypeOK, Memory, Addr
<1>3. \A a \in Addr : asked[a] # 0 =>
        /\ a \in mem.blocks /\ asked[a] <= mem.dataSize[a]
        /\ a + MetaSize + mem.dataSize[a] <= brk
  BY <1>2 DEF MInv, HeldIsIntact, BlocksDisjoint, EndOf
<1>4. \A a, c \in Addr : asked[a] # 0 /\ asked[c] # 0 /\ a < c =>
        a + MetaSize + mem.dataSize[a] <= c
  BY <1>3 DEF MInv, BlocksDisjoint, EndOf
<1> SUFFICES ASSUME NEW b \in Addr, asked[b] # 0
             PROVE  /\ b + MetaSize \in 1 .. HeapLimit
                    /\ b + MetaSize + asked[b] <= HeapLimit
                    /\ \A c \in Addr : asked[c] # 0 /\ c # b =>
                         \/ b + MetaSize + asked[b] <= c + MetaSize
                         \/ c + MetaSize + asked[c] <= b + MetaSize
  BY DEF Apart
<1>5. b + MetaSize \in 1 .. HeapLimit /\ b + MetaSize + asked[b] <= HeapLimit
  BY <1>1, <1>2, <1>3
<1>6. ASSUME NEW c \in Addr, asked[c] # 0, c # b
      PROVE  \/ b + MetaSize + asked[b] <= c + MetaSize
             \/ c + MetaSize + asked[c] <= b + MetaSize
  <2>1. CASE b < c
    BY <1>1, <1>2, <1>3, <1>4, <1>6, <2>1
  <2>2. CASE c < b
    BY <1>1, <1>2, <1>3, <1>4, <1>6, <2>2
  <2> QED
    BY <1>2, <1>6, <2>1, <2>2
<1> QED
  BY <1>5, <1>6

\* A malloc that hands out a block is an Allocate of the promise.
LEMMA HandsOutAllocates ==
  ASSUME MInv, Apart', NEW t \in Threads, HandsOut(t)
  PROVE  \E r \in Promise!Region : Promise!Allocate(r)
<1> DEFINE b == ptr[t]
           r == [start |-> b + MetaSize, size |-> req[t]]
<1>1. /\ b \in Addr /\ req[t] \in Sizes /\ req[t] # 0 /\ asked[b] = 0
      /\ asked \in [Addr -> Sizes \cup {0}] /\ asked' = [asked EXCEPT ![b] = req[t]]
  <2>1. pc[t] \in MallocPCs /\ b # NULL /\ Has(t)
    BY DEF HandsOut, HasNew, Has, MallocPCs
  <2>2. req[t] \in Sizes /\ asked[b] = 0 /\ b \in Addr /\ asked \in [Addr -> Sizes \cup {0}]
    BY <2>1 DEF MInv, HandsApart, TypeOK, Ptr
  <2> QED
    BY <2>2, TsMallocAssumption DEF HandsOut
<1>2. asked'[b] = req[t] /\ \A a \in Addr \ {b} : asked'[a] = asked[a]
  BY <1>1
<1>3. /\ b + MetaSize \in 1 .. HeapLimit
      /\ b + MetaSize + req[t] <= HeapLimit
      /\ \A c \in Addr : asked[c] # 0 =>
           \/ b + MetaSize + req[t] <= c + MetaSize
           \/ c + MetaSize + asked[c] <= b + MetaSize
  <2>1. /\ b + MetaSize \in 1 .. HeapLimit
        /\ b + MetaSize + asked'[b] <= HeapLimit
        /\ \A c \in Addr : asked'[c] # 0 /\ c # b =>
             \/ b + MetaSize + asked'[b] <= c + MetaSize
             \/ c + MetaSize + asked'[c] <= b + MetaSize
    BY <1>1, <1>2 DEF Apart
  <2> QED
    BY <1>1, <1>2, <2>1
<1>4. r \in Promise!Region
  BY <1>1, <1>3 DEF Promise!Region
<1>5. ClientRegions' = ClientRegions \cup {r}
  BY <1>1, <1>2 DEF ClientRegions
<1>6. \A s \in ClientRegions : Promise!Disjoint(r, s)
  BY <1>3 DEF ClientRegions, Promise!Disjoint
<1>7. Promise!Allocate(r)
  BY <1>3, <1>5, <1>6 DEF Promise!Allocate
<1> QED
  BY <1>4, <1>7

\* A free is a Release of the promise.
LEMMA FreeReleases ==
  ASSUME MInv, NEW b \in Addr, asked[b] # 0, asked' = [asked EXCEPT ![b] = 0]
  PROVE  \E r \in ClientRegions : Promise!Release(r)
<1> DEFINE r == [start |-> b + MetaSize, size |-> asked[b]]
<1>1. asked \in [Addr -> Sizes \cup {0}] /\ MetaSize \in Nat /\ \A a \in Addr : a \in Nat
  BY TsMallocAssumption DEF MInv, TypeOK, Addr
<1>2. r \in ClientRegions
  BY DEF ClientRegions
<1>3. \A a \in Addr \ {b} : a + MetaSize # b + MetaSize
  BY <1>1
<1>4. ClientRegions' = ClientRegions \ {r}
  BY <1>1, <1>3 DEF ClientRegions
<1> QED
  BY <1>2, <1>4 DEF Promise!Release

\* Both builds keep the promise of the allocators to any number of threads: a malloc
\* returns a region of the size asked for that overlaps no region of any thread, and
\* a region stays as it is until it is freed.
THEOREM ThreadsKeepPromise == Spec => KeepsPromise
<1>1. Init => Promise!Init
  BY DEF Init, Promise!Init, ClientRegions
<1>2. MInv /\ MInv' /\ [Next]_vars => [Promise!Next]_ClientRegions
  <2> SUFFICES ASSUME MInv, MInv', [Next]_vars PROVE [Promise!Next]_ClientRegions
    OBVIOUS
  <2>1. CASE asked' = asked
    BY <2>1 DEF ClientRegions
  <2>2. ASSUME NEW t \in Threads, HandsOut(t) PROVE Promise!Next
    <3>1. Apart'
      BY RegionsApart, PTL
    <3> QED
      BY <2>2, <3>1, HandsOutAllocates DEF Promise!Next
  <2>3. ASSUME NEW b \in Addr, asked[b] # 0, asked' = [asked EXCEPT ![b] = 0] PROVE Promise!Next
    BY <2>3, FreeReleases DEF Promise!Next
  <2> QED
    BY <2>1, <2>2, <2>3, RegionStep
<1> QED
  BY <1>1, <1>2, MemoryInvariance, PTL DEF Spec, KeepsPromise, Promise!Spec

=============================================================================
