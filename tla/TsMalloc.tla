------------------------------ MODULE TsMalloc ------------------------------
(***************************************************************************)
(* The allocator for several threads of project2/my_malloc.c, in its two   *)
(* builds: ts_malloc_lock / ts_free_lock, where a call holds the mutex     *)
(* from beginning to end, and ts_malloc_nolock / ts_free_nolock, where     *)
(* only sbrk is inside the mutex.                                          *)
(*                                                                         *)
(* Every helper of my_malloc.c gets the ends of the free list as           *)
(* parameters and assigns to its parameters: what a helper changes outside *)
(* itself is the headers in memory and nothing else.  So a helper here is  *)
(* an operator from a memory and the two ends to a memory.                 *)
(***************************************************************************)
EXTENDS Integers, FiniteSets

CONSTANTS
  Threads,    \* the threads of the program
  NoThread,   \* who holds the mutex when nobody does
  Versions,   \* the builds: a subset of {"lock", "nolock"}
  MetaSize,   \* META_SIZE, sizeof(MemoryBlock)
  FirstBreak, \* where the program break is when the first call is made
  HeapLimit,  \* the highest value it may take
  Sizes,      \* the sizes the client passes to malloc (0 returns NULL at once)
  NumCalls    \* how many calls a thread makes before it exits

ASSUME TsMallocAssumption ==
  /\ NoThread \notin Threads
  /\ Versions \subseteq {"lock", "nolock"}
  /\ MetaSize \in Nat \ {0}
  /\ HeapLimit \in Nat \ {0}
  /\ FirstBreak \in 1 .. HeapLimit
  /\ Sizes \subseteq Nat \ {0}
  /\ NumCalls \in Nat

NULL == 0
Addr == 1 .. HeapLimit
Ptr  == Addr \cup {NULL}

VARIABLES
  version,        \* the build
  mem,            \* the headers in memory
  head, tail,     \* the free list of the lock build
  ts_nolockHead, ts_nolockTail,  \* each thread's free list in the other build
  brk,            \* the program break
  lock,           \* who holds the mutex
  errno,          \* each thread's errno: "ENOMEM" or "other"
  pc,             \* where each thread is in its call; "idle" between calls
  req,            \* the size its malloc was asked for
  ptr,            \* what its sbrk returned, or the block it frees; NULL for (void*)-1
  calls,          \* client: the calls each thread still makes
  asked           \* client: bytes asked for in each block it holds, 0 otherwise

lists  == <<head, tail, ts_nolockHead, ts_nolockTail>>
client == <<calls, asked>>
vars   == <<version, mem, lists, brk, lock, errno, pc, req, ptr, client>>

\* Struct MemoryBlock, by address; "blocks" (auxiliary) holds the addresses at
\* which a header has been initialized.
Memory == [blocks    : SUBSET Addr,
           dataSize  : [Addr -> Nat],
           allocated : [Addr -> BOOLEAN],
           prev      : [Addr -> Ptr],
           next      : [Addr -> Ptr]]

EndOf(m, b) == b + MetaSize + m.dataSize[b]

-----------------------------------------------------------------------------
(***************************************************************************)
(* The helpers: hd and tl are the values passed for head and tail.         *)
(***************************************************************************)

isEmptyFreeList(hd, tl) == hd = NULL /\ tl = NULL

\* Deviation: dataSize is left as it was.
initializeMemoryBlockNoSize(m, b, size, flag) ==
  [m EXCEPT !.blocks = @ \cup {b},
            !.allocated[b] = flag,
            !.prev[b] = NULL,
            !.next[b] = NULL]

initializeMemoryBlock(m, b, size, flag) ==
  [m EXCEPT !.blocks = @ \cup {b},
            !.dataSize[b] = size,
            !.allocated[b] = flag,
            !.prev[b] = NULL,
            !.next[b] = NULL]

appendToFreeList(m, hd, tl, b) ==
  IF isEmptyFreeList(hd, tl)
  THEN [m EXCEPT !.allocated[b] = FALSE]
  ELSE [m EXCEPT !.next = [@ EXCEPT ![tl] = b, ![b] = NULL],
                 !.prev[b] = tl,
                 !.allocated[b] = FALSE]

\* In the last case an inner toInsert hides the parameter: b is not linked in,
\* and the block behind curr is made to point at itself.
insertIntoFreeList(m, hd, tl, b, curr) ==
  IF isEmptyFreeList(hd, tl)
  THEN m
  ELSE IF curr = NULL
  THEN [m EXCEPT !.prev = [@ EXCEPT ![hd] = b, ![b] = NULL], !.next[b] = hd]
  ELSE IF curr = tl
  THEN [m EXCEPT !.next = [@ EXCEPT ![tl] = b, ![b] = NULL], !.prev[b] = tl]
  ELSE LET toInsert == m.next[curr]
       IN  [m EXCEPT !.next[toInsert] = toInsert, !.prev[toInsert] = toInsert]

removeFromFreeList(m, hd, tl, b) ==
  LET unlinked ==
        IF hd = b /\ tl = b THEN m
        ELSE IF b = hd THEN [m EXCEPT !.prev[m.next[b]] = NULL]
        ELSE IF b = tl THEN [m EXCEPT !.next[m.prev[b]] = NULL]
        ELSE [m EXCEPT !.next[m.prev[b]] = m.next[b], !.prev[m.next[b]] = m.prev[b]]
  IN  IF isEmptyFreeList(hd, tl)
      THEN m
      ELSE [unlinked EXCEPT !.prev[b] = NULL, !.next[b] = NULL, !.allocated[b] = TRUE]

splitMemoryBlock(m, hd, tl, b, size) ==
  IF m.dataSize[b] < MetaSize + size
  THEN removeFromFreeList(m, hd, tl, b)
  ELSE LET remaining == b + MetaSize + size
           laid == [initializeMemoryBlock(m, remaining,
                                          m.dataSize[b] - size - MetaSize, FALSE)
                      EXCEPT !.dataSize[b] = size, !.allocated[b] = TRUE]
       IN  removeFromFreeList(insertIntoFreeList(laid, hd, tl, remaining, b), hd, tl, b)

\* The left block takes over the bytes of the right one, header included.
absorb(m, hd, tl, left, right) ==
  removeFromFreeList(
    [m EXCEPT !.blocks = @ \ {right},
              !.dataSize[left] = @ + MetaSize + m.dataSize[right]], hd, tl, right)

coalesceWithLeft(m, hd, tl, b) ==
  IF m.prev[b] # NULL /\ b = EndOf(m, m.prev[b])
  THEN absorb(m, hd, tl, m.prev[b], b) ELSE m

coalesceWithRight(m, hd, tl, b) ==
  IF m.next[b] # NULL /\ m.next[b] = EndOf(m, b)
  THEN absorb(m, hd, tl, b, m.next[b]) ELSE m

\* The n-th block a loop that starts at hd comes to.
Walk(m, hd) ==
  LET at[n \in 0 .. HeapLimit] ==
        IF n = 0 THEN hd ELSE IF at[n - 1] = NULL THEN NULL ELSE m.next[at[n - 1]]
  IN  at

\* The smallest block that is large enough, the first of several.
findBestFit(m, hd, size) ==
  LET at   == Walk(m, hd)
      fits == {n \in DOMAIN at : at[n] # NULL /\ m.dataSize[at[n]] >= size}
      size_at(n) == m.dataSize[at[n]]
  IN  IF hd = NULL \/ fits = {} THEN NULL
      ELSE at[CHOOSE n \in fits : \A k \in fits :
                size_at(n) < size_at(k) \/ (size_at(n) = size_at(k) /\ n <= k)]

\* The ends of the list are asked for again after the block was appended, and
\* are what they were.
freeMemoryBlock(m, hd, tl, b) ==
  LET freed    == [m EXCEPT !.allocated[b] = FALSE]
      appended == appendToFreeList(freed, hd, tl, b)
      at       == Walk(m, hd)
      iter     == at[CHOOSE n \in DOMAIN at : at[n] >= b /\ \A k \in 0 .. n - 1 : at[k] < b]
  IN  IF isEmptyFreeList(hd, tl) \/ b > tl
      THEN IF ~isEmptyFreeList(hd, tl) /\ b > tl
           THEN coalesceWithLeft(appended, hd, tl, b)
           ELSE appended
      ELSE IF b < hd
      THEN coalesceWithRight(insertIntoFreeList(freed, hd, tl, b, NULL), hd, tl, b)
      ELSE coalesceWithLeft(
             coalesceWithRight(
               insertIntoFreeList(freed, hd, tl, b, m.prev[iter]), hd, tl, b), hd, tl, b)

-----------------------------------------------------------------------------
(***************************************************************************)
(* The steps of a thread.  The lists are globals nobody assigns to.        *)
(***************************************************************************)

Goto(t, to) == pc' = [pc EXCEPT ![t] = to]

\* The malloc of thread t returns its block, or NULL.
Hand(t, b) ==
  /\ Goto(t, "idle")
  /\ asked' = IF b = NULL THEN asked ELSE [asked EXCEPT ![b] = req[t]]
  /\ req' = [req EXCEPT ![t] = 0]
  /\ ptr' = [ptr EXCEPT ![t] = NULL]
  /\ UNCHANGED calls

\* Thread t calls malloc, and comes to its first lock.
Call(t, size, to) ==
  /\ pc[t] = "idle"
  /\ calls[t] > 0
  /\ calls' = [calls EXCEPT ![t] = @ - 1]
  /\ req' = [req EXCEPT ![t] = size]
  /\ Goto(t, to)
  /\ UNCHANGED <<version, lists, brk, lock, errno, asked>>

ts_malloc_lock(t, size) ==
  /\ version = "lock"
  /\ Call(t, size, "malloc_lock")
  /\ UNCHANGED <<mem, ptr>>

\* bf_malloc runs on the thread's own list before it comes to sbrk_nolock.
ts_malloc_nolock(t, size) ==
  LET bestFit == findBestFit(mem, ts_nolockHead[t], size)
  IN  /\ version = "nolock"
      /\ Call(t, size, IF bestFit = NULL THEN "sbrk_lock" ELSE "return")
      /\ ptr' = [ptr EXCEPT ![t] = bestFit]
      /\ mem' = IF bestFit = NULL THEN mem
                ELSE splitMemoryBlock(mem, ts_nolockHead[t], ts_nolockTail[t], bestFit, size)

\* Deviation: a thread does not wait for the mutex.
acquireAnyway(t) ==
  \E from_to \in {<<"malloc_lock", "search">>, <<"sbrk_lock", "sbrk_read">>,
                  <<"free_lock", "free_body">>} :
    /\ pc[t] = from_to[1]
    /\ lock' = t
    /\ Goto(t, from_to[2])
    /\ UNCHANGED <<version, mem, lists, brk, errno, req, ptr, client>>

\* pthread_mutex_lock in ts_malloc_lock, sbrk_nolock and ts_free_lock.
acquire(t) ==
  \E from_to \in {<<"malloc_lock", "search">>, <<"sbrk_lock", "sbrk_read">>,
                  <<"free_lock", "free_body">>} :
    /\ pc[t] = from_to[1]
    /\ lock = NoThread
    /\ lock' = t
    /\ Goto(t, from_to[2])
    /\ UNCHANGED <<version, mem, lists, brk, errno, req, ptr, client>>

\* bf_malloc under the mutex: the search, and the split of what it finds.
bf_malloc(t) ==
  LET bestFit == findBestFit(mem, head, req[t])
  IN  /\ pc[t] = "search"
      /\ Goto(t, IF bestFit = NULL THEN "sbrk_read" ELSE "malloc_unlock")
      /\ ptr' = [ptr EXCEPT ![t] = bestFit]
      /\ mem' = IF bestFit = NULL THEN mem
                ELSE splitMemoryBlock(mem, head, tail, bestFit, req[t])
      /\ UNCHANGED <<version, lists, brk, lock, errno, req, client>>

\* External: sbrk reads the break it knows ...
sbrkRead(t) ==
  /\ pc[t] = "sbrk_read"
  /\ ptr' = [ptr EXCEPT ![t] = brk]
  /\ Goto(t, "sbrk_set")
  /\ UNCHANGED <<version, mem, lists, brk, lock, errno, req, client>>

\* ... and sets it from that, or fails and sets errno (of its own thread).
sbrkSet(t) ==
  /\ pc[t] = "sbrk_set"
  /\ LET new == ptr[t] + MetaSize + req[t]
     IN  IF new <= HeapLimit
         THEN brk' = new /\ UNCHANGED <<ptr, errno>>
         ELSE /\ ptr' = [ptr EXCEPT ![t] = NULL]
              /\ errno' = [errno EXCEPT ![t] = "ENOMEM"]
              /\ UNCHANGED brk
  /\ Goto(t, IF version = "lock" THEN "allocate" ELSE "sbrk_unlock")
  /\ UNCHANGED <<version, mem, lists, lock, req, client>>

\* The end of sbrk_nolock.  After a failure it returns without unlocking.
sbrk_nolock(t) ==
  /\ pc[t] = "sbrk_unlock"
  /\ IF ptr[t] = NULL \/ errno[t] = "ENOMEM"
     THEN ptr' = [ptr EXCEPT ![t] = NULL] /\ UNCHANGED lock
     ELSE lock' = NoThread /\ UNCHANGED ptr
  /\ Goto(t, "allocate")
  /\ UNCHANGED <<version, mem, lists, brk, errno, req, client>>

\* Deviation: sbrk's result is not looked at.
allocateMemoryUnchecked(t) ==
  /\ pc[t] = "allocate"
  /\ mem' = initializeMemoryBlock(mem, ptr[t], req[t], TRUE)
  /\ Goto(t, IF version = "lock" THEN "malloc_unlock" ELSE "return")
  /\ UNCHANGED <<version, lists, brk, lock, errno, req, ptr, client>>

\* allocateMemory after its sbrk; the caller in the lock build still has the
\* mutex to release.
allocateMemory(t) ==
  LET failed == ptr[t] = NULL \/ errno[t] = "ENOMEM"
  IN  /\ pc[t] = "allocate"
      /\ ptr' = IF failed THEN [ptr EXCEPT ![t] = NULL] ELSE ptr
      /\ mem' = IF failed THEN mem ELSE initializeMemoryBlock(mem, ptr[t], req[t], TRUE)
      /\ Goto(t, IF version = "lock" THEN "malloc_unlock" ELSE "return")
      /\ UNCHANGED <<version, lists, brk, lock, errno, req, client>>

\* Deviation: a malloc that failed returns without unlocking.
releaseMallocOnSuccess(t) ==
  /\ pc[t] = "malloc_unlock"
  /\ lock' = IF ptr[t] = NULL THEN lock ELSE NoThread
  /\ Goto(t, "return")
  /\ UNCHANGED <<version, mem, lists, brk, errno, req, ptr, client>>

\* pthread_mutex_unlock in ts_malloc_lock.
releaseMalloc(t) ==
  /\ pc[t] = "malloc_unlock"
  /\ lock' = NoThread
  /\ Goto(t, "return")
  /\ UNCHANGED <<version, mem, lists, brk, errno, req, ptr, client>>

returnMalloc(t) ==
  /\ pc[t] = "return"
  /\ Hand(t, ptr[t])
  /\ UNCHANGED <<version, mem, lists, brk, lock, errno>>

\* A thread gives back a block the client holds, whichever thread allocated it,
\* or passes NULL.
GiveBack(t, b) ==
  /\ pc[t] = "idle" /\ calls[t] > 0
  /\ b # NULL => asked[b] # 0
  /\ asked' = IF b = NULL THEN asked ELSE [asked EXCEPT ![b] = 0]
  /\ calls' = [calls EXCEPT ![t] = @ - 1]

ts_free_lock(t, b) ==
  /\ version = "lock"
  /\ GiveBack(t, b)
  /\ ptr' = [ptr EXCEPT ![t] = b]
  /\ Goto(t, "free_lock")
  /\ UNCHANGED <<version, mem, lists, brk, lock, errno, req>>

\* bf_free under the mutex.
bf_free(t) ==
  /\ pc[t] = "free_body"
  /\ mem' = IF ptr[t] # NULL /\ mem.allocated[ptr[t]]
            THEN freeMemoryBlock(mem, head, tail, ptr[t]) ELSE mem
  /\ Goto(t, "free_unlock")
  /\ UNCHANGED <<version, lists, brk, lock, errno, req, ptr, client>>

releaseFree(t) ==
  /\ pc[t] = "free_unlock"
  /\ lock' = NoThread
  /\ ptr' = [ptr EXCEPT ![t] = NULL]
  /\ Goto(t, "idle")
  /\ UNCHANGED <<version, mem, lists, brk, errno, req, client>>

\* bf_freee has no body: the client's block goes nowhere.
ts_free_nolock(t, b) ==
  /\ version = "nolock"
  /\ GiveBack(t, b)
  /\ UNCHANGED <<version, mem, lists, brk, lock, errno, pc, req, ptr>>

\* External: another library call of the thread fails and overwrites errno.
LibcErrno(t) ==
  /\ pc[t] = "idle"
  /\ errno' = [errno EXCEPT ![t] = "other"]
  /\ UNCHANGED <<version, mem, lists, brk, lock, pc, req, ptr, client>>

-----------------------------------------------------------------------------
Init ==
  /\ version \in Versions
  /\ mem = [blocks    |-> {},
            dataSize  |-> [a \in Addr |-> 0],
            allocated |-> [a \in Addr |-> FALSE],
            prev      |-> [a \in Addr |-> NULL],
            next      |-> [a \in Addr |-> NULL]]
  /\ head = NULL /\ tail = NULL
  /\ ts_nolockHead = [t \in Threads |-> NULL]
  /\ ts_nolockTail = [t \in Threads |-> NULL]
  /\ brk = FirstBreak
  /\ lock = NoThread
  /\ errno = [t \in Threads |-> "other"]
  /\ pc = [t \in Threads |-> "idle"]
  /\ req = [t \in Threads |-> 0]
  /\ ptr = [t \in Threads |-> NULL]
  /\ calls = [t \in Threads |-> NumCalls]
  /\ asked = [b \in Addr |-> 0]

Enter(t) ==
  \/ \E size \in Sizes : ts_malloc_lock(t, size) \/ ts_malloc_nolock(t, size)
  \/ \E b \in Ptr : ts_free_lock(t, b) \/ ts_free_nolock(t, b)

\* The steps of a call before its last.
Inner(t) ==
  \/ acquire(t) \/ bf_malloc(t) \/ sbrkRead(t) \/ sbrkSet(t) \/ sbrk_nolock(t)
  \/ allocateMemory(t) \/ releaseMalloc(t) \/ bf_free(t)

Return(t) == returnMalloc(t) \/ releaseFree(t)

Next == \E t \in Threads : Enter(t) \/ Inner(t) \/ Return(t) \/ LibcErrno(t)

Spec == Init /\ [][Next]_vars

-----------------------------------------------------------------------------
(***************************************************************************)
(* Properties                                                              *)
(***************************************************************************)

\* Every variable has its type.
TypeOK ==
  /\ version \in Versions
  /\ mem \in Memory
  /\ head \in Ptr /\ tail \in Ptr
  /\ ts_nolockHead \in [Threads -> Ptr] /\ ts_nolockTail \in [Threads -> Ptr]
  /\ brk \in Addr
  /\ lock \in Threads \cup {NoThread}
  /\ errno \in [Threads -> {"ENOMEM", "other"}]
  /\ pc \in [Threads -> {"idle", "malloc_lock", "search", "sbrk_lock", "sbrk_read",
                         "sbrk_set", "sbrk_unlock", "allocate", "malloc_unlock",
                         "return", "free_lock", "free_body", "free_unlock"}]
  /\ req \in [Threads -> Sizes \cup {0}]
  /\ ptr \in [Threads -> Ptr]
  /\ calls \in [Threads -> 0 .. NumCalls]
  /\ asked \in [Addr -> Sizes \cup {0}]

\* Where a thread has the mutex.
Inside(t) ==
  \/ pc[t] \in {"search", "sbrk_read", "sbrk_set", "sbrk_unlock",
                "malloc_unlock", "free_body", "free_unlock"}
  \/ pc[t] = "allocate" /\ version = "lock"

\* A thread inside the mutex holds it (so there is never a second one), and in
\* the lock build nobody else holds it: it is released on every path out.
MutualExclusion ==
  /\ \A t \in Threads : Inside(t) => lock = t
  /\ version = "lock" => \A t \in Threads : lock = t => Inside(t)

\* No byte belongs to two blocks and every block ends below the break, though
\* the no-lock build writes a header only after it has left the mutex.
BlocksDisjoint ==
  \A b \in mem.blocks :
    /\ EndOf(mem, b) <= brk
    /\ \A c \in mem.blocks : b < c => EndOf(mem, b) <= c

\* What a client holds is a block marked allocated and large enough, whatever
\* the other threads do to their own.
HeldIsIntact ==
  \A b \in Addr : asked[b] # 0 =>
    b \in mem.blocks /\ mem.allocated[b] /\ mem.dataSize[b] >= asked[b]

\* The regions the threads hold, as HeapPromise sees them.
ClientRegions == {[start |-> b + MetaSize, size |-> asked[b]] :
                    b \in {a \in Addr : asked[a] # 0}}

Promise == INSTANCE HeapPromise WITH Limit <- HeapLimit, regions <- ClientRegions

\* thread_tests/README.txt: the address ranges of all malloc'ed regions "are all
\* completely distinct", in both builds and whatever the interleaving.
KeepsPromise == Promise!Spec

-----------------------------------------------------------------------------
(***************************************************************************)
(* What my_malloc.h says and the code does not do.                         *)
(***************************************************************************)

Listed == LET at == Walk(mem, head) IN {at[n] : n \in DOMAIN at}

\* my_malloc.h: freeMemoryBlock "adds the block to the free list".
FreedIsListed == \A b \in mem.blocks : ~mem.allocated[b] => b \in Listed

=============================================================================
