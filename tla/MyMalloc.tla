------------------------------ MODULE MyMalloc ------------------------------
(***************************************************************************)
(* The single-threaded allocator of Project_1/my_malloc/my_malloc.c:       *)
(* ff_malloc, bf_malloc and ff_free (bf_free) over a doubly linked free    *)
(* list kept in address order, with sbrk underneath.                       *)
(*                                                                         *)
(* A header is named by its address; a pointer the client holds is the     *)
(* header's address plus MetaSize, so a client pointer is named by its     *)
(* header too.  One action is one C function from its call to its return,  *)
(* except that the two loops over the free list take one action per        *)
(* iteration, so that the loops themselves (do they end? do they skip a    *)
(* block?) can be talked about.                                            *)
(***************************************************************************)
EXTENDS Integers, FiniteSets, FiniteSetsExt, FreeList

CONSTANTS
  MetaSize,      \* META_SIZE, sizeof(MemoryBlock)
  HeapLimit,     \* the highest value the program break may take
  Sizes,         \* the sizes the client passes to malloc (0 returns NULL at once)
  ForeignSizes,  \* increments by which the C library itself moves the break
  Policies       \* which mallocs the client calls: a subset of {"FF", "BF"}

ASSUME MyMallocAssumption ==
  /\ MetaSize \in Nat \ {0}
  /\ HeapLimit \in Nat \ {0}
  /\ Sizes \subseteq Nat \ {0}
  /\ ForeignSizes \subseteq Nat \ {0}
  /\ Policies \subseteq {"FF", "BF"}

NULL == 0

\* The data segment starts at address 1; the break is the first address past it.
Addr == 1 .. HeapLimit
Ptr  == Addr \cup {NULL}

VARIABLES
  heap,   \* the headers in memory, freeList and heap_info: see Heap below
  brk,    \* the program break
  errno,  \* "ENOMEM" or "other": all the code asks of errno
  pc,     \* "idle", or the loop the running call is in
  iter,   \* the loop's pointer: curr, current or iter
  best,   \* findBestFit's bestFit
  req,    \* the size the running malloc was asked for
  block,  \* the block the running free was given
  asked   \* client: bytes asked for in the block it holds, 0 if it holds none

vars == <<heap, brk, errno, pc, iter, best, req, block, asked>>

(***************************************************************************)
(* The four fields of struct MemoryBlock are functions of the header's     *)
(* address, as memory is.  "blocks" is auxiliary: the addresses of the     *)
(* headers that divide the memory at present (initializeMemoryBlock adds   *)
(* one, a coalesce absorbs one); the code keeps it nowhere.                *)
(***************************************************************************)
Heap == [blocks         : SUBSET Addr,
         dataSize       : [Addr -> Nat],
         allocated      : [Addr -> BOOLEAN],
         prev           : [Addr -> Ptr],
         next           : [Addr -> Ptr],
         head           : Ptr,
         tail           : Ptr,
         totalAllocated : Int,
         totalFreed     : Int]

InitHeap == [blocks         |-> {},
             dataSize       |-> [a \in Addr |-> 0],
             allocated      |-> [a \in Addr |-> FALSE],
             prev           |-> [a \in Addr |-> NULL],
             next           |-> [a \in Addr |-> NULL],
             head           |-> NULL,
             tail           |-> NULL,
             totalAllocated |-> 0,
             totalFreed     |-> 0]

\* The first address after block b.
EndOf(h, b) == b + MetaSize + h.dataSize[b]

-----------------------------------------------------------------------------
(***************************************************************************)
(* The helpers of my_malloc.c, from a heap to the heap they leave behind.  *)
(***************************************************************************)

isEmptyFreeList(h) == h.head = NULL /\ h.tail = NULL

initializeMemoryBlock(h, b, size, flag) ==
  [h EXCEPT !.blocks = @ \cup {b},
            !.dataSize[b] = size,
            !.allocated[b] = flag,
            !.prev[b] = NULL,
            !.next[b] = NULL]

appendToFreeList(h, b) ==
  IF isEmptyFreeList(h)
  THEN [h EXCEPT !.head = b, !.tail = b, !.allocated[b] = FALSE]
  ELSE [h EXCEPT !.next = [@ EXCEPT ![h.tail] = b, ![b] = NULL],
                 !.prev[b] = h.tail,
                 !.tail = b,
                 !.allocated[b] = FALSE]

\* Deviation: the right neighbour keeps pointing back at curr.
insertIntoFreeListNoBackLink(h, b, curr) ==
  IF isEmptyFreeList(h)
  THEN [h EXCEPT !.head = b, !.tail = b]
  ELSE IF curr = NULL
  THEN [h EXCEPT !.prev = [@ EXCEPT ![h.head] = b, ![b] = NULL],
                 !.next[b] = h.head,
                 !.head = b]
  ELSE IF curr = h.tail
  THEN [h EXCEPT !.next = [@ EXCEPT ![h.tail] = b, ![b] = NULL],
                 !.prev[b] = h.tail,
                 !.tail = b]
  ELSE [h EXCEPT !.next = [@ EXCEPT ![curr] = b, ![b] = h.next[curr]],
                 !.prev[b] = curr]

\* Deviation: the inserted block points at itself (the shadowed toInsert of
\* project2/my_malloc.c).
insertIntoFreeListSelfLink(h, b, curr) ==
  IF isEmptyFreeList(h) \/ curr = NULL \/ curr = h.tail
  THEN insertIntoFreeListNoBackLink(h, b, curr)
  ELSE [h EXCEPT !.next = [@ EXCEPT ![curr] = b, ![b] = b],
                 !.prev[b] = curr]

insertIntoFreeList(h, b, curr) ==
  IF isEmptyFreeList(h)
  THEN [h EXCEPT !.head = b, !.tail = b]
  ELSE IF curr = NULL
  THEN [h EXCEPT !.prev = [@ EXCEPT ![h.head] = b, ![b] = NULL],
                 !.next[b] = h.head,
                 !.head = b]
  ELSE IF curr = h.tail
  THEN [h EXCEPT !.next = [@ EXCEPT ![h.tail] = b, ![b] = NULL],
                 !.prev[b] = h.tail,
                 !.tail = b]
  ELSE LET toInsert == h.next[curr]
       IN  [h EXCEPT !.next = [@ EXCEPT ![curr] = b, ![b] = toInsert],
                     !.prev = [@ EXCEPT ![b] = curr, ![toInsert] = b]]

\* removeFromFreeList before its last three assignments.
unlink(h, b) ==
  IF h.head = b /\ h.tail = b
  THEN [h EXCEPT !.head = NULL, !.tail = NULL]
  ELSE IF b = h.head
  THEN [h EXCEPT !.head = h.next[b], !.prev[h.next[b]] = NULL]
  ELSE IF b = h.tail
  THEN [h EXCEPT !.tail = h.prev[b], !.next[h.prev[b]] = NULL]
  ELSE [h EXCEPT !.next[h.prev[b]] = h.next[b], !.prev[h.next[b]] = h.prev[b]]

\* Deviation: the block taken off the list stays marked free.
removeFromFreeListUnmarked(h, b) ==
  IF isEmptyFreeList(h)
  THEN h
  ELSE [unlink(h, b) EXCEPT !.prev[b] = NULL, !.next[b] = NULL]

removeFromFreeList(h, b) ==
  IF isEmptyFreeList(h)
  THEN h
  ELSE [unlink(h, b) EXCEPT !.prev[b] = NULL,
                            !.next[b] = NULL,
                            !.allocated[b] = TRUE]

\* Block b shrunk to size bytes and taken, the header of the rest behind it
\* written, its data rest bytes.
layRemainder(h, b, size, rest) ==
  [initializeMemoryBlock(h, b + MetaSize + size, rest, FALSE)
     EXCEPT !.dataSize[b] = size, !.allocated[b] = TRUE]

\* Block b split: its remainder goes into the list behind it, b off the list.
splitInTwo(h, b, size, rest) ==
  [removeFromFreeList(
     insertIntoFreeList(layRemainder(h, b, size, rest), b + MetaSize + size, b), b)
     EXCEPT !.totalFreed = @ - (MetaSize + size)]

\* Block b taken as it is.
takeWhole(h, b) ==
  removeFromFreeList([h EXCEPT !.totalFreed = @ - (MetaSize + h.dataSize[b])], b)

\* Deviation: splits whenever the block is large enough for the request.
splitMemoryBlockTight(h, b, size) ==
  splitInTwo(h, b, size, h.dataSize[b] - size - MetaSize)

\* Deviation: the remainder's size does not leave out its own header.
splitMemoryBlockWide(h, b, size) ==
  IF h.dataSize[b] < MetaSize + size
  THEN takeWhole(h, b)
  ELSE splitInTwo(h, b, size, h.dataSize[b] - size)

splitMemoryBlock(h, b, size) ==
  IF h.dataSize[b] < MetaSize + size
  THEN takeWhole(h, b)
  ELSE splitInTwo(h, b, size, h.dataSize[b] - size - MetaSize)

\* The left block takes over the bytes of the right one, header included.
absorb(h, left, right) ==
  removeFromFreeList(
    [h EXCEPT !.blocks = @ \ {right},
              !.dataSize[left] = @ + MetaSize + h.dataSize[right]], right)

coalesceWithLeft(h, b) ==
  IF h.prev[b] # NULL /\ b = EndOf(h, h.prev[b])
  THEN absorb(h, h.prev[b], b)
  ELSE h

\* Deviation: the header is left out of the address comparison.
coalesceWithRightNoMeta(h, b) ==
  IF h.next[b] # NULL /\ h.next[b] = b + h.dataSize[b]
  THEN absorb(h, b, h.next[b])
  ELSE h

\* Deviation: merges with the next free block wherever that is.
coalesceWithRightAnyway(h, b) ==
  IF h.next[b] # NULL THEN absorb(h, b, h.next[b]) ELSE h

coalesceWithRight(h, b) ==
  IF h.next[b] # NULL /\ h.next[b] = EndOf(h, b)
  THEN absorb(h, b, h.next[b])
  ELSE h

-----------------------------------------------------------------------------
(***************************************************************************)
(* malloc                                                                  *)
(***************************************************************************)

\* The running call returns.
Return == /\ pc' = "idle"
          /\ iter' = NULL
          /\ best' = NULL
          /\ req' = 0
          /\ block' = NULL

\* Deviation: the search starts at the tail.
StartSearchAtTail(size, loop) ==
  /\ pc = "idle"
  /\ pc' = loop
  /\ iter' = heap.tail
  /\ best' = NULL
  /\ req' = size
  /\ UNCHANGED <<heap, brk, errno, block, asked>>

\* The call enters the search loop, its pointer at the head of the list.
StartSearch(size, loop) ==
  /\ pc = "idle"
  /\ pc' = loop
  /\ iter' = heap.head
  /\ best' = NULL
  /\ req' = size
  /\ UNCHANGED <<heap, brk, errno, block, asked>>

ff_malloc(size) == "FF" \in Policies /\ StartSearch(size, "findFirstFit")

bf_malloc(size) == "BF" \in Policies /\ StartSearch(size, "findBestFit")

\* A search that succeeded: the block is taken (split if it is large enough)
\* and handed to the client.
TakeBlock(b) ==
  /\ heap' = splitMemoryBlock(heap, b, req)
  /\ asked' = [asked EXCEPT ![b] = req]
  /\ Return
  /\ UNCHANGED <<brk, errno>>

\* Memory just obtained from sbrk becomes an allocated block.
newBlock(h, b, size) ==
  [initializeMemoryBlock(h, b, size, TRUE)
     EXCEPT !.totalAllocated = @ + (size + MetaSize)]

\* A search that found nothing: sbrk.  A failing sbrk sets errno; a sbrk that
\* succeeds leaves errno alone, and the code then asks errno as well.
allocateMemory ==
  LET totalSize == req + MetaSize IN
  /\ \/ /\ brk + totalSize > HeapLimit
        /\ errno' = "ENOMEM"
        /\ UNCHANGED <<brk, heap, asked>>
     \/ /\ brk + totalSize <= HeapLimit
        /\ brk' = brk + totalSize
        /\ UNCHANGED errno
        /\ IF errno = "ENOMEM"
           THEN UNCHANGED <<heap, asked>>
           ELSE /\ heap' = newBlock(heap, brk, req)
                /\ asked' = [asked EXCEPT ![brk] = req]
  /\ Return

\* Deviation: the header's own bytes count as room.
findFirstFitLoose ==
  /\ pc = "findFirstFit"
  /\ \/ /\ iter = NULL
        /\ allocateMemory
     \/ /\ iter # NULL
        /\ heap.dataSize[iter] + MetaSize >= req
        /\ TakeBlock(iter)
     \/ /\ iter # NULL
        /\ heap.dataSize[iter] + MetaSize < req
        /\ iter' = heap.next[iter]
        /\ UNCHANGED <<heap, brk, errno, pc, best, req, block, asked>>

\* One iteration of findFirstFit, or its end.
findFirstFit ==
  /\ pc = "findFirstFit"
  /\ \/ /\ iter = NULL
        /\ allocateMemory
     \/ /\ iter # NULL
        /\ heap.dataSize[iter] >= req
        /\ TakeBlock(iter)
     \/ /\ iter # NULL
        /\ heap.dataSize[iter] < req
        /\ iter' = heap.next[iter]
        /\ UNCHANGED <<heap, brk, errno, pc, best, req, block, asked>>

\* Deviation: only a block of exactly the requested size is ever taken.
BetterNone(b) == best

\* findBestFit's choice between what it has and the block it looks at.
Better(b) ==
  IF best = NULL \/ heap.dataSize[best] > heap.dataSize[b] THEN b ELSE best

\* One iteration of findBestFit, or its end.  bf_malloc then splits "current",
\* which is still the head of the list, and not bestFit.
findBestFit ==
  /\ pc = "findBestFit"
  /\ \/ /\ iter = NULL
        /\ best = NULL
        /\ allocateMemory
     \/ /\ iter = NULL
        /\ best # NULL
        /\ TakeBlock(heap.head)
     \/ /\ iter # NULL
        /\ heap.dataSize[iter] = req
        /\ TakeBlock(heap.head)
     \/ /\ iter # NULL
        /\ heap.dataSize[iter] # req
        /\ best' = IF heap.dataSize[iter] > req THEN Better(iter) ELSE best
        /\ iter' = heap.next[iter]
        /\ UNCHANGED <<heap, brk, errno, pc, req, block, asked>>

-----------------------------------------------------------------------------
(***************************************************************************)
(* free                                                                    *)
(***************************************************************************)

\* Deviation: the header is not counted as freed.
markFreeDataOnly(h, b) ==
  [h EXCEPT !.allocated[b] = FALSE, !.totalFreed = @ + h.dataSize[b]]

\* The first two statements of freeMemoryBlock.
markFree(h, b) ==
  [h EXCEPT !.allocated[b] = FALSE,
            !.totalFreed = @ + h.dataSize[b] + MetaSize]

\* The block goes behind the tail.  The code asks whether the block is behind
\* the tail only after it has become the tail.
appendFreed(h, b) ==
  LET appended == appendToFreeList(h, b)
  IN  IF ~isEmptyFreeList(appended) /\ b > appended.tail
      THEN coalesceWithLeft(appended, b)
      ELSE appended

\* ff_free of a block the client holds: everything up to the loop that looks
\* for the block's place, and the whole call when there is no loop.
ff_free(b) ==
  /\ pc = "idle"
  /\ asked[b] # 0
  /\ asked' = [asked EXCEPT ![b] = 0]
  /\ UNCHANGED <<brk, errno>>
  /\ \/ /\ ~heap.allocated[b]
        /\ UNCHANGED heap
        /\ Return
     \/ /\ heap.allocated[b]
        /\ isEmptyFreeList(heap) \/ b > heap.tail
        /\ heap' = appendFreed(markFree(heap, b), b)
        /\ Return
     \/ /\ heap.allocated[b]
        /\ ~isEmptyFreeList(heap) /\ b <= heap.tail /\ b < heap.head
        /\ heap' = coalesceWithRight(
                     insertIntoFreeList(markFree(heap, b), b, NULL), b)
        /\ Return
     \/ /\ heap.allocated[b]
        /\ ~isEmptyFreeList(heap) /\ b <= heap.tail /\ b >= heap.head
        /\ heap' = markFree(heap, b)
        /\ pc' = "free"
        /\ iter' = heap.head
        /\ block' = b
        /\ UNCHANGED <<best, req>>

\* One iteration of freeMemoryBlock's loop, or what follows it.
freeMemoryBlock ==
  /\ pc = "free"
  /\ UNCHANGED <<brk, errno, asked>>
  /\ \/ /\ iter < block
        /\ iter' = heap.next[iter]
        /\ UNCHANGED <<heap, pc, best, req, block>>
     \/ /\ iter >= block
        /\ heap' = coalesceWithLeft(
                     coalesceWithRight(
                       insertIntoFreeList(heap, block, heap.prev[iter]),
                       block),
                     block)
        /\ Return

-----------------------------------------------------------------------------
(***************************************************************************)
(* External: the C library shares the break and errno with the allocator   *)
(* (its own malloc, which stdio calls, uses sbrk), between two calls.      *)
(***************************************************************************)

LibcSbrk(n) ==
  /\ pc = "idle"
  /\ IF brk + n <= HeapLimit
     THEN brk' = brk + n /\ UNCHANGED errno
     ELSE errno' = "ENOMEM" /\ UNCHANGED brk
  /\ UNCHANGED <<heap, pc, iter, best, req, block, asked>>

\* Any other library call that fails leaves its own error in errno.
LibcErrno ==
  /\ pc = "idle"
  /\ errno' = "other"
  /\ UNCHANGED <<heap, brk, pc, iter, best, req, block, asked>>

-----------------------------------------------------------------------------
\* The data segment is empty and starts at "start".
InitAt(start) ==
  /\ heap = InitHeap
  /\ brk = start
  /\ errno = "other"
  /\ pc = "idle"
  /\ iter = NULL
  /\ best = NULL
  /\ req = 0
  /\ block = NULL
  /\ asked = [b \in Addr |-> 0]

Init == InitAt(1)

\* The steps of a program compiled for first fit ...
FFNext ==
  \/ \E size \in Sizes : ff_malloc(size)
  \/ findFirstFit
  \/ \E b \in Addr : ff_free(b)
  \/ freeMemoryBlock
  \/ \E n \in ForeignSizes : LibcSbrk(n)
  \/ LibcErrno

\* ... and of one that calls both policies.
Next ==
  \/ FFNext
  \/ \E size \in Sizes : bf_malloc(size)
  \/ findBestFit

Spec == Init /\ [][Next]_vars

\* First fit, in a program that is one running thread: a loop it is in goes on.
FairSpec == Init /\ [][FFNext]_vars /\ WF_vars(findFirstFit \/ freeMemoryBlock)

-----------------------------------------------------------------------------
(***************************************************************************)
(* Properties                                                              *)
(***************************************************************************)

\* Every variable has its type.
TypeOK ==
  /\ heap \in Heap
  /\ brk \in Addr
  /\ errno \in {"ENOMEM", "other"}
  /\ pc \in {"idle", "findFirstFit", "findBestFit", "free"}
  /\ iter \in Ptr
  /\ best \in Ptr
  /\ req \in Sizes \cup {0}
  /\ block \in Ptr
  /\ asked \in [Addr -> Sizes \cup {0}]

\* The blocks that should be on the free list: those marked free, except the
\* one a running free has marked and not yet inserted.
FreeBlocks ==
  {b \in heap.blocks : ~heap.allocated[b]} \ (IF pc = "free" THEN {block} ELSE {})

\* The free list holds exactly the free blocks, in address order, whatever
\* sequence of splits, insertions and merges built it.  The searches of
\* findFirstFit and freeMemoryBlock rely on it.
FreeListSound == Chained(FreeBlocks, heap.head, heap.tail, heap.next, heap.prev)

\* No byte belongs to two blocks and every block ends below the break, whatever
\* was split and merged: writing to one block cannot reach another's header.
BlocksDisjoint ==
  \A b \in heap.blocks :
    /\ EndOf(heap, b) <= brk
    /\ \A c \in heap.blocks : b < c => EndOf(heap, b) <= c

\* A block is marked allocated exactly while the client holds it: no block is
\* lost (neither free nor held) and none is free and held at once.
NoBlockLost ==
  \A b \in Addr :
    (asked[b] # 0) <=> (b \in heap.blocks /\ heap.allocated[b])

\* The client got at least what it asked for.
EnoughRoom == \A b \in Addr : asked[b] # 0 => asked[b] <= heap.dataSize[b]

Bytes(S) == MapThenSumSet(LAMBDA b : MetaSize + heap.dataSize[b], S)

\* heap_info agrees with the blocks: get_data_segment_size() is the size of all
\* of them and get_data_segment_free_space_size() that of the free ones, though
\* both are only ever adjusted by increments.
Accounting ==
  /\ heap.totalAllocated = Bytes(heap.blocks)
  /\ heap.totalFreed = Bytes({b \in heap.blocks : ~heap.allocated[b]})

\* The free blocks that start where another free block ends.
Seams == {c \in FreeBlocks : \E b \in FreeBlocks : EndOf(heap, b) = c}

\* What coalescing achieves: two free blocks come to touch without being merged
\* only when a block is freed behind the tail; no other free, no split and no
\* merge leaves a new pair.
SeamsOnlyAtTail == [][Seams' \ Seams \subseteq {heap'.tail} \ FreeBlocks]_vars

\* ff_malloc hands out the lowest free block that is large enough.
FirstFitChoice ==
  [][\A b, f \in FreeBlocks :
       (pc = "findFirstFit" /\ asked'[b] # asked[b] /\ f < b)
         => (heap.dataSize[f] < req)]_vars

\* The break is moved for a request only when no free block is large enough.
GrowsOnlyWhenNothingFits ==
  [][\A f \in FreeBlocks :
       (pc \in {"findFirstFit", "findBestFit"} /\ brk' # brk)
         => (heap.dataSize[f] < req)]_vars

\* Every call returns: the loops over the free list end.
CallReturns == pc # "idle" ~> pc = "idle"

\* The client's regions, as HeapPromise sees them.
ClientRegions == {[start |-> b + MetaSize, size |-> asked[b]] :
                    b \in {a \in Addr : asked[a] # 0}}

Promise == INSTANCE HeapPromise WITH Limit <- HeapLimit, regions <- ClientRegions

\* First fit keeps the allocator's promise: the regions handed out never overlap.
KeepsPromise == Promise!Spec

-----------------------------------------------------------------------------
(***************************************************************************)
(* What my_malloc.h and the tests' READMEs say and the code does not do.   *)
(***************************************************************************)

\* my_malloc.h: "Coalescing with neighboring free blocks is performed to merge
\* contiguous free blocks."
ContiguousMerged == Seams = {}

\* alloc_policy_tests/README.txt: the data segment size is "the aggregate amount
\* of memory that has been sbrk'ed" (nobody else moves the break in this run).
SegmentSizeIsWhatWasSbrked == heap.totalAllocated = brk - 1

=============================================================================
