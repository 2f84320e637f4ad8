---------------------------- MODULE PolicyTests ----------------------------
(***************************************************************************)
(* The programs that exercise the single-threaded allocator, as its        *)
(* clients: alloc_policy_tests/ (equal, small and large range) and         *)
(* general_tests/mymalloc_test.c.  They ask nothing of the allocator's     *)
(* answers but the pointers, so a program is the list of its calls, its    *)
(* loops unrolled, with what rand decided at the start.  The program "any" *)
(* is the client of MyMalloc, which calls as it likes.                     *)
(*                                                                         *)
(* alloc_policy_tests_osx/ holds the same programs with another clock.     *)
(***************************************************************************)
EXTENDS MyMalloc, Sequences, SequencesExt

CONSTANTS
  Programs,     \* the programs to run
  NumItems,     \* NUM_ITEMS
  NumIters,     \* NUM_ITERS
  Batch,        \* the 50 of the random tests
  Window,       \* the 1000 of equal_size_allocs
  AllocSize,    \* ALLOC_SIZE
  SmallRange,   \* the sizes of small_range_rand_allocs
  LargeRange,   \* the sizes of large_range_rand_allocs
  AnyRoom       \* how much of the heap the program "any" may use

Index == 0 .. NumItems - 1

\* Every NUM_ITERS of the sources is even: the last round of a random test leaves its
\* items in set 0, where main's last loop looks for them.  What a program asks for is
\* among the sizes that the allocator is asked for.
ASSUME PolicyTestsAssumption ==
  /\ Programs \subseteq {"any", "equal_size", "small_range", "large_range", "mymalloc_test"}
  /\ NumItems \in Nat \ {0} /\ NumIters \in Nat /\ NumIters % 2 = 0
  /\ Batch \in Nat \ {0} /\ NumItems % Batch = 0
  /\ Window \in 1 .. NumItems
  /\ AnyRoom \in 0 .. HeapLimit - 1
  /\ "equal_size" \in Programs => AllocSize \in Sizes
  /\ "small_range" \in Programs => SmallRange \subseteq Sizes
  /\ "large_range" \in Programs => LargeRange \subseteq Sizes
  /\ "mymalloc_test" \in Programs => {4, 7, 8, 10, 16, 23, 32, 256} \subseteq Sizes

VARIABLES
  program,   \* the program that runs
  policy,    \* the policy it is compiled for
  calls,     \* the calls it still makes
  address    \* its array of pointers

test    == <<program, policy, calls, address>>
allVars == <<vars, test>>

-----------------------------------------------------------------------------
(***************************************************************************)
(* The calls of each program, by the place of the pointer.                 *)
(***************************************************************************)

MALLOC(slot, size) == [call |-> "malloc", slot |-> slot, size |-> size]
FREE(slot)         == [call |-> "free", slot |-> slot, size |-> 0]

\* f(from), ..., f(to - 1)
each(from, to, f(_)) == [n \in 1 .. to - from |-> f(from + n - 1)]

equal_size_allocs ==
  LET array(k)   == <<0, k>>
      spacing(k) == <<1, k>>
      both(k)    == <<MALLOC(array(k), AllocSize), MALLOC(spacing(k), AllocSize)>>
      slide(k)   == <<MALLOC(array(k), AllocSize), FREE(array(k - Window))>>
      fill(k)    == MALLOC(array(k), AllocSize)
      drain(k)   == FREE(array(k))
      finish(k)  == FREE(spacing(k))
      round(n)   == each(0, Window, fill) \o FlattenSeq(each(Window, NumItems, slide))
                      \o each(NumItems - Window, NumItems, drain)
  IN  FlattenSeq(each(0, NumItems, both)) \o each(0, NumItems, drain)
        \o FlattenSeq(each(0, NumIters, round)) \o each(0, NumItems, finish)

\* What the shuffle makes of the identity: one cycle, since j < i in every swap.
Shuffled ==
  {p \in [Index -> Index] :
     \A S \in (SUBSET Index) \ {{}, Index} : \E k \in S : p[k] \notin S}

\* Deviation: the two sets are swapped.
malloc_setSwapped(i) == 1 - (i % 2)

\* The set whose items round i of the timed loop frees.
malloc_set(i) == i % 2

\* One round of the inner loop: 50 items of one set freed in the order of free_list,
\* 50 of the other one allocated in the order of the array.
batch(bytes, free_list, i, j) ==
  LET freed    == malloc_set(i)
      taken    == 1 - malloc_set(i)
      put(k)   == FREE(<<freed, free_list[k]>>)
      take(k)  == MALLOC(<<taken, k>>, bytes[<<taken, k>>])
  IN  each(j, j + Batch, put) \o each(j, j + Batch, take)

rand_allocs(bytes, free_list) ==
  LET take(k)   == MALLOC(<<0, k>>, bytes[<<0, k>>])
      finish(k) == FREE(<<0, k>>)
      inner(i)  == LET at(n) == batch(bytes, free_list, i, n * Batch)
                   IN  FlattenSeq(each(0, NumItems \div Batch, at))
  IN  each(0, NumItems, take) \o FlattenSeq(each(0, NumIters, inner))
        \o each(0, NumItems, finish)

RandAllocs(range) ==
  {rand_allocs(bytes, free_list) : bytes \in [{0, 1} \X Index -> range],
                                   free_list \in Shuffled}

small_range_rand_allocs == RandAllocs(SmallRange)
large_range_rand_allocs == RandAllocs(LargeRange)

\* Sizes in ints, of which a header takes eight.  It fills each block with as many ints
\* as it asked for.
mymalloc_test ==
  LET new(k, size) == MALLOC(<<0, k>>, size)
      old(k)       == FREE(<<0, k>>)
  IN  <<new(0, 4), new(1, 16), new(2, 8), new(3, 32), old(0), old(2),
        new(4, 7), new(5, 256), old(5), old(1), old(3),
        new(6, 23), new(7, 4), old(4), new(8, 10), new(9, 32),
        old(6), old(7), old(8), old(9)>>

CallsOf ==
  CASE program = "any" -> {<<>>}
    [] program = "equal_size" -> {equal_size_allocs}
    [] program = "small_range" -> small_range_rand_allocs
    [] program = "large_range" -> large_range_rand_allocs
    [] program = "mymalloc_test" -> {mymalloc_test}

-----------------------------------------------------------------------------
(***************************************************************************)
(* The steps of a program.                                                 *)
(***************************************************************************)

now == Head(calls)

\* The calls of a program that has overwritten what is not its own: what it and the
\* allocator do from then on is not defined.
Lost == <<[call |-> "lost", slot |-> <<0, 0>>, size |-> 0]>>

\* What mymalloc_test now writes does not fit into the block it has been given: it runs
\* over the header behind it, or starts at NULL.  The other programs write nothing.
WritesBeyond ==
  /\ program = "mymalloc_test"
  /\ LET b == address'[now.slot] IN b = NULL \/ heap'.dataSize[b] < now.size

\* The call the program is at is a malloc: it enters the search.
callMalloc ==
  /\ pc = "idle"
  /\ now.call = "malloc"
  /\ \/ policy = "FF" /\ ff_malloc(now.size)
     \/ policy = "BF" /\ bf_malloc(now.size)
  /\ UNCHANGED test

\* The search, up to the pointer the program stores, and what it writes there.
inMalloc ==
  /\ findFirstFit \/ findBestFit
  /\ IF pc' # "idle" THEN UNCHANGED test
     ELSE /\ address' = [address EXCEPT ![now.slot] =
                 IF asked' = asked THEN NULL ELSE CHOOSE b \in Addr : asked'[b] # asked[b]]
          /\ calls' = IF WritesBeyond THEN Lost ELSE Tail(calls)
          /\ UNCHANGED <<program, policy>>

\* The call it is at is a free.  A pointer that is NULL changes nothing.
callFree ==
  /\ pc = "idle"
  /\ now.call = "free"
  /\ IF address[now.slot] = NULL THEN UNCHANGED vars ELSE ff_free(address[now.slot])
  /\ calls' = IF pc' = "idle" THEN Tail(calls) ELSE calls
  /\ UNCHANGED <<program, policy, address>>

inFree ==
  /\ freeMemoryBlock
  /\ calls' = IF pc' = "idle" THEN Tail(calls) ELSE calls
  /\ UNCHANGED <<program, policy, address>>

PolicyInit ==
  /\ program \in Programs
  /\ InitAt(IF program = "any" THEN HeapLimit - AnyRoom ELSE 1)
  /\ policy \in IF program = "any" THEN {"FF"} ELSE Policies
  /\ calls \in CallsOf
  /\ address = [slot \in {0, 1} \X (Index \cup 0 .. 9) |-> NULL]

PolicyNext ==
  \/ program = "any" /\ Next /\ UNCHANGED test
  \/ calls # <<>> /\ (callMalloc \/ inMalloc \/ callFree \/ inFree)
  \/ program # "any" /\ calls \in {<<>>, Lost} /\ UNCHANGED allVars  \* main has returned

PolicySpec == PolicyInit /\ [][PolicyNext]_allVars

-----------------------------------------------------------------------------
(***************************************************************************)
(* Properties                                                              *)
(***************************************************************************)

\* A program frees only what it holds, and each pointer once, though the calls that
\* allocate and those that free follow different orders in alternating sets.
FreesOnce ==
  calls # <<>> /\ pc = "idle" /\ now.call = "free" =>
    address[now.slot] = NULL \/ asked[address[now.slot]] # 0

\* When main returns, everything it was given has been freed, and the allocator counts
\* all of the data segment as free.  A program that has overwritten a header does not
\* count as one that returns.
EndsEmpty ==
  program # "any" /\ calls = <<>> =>
    /\ \A b \in Addr : asked[b] = 0
    /\ heap.totalFreed = heap.totalAllocated

\* With one size and a spacing block between any two of the others, nothing is merged
\* or split before main's last loop, and the timed loop lives on the blocks of the
\* set-up: the data segment does not grow, under either policy.
EqualNeverGrows ==
  program = "equal_size" /\ Len(calls) >= NumItems =>
    /\ \A b \in heap.blocks : heap.dataSize[b] = AllocSize
    /\ brk <= 1 + 2 * NumItems * (MetaSize + AllocSize)

=============================================================================
