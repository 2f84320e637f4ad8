# A verification project for the allocators and the hot-potato game

The repository holds three programs of a systems course. This directory models
them in TLA+, checks the models with TLC, and proves what matters most about them
with TLAPS. `PROJECT.json` lists the runs, the source lines of every definition,
the hazards, the findings and the theorems; this file says how they hang together.

## 1. Inventory

### Project_1/my_malloc: `ff_malloc`, `bf_malloc`, `ff_free`, `bf_free`

*State.* Headers (`struct MemoryBlock`: dataSize, allocated, prev, next) lie in the
data segment in front of the data they describe. `freeList` (head, tail) links the
free ones in address order. `heap_info` counts bytes allocated and freed. The
program break and `errno` are shared with the C library.

*Operations.* A malloc searches the list (`findFirstFit`, `findBestFit`), splits and
takes what it finds (`splitMemoryBlock`) or asks `sbrk` (`allocateMemory`). A free
puts the block back in its place and merges it with its neighbours
(`freeMemoryBlock`, `insertIntoFreeList`, `appendToFreeList`, `coalesceWithLeft`,
`coalesceWithRight`, `removeFromFreeList`).

*Hard.* Nothing runs concurrently; what is hard are long sequences of legal calls.
The loops rely on an order that splits, insertions and merges have to preserve, the
counters are only ever adjusted, and the break moves for other reasons too.

*Correct if* the list is exactly the free blocks in address order, blocks never
overlap, no block is lost or free and held at once, a client gets what it asked
for, the counters agree with the blocks, contiguous free blocks are merged, the
heap grows only when it must, and every call returns.

### project2: `ts_malloc_lock`, `ts_free_lock`, `ts_malloc_nolock`, `ts_free_nolock`

*State.* The same headers; a global list for the lock build, a `__thread` list for
the other; one mutex; `errno` per thread.

*Operations.* The lock build holds the mutex around `bf_malloc` and `bf_free`. The
no-lock build searches the thread's own list and holds the mutex only in
`sbrk_nolock`. Its free does nothing (`bf_freee` has no body). All helpers take the
list's ends *by value*, so no list ever holds a block.

*Hard.* Two threads between reading and setting the break, headers written outside
the mutex, frees from another thread, paths out of a call that fails.

*Correct if* regions held by all threads together never overlap, a held block's
header is intact, the mutex excludes and is released on every path, and every
thread gets through its calls.

### project3_hot_potato: `ringmaster`, `player`

*State.* One ringmaster and n player processes, with a TCP connection from each
player to the ringmaster and to its left neighbour. The ringmaster keeps the players'
sockets and ports in the order of its accepts; a player keeps its id and three
sockets; a `Potato` carries `ttl`, `path`, `count`.

*Operations.* Ringmaster: accept a player, send it its id, receive its port; send
everyone the port of its left neighbour; throw the potato; read the first readable
player; send what it read to all; close. Player: connect, receive id, listen, send
port, receive the left port, connect, accept, then read and forward until the end.

*Hard.* Players arrive in any order and run at any speed, everybody waits for
somebody while the ring is built, and an end of file from a neighbour counts as the
end of the game, so one exit sets off others while messages are still under way.

*Correct if* the ring is wired by the ids, one potato makes the number of hops, is
never sent to a player that has left, comes back with a trace that is a walk around
the ring, and every process exits.

### The test programs

*thread_tests* (four programs): main fills an array of items, its threads malloc an
item per round and now and then free one, their own (`thread_test_malloc_free`) or
the next thread's (`..._change_thread`, `thread_test_measurement`; those ask a flag
under `my_mutex` first), main joins them, compares every two regions, prints its
verdict, and frees what the flags say is left. *alloc_policy_tests* and
*general_tests*: long fixed sequences of calls, of one size with spacing blocks, of
random sizes in alternating sets, and a hand-written one.

*Hard.* Who frees an item is decided by flags that workers and main share, and by
counters that run at their own pace. The stores to an item's address and flag are
outside the mutex under which the flag is read: a data race, in which the order of the
two stores is the compiler's. `my_malloc.h` declares the functions of the
lock build only; in the other, which the Makefile builds, a pointer passes through an
`int`. The measurement reads the break before it creates its threads, for which the C
library moves it too. The policy tests' loops rely on an even number of rounds, and
`mymalloc_test` writes to what it gets.

*Correct if* an item is freed once and only while it is held, the verdict is right,
nothing leaks, what is measured is what it is taken for, and the program ends.

### Not modelled

Build files, binaries, handouts; `alloc_policy_tests_osx`, the same programs with
another clock. Of the programs themselves: printing and timing, the getters, argument
parsing (its checks are assumptions on the constants; a negative `num_hops`, which
becomes a huge one, is excluded), address lookup and socket options with their error
exits, a player that ends during the setup, a setup integer that arrives in two pieces.
The barriers of the thread tests do not appear: no thread does anything another one sees
before the first or after the second. What `mymalloc_test` does after it has written past
the end of a block is not defined and not modelled. Of a pointer that an `int` has cut, the
cases left out are a heap that crosses a multiple of 2^32, and one whose cut addresses lie
at 0. The policy tests' only use of the C
library's own `sbrk` (stdio's buffer, at their first printf) comes after their timed
loops and is left to the program "any".

## 2. Modules

| module | models | theorems |
|---|---|---|
| `FreeList` | what a sound free list is (`Chained`) | `MyMallocProofs` |
| `HeapPromise` | abstract: regions handed out never overlap | |
| `MyMalloc` | Project_1/my_malloc/my_malloc.c | `SumProofs`, `MyMallocProofs` |
| `PolicyTests` | alloc_policy_tests, general_tests, on `MyMalloc` | `PolicyTestsProofs` |
| `TsMalloc` | project2/my_malloc.c, both builds | `TsMallocProofs` |
| `ThreadTests` | thread_tests, on `TsMalloc` | `ThreadTestsProofs` |
| `PotatoGame` | abstract: the game, without processes | `PotatoGameProofs` |
| `HotPotato` | ringmaster.cpp, player.cpp, server.cpp, potato.hpp | `RingProofs`, `HotPotatoProofs` |

`MyMalloc` and `TsMalloc` implement `HeapPromise` (`KeepsPromise` in each);
`HotPotato` implements `PotatoGame` (`ImplementsGame`). Each `.cfg` gives a module's
constants small values. `PolicyTests` and `ThreadTests` compose a test program with the
allocator it runs on: each EXTENDS the allocator's module and conjoins the allocator's
actions with its own. A definition whose comment starts with *Deviation* is the
model of a plausible bug; no specification uses one, they show that a property
can fail.

### MyMalloc

`heap` is a record: one function per header field (from addresses, as memory is),
head, tail, the two counters, and the auxiliary set `blocks` of addresses at which a
live header lies. Every C helper is an operator from a heap to the heap it leaves.
An action is a call from its start to its return, except that each iteration of the
loops of `findFirstFit`, `findBestFit` and `freeMemoryBlock` is a step of its own:
`pc` names the loop, `iter`, `best`, `req`, `block` are the C locals. The program has
one thread, so nothing interleaves with a call; the steps are there so that what the
loops look at, and that they end, can be stated.

The client is `asked`: how many bytes it wanted of each block it holds. It frees only
what it holds. `malloc(0)` and `free(NULL)`, which return at once, are left out.
Between two calls the C library may move the break (`LibcSbrk`: stdio allocates its
buffers with its own malloc, which uses `sbrk`), fail to, and set errno.

Both mallocs start their search at the head; `findBestFit`'s end is `bf_malloc`'s
`splitMemoryBlock(current, ...)`, which splits the *head*. The model follows the code.

### TsMalloc

One variable per global, one program counter per thread. A step ends at each
operation other threads can observe: taking and releasing the mutex, the two halves
of `sbrk` (it reads the break it knows and sets it), the write of the header after
`sbrk`. In the lock build everything between lock and unlock that touches only memory
under the mutex is one step (`bf_malloc`'s search and split, `bf_free`). The break starts
at `FirstBreak`: below it lies what the C library has taken from the data segment before
the threads run. The helpers
get head and tail as values and change only headers, as in the code. `version` is
chosen in the initial state. The mutex functions themselves do not fail.

### PolicyTests

A test asks nothing of the allocator's answers but the pointers, so a program is the
sequence of its MALLOC and FREE calls with the loops unrolled; what `rand` decides
(sizes, the order of the frees) is chosen in the initial state. `Shuffled` is what the
shuffle of the sources can produce: because `j < i` in every swap, the identity becomes
one cycle and nothing else. The program "any" is `MyMalloc`'s own client.

`mymalloc_test` fills each block with as many ints as it asked for. If the block is
smaller (under `bf_malloc`), or NULL, this overwrites the header behind it or fails
(`WritesBeyond`); from there on neither the program nor the allocator does anything that
the sources define, and the model ends (`Lost`). The other programs write nothing.

### ThreadTests

A test program is a record of what its `do_allocate` and `main` do (`thread_test`, ...):
in which rounds a thread frees, whose items, whether it asks the flag, what main frees.
The thread's steps are its calls of the allocator, the two stores after a malloc, the
block under `my_mutex`, and what follows a FREE. `asStored` is what a test makes of the
pointer that MALLOC returns: in the no-lock build, where the function is not declared,
an `int` is all that comes back, and above `IntMax` the pointer has lost its upper half.
It then differs from the block's address by a multiple of 2^32, the same for all of the
heap, so two such pointers keep their distance and none is an address of the heap; the
numbers below NULL stand for them. `ts_free_nolock` gets them and does nothing, as it
does with any pointer (its `bf_freee` has no body). `start_segment_addr` is what the
measurement reads before it creates the threads; `LibcBytes` is what `pthread_create`
takes between that and their start, since they wait for the last of them at a barrier.
`freeFirst` is the compiler's choice of the order of the two stores. main's comparison
of the regions is one step: every other thread has been joined. The program "any" is two
threads that call as they like.

### HotPotato

A channel is one direction of a connection: a FIFO of whole messages (id, port,
potato) that ends with `EOF` once its sender has closed. Connections wait in a
`backlog` until they are accepted; connecting does not wait for the accept, as with
TCP. A port is named by the process that listens on it. `select` followed by the loop
over `FD_ISSET` reads the *first* readable connection in the order of the loop's
vector; what has been sent may not have arrived, so a later position may be read
although an earlier one has something under way (`FirstReady`). With
`Instant = TRUE` what was sent has arrived: the two runs that end in a violation use
it, so that they do not depend on a slow network.

A player may be killed while it plays (`die`, at most `MaxDeaths` of them): the kernel
closes its connections, what it had sent still arrives. The code's answer is to take the
end of file for the end of the game. Then the game may stop early, and the properties say
what is left: everybody exits, there is one potato, and no process is killed by SIGPIPE
because it sends twice to one that has gone.

A `recv` that returns -1 (connection reset) makes a player return from its loop just
as an end of file does; the two are one case. A write to `path[512]` lands on
`count`; in the build of the Makefile (no optimisation) the increment of count is
stored first and the id overwrites it, and `RecordHop` does the same.

## 3. Runs

Passing runs:

* **ff**: `MyMallocFF.cfg`, 198,157 states. First fit, header of 1 byte, a data
  segment of 8 bytes, requests of 1, 2, 3 bytes, foreign increments of 1. Room for
  four blocks, so every position of a list operation occurs: empty list, only block,
  head, middle, tail, merge left, right and both, a split with 0 bytes left, a gap
  made by the C library, a full heap. Liveness (`CallReturns`) under weak fairness of
  the loops' steps: the program is one running thread.
* **mixed**: `PolicyTests.cfg`, 1,169,617 states. The policy tests with four items and
  two rounds, every choice of sizes and shuffle, both policies; and the program "any",
  both policies on 8 bytes with the C library moving the break. `EnoughRoom` and
  `KeepsPromise` are not in it: `bf_malloc` breaks them (below), and the data structure
  must survive that.
* **ts**: `ThreadTests.cfg`, 470,253 states. main and two threads with two items each,
  each of which may free two, the four programs and "any" with three calls a thread,
  both builds, both orders of the stores, a break that starts at 2 (one byte of which
  the C library has taken for the threads), addresses of which those up to 6 come
  through an int and those above do not, a heap that some choices of sizes exhaust and
  others do not. Fairness: every thread runs. That suffices for the mutex because a
  thread's calls are finitely many. The program stops when main returns, and may hang in
  the no-lock build, so deadlock is not checked; `LockProgramEnds` says what it should.
* **potato**: `HotPotato.cfg`, 38,778 states. Two players (both neighbours are the same
  process) and three, 0 hops, 1, and 3, which fills the path, and one player may be
  killed. Fairness: every process runs. Deadlock is checked: only the state in which all
  have exited may repeat.

Runs that end in a violation, each of one property that a comment or README of the
repository states (the quotations are in `PROJECT.json`, "findings"):

* **bf_room**: `mymalloc_test`, with `bf_malloc`, gets a block smaller than it asks for
  and writes over its end; the model stops there.
* **ff_merge**: two contiguous free blocks stay apart, after a free behind the tail.
* **ff_segment**: with ENOMEM left in errno, `allocateMemory` drops memory that sbrk
  has granted, and does not count it.
* **ts_listed**: a freed block is not on the free list, in the lock build.
* **ts_exit**: after one failed sbrk in the no-lock build the mutex stays locked, and
  a test program never ends.
* **ts_race**: a thread marks and frees an item of another one before its address is
  stored; nobody frees that region afterwards.
* **potato_catch**: the ringmaster takes an early leaver's end of file for the last
  potato.
* **potato_hops**: a game longer than `MAX_NUM_HOPS` overwrites `count`.

### Bounds

`HeapLimit` bounds the break (a real limit: sbrk fails there), `NumCalls` the calls of a
thread (more than any test makes), `NumThreads`, `NumItems`, `NumIters`, `Batch`,
`Window` and `FreeEvery` stand for the constants of the test programs, `IntMax` for the
highest address an `int` holds (0 for a program whose heap is above 2^31, as a
position-independent executable's is), `FirstBreak` and `LibcBytes` for what the C
library has taken of the data segment, `HopCounts` and `PlayerCounts` the arguments,
`MaxNumHops` stands for 512. Nothing else is cut off: the counters of `heap_info` are
bounded by the heap.

## 4. Proofs

All theorems hold for every value of the constants that the named assumptions allow
(a positive header size, positive request sizes, ...), so for any size of heap.

**Free lists** (`MyMallocProofs`). The assignments of `insertIntoFreeList` turn a
sound list into one with one block more (`ChainInsert`), those of
`removeFromFreeList` into one with one block less (`ChainRemove`). Soundness
(`Chained`) is stated with quantifiers over the blocks and not by walking the list,
which makes these facts first-order and needs no induction.

**Sums** (`SumProofs`). The library's sum over a set is a recursive function. `SumEmpty`,
`SumMore` and what follows from them rest on an induction over the naturals, stated for a
set of naturals instead of a predicate (`NatInd`, from the library's fact that a set with
no smallest element is empty).

**The heap's operators** (`MyMallocProofs`). `Sound(h, F)` says of a heap: the blocks are
laid out without overlap below the break, the list is exactly `F`, and a block off the
list has null links. For each helper a lemma says what it makes of a sound heap:
`AppendSound`, `InsertSound`, `RemoveSound`, `SplitSound`, `CoalesceLeftSound`,
`CoalesceRightSound`, `NewBlockSound`, `MarkFreeSound`.

**The allocator** (`MyMallocProofs`). `FreeListSound` and `BlocksDisjoint` are not
inductive alone: splitting is sound only for a block on the list, freeing only for one
off it, and the loops only if their pointers are where the list's order puts them.
`IInv` adds what is missing: types; that allocated means held by the client; `SearchInv`
(the blocks already passed were too small); `FreeInv` (the block being freed lies
between head and tail and those passed lie below it). From `Spec => []IInv`
(`Invariance`) follow `TypeCorrect`, `FreeListIsSound`, `BlocksAreDisjoint`,
`NoBlockIsLost`, and the action properties `GrowsOnlyForNeed`, `TakesTheFirstFit` and
`SeamsComeAtTail`, for both policies; the last rests on `SeamIsLink`, that a free block
which touches another is its neighbour on the list, the only one `tryCoalescing` looks
at. `Accounted` (each counter is the sum of the blocks' sizes) is carried along with
`IInv` through every helper and gives `AccountsAgree`. `LoopsAdvance` is the part of
`CallReturns` that is not fairness: an iteration of one of the three loops stands on a
free block and passes that one of those ahead, so a loop skips none and has as many
iterations left as there are blocks ahead. Without `bf_malloc` also
`FirstFitGivesEnough`, and `FirstFitKeepsPromise`: every step of the allocator is a step
of `HeapPromise` or leaves the client's regions alone.

**The allocator for threads** (`TsMallocProofs`), for any number of threads and both
builds: `MutexExcludes`, `TypeCorrect`, `BlocksAreDisjoint`, `HeldStaysIntact`,
`ThreadsKeepPromise`. The no-lock build writes the header of new memory after it has
left the mutex, so that `BlocksDisjoint` is not inductive: `MInv` adds the memory a thread
has from sbrk and not yet described (`ClaimsApart`: below the break, off every block and
every other claim), that a thread between the two halves of sbrk has read the present
break, and the blocks on their way to or from a client (`HandsApart`: nobody else has
them). That the ends of the lists are NULL for ever (`ListsEmpty`) is part of it: a
search from there finds nothing (`NothingFits`), and a free only marks (`OnlyMarked`).

**The thread tests** (`ThreadTestsProofs`), for any number of threads and items, any
`FreeEvery`, both builds and both orders of the stores (`ThreadTestsAssumption`: among
it, that `TsMalloc`'s bound on calls stops no test, and that 1 is a size, which only the
program "any", with no items of its own, needs), any `FirstBreak`, `LibcBytes` and
`IntMax`. `TInv` says where each thread is, and that what it has freed is what it has
gone past (`WorkerAt`). From it, `TestsAreClients`: each step of a test is one of
`TsMalloc`'s `Next` or leaves the allocator alone, so that the theorems above hold while
the tests run. The rest needs more than is stored: a flag of 1 means *marked free* or
*not stored yet*, and which of the two depends on how far two other threads have come.
`Flags` says so for every item, by the workers' positions (`Marked`, `ToFlag`);
`Holding` adds what malloc has returned for each item, stored or not (a ghost, bound by
an existential quantifier): those regions are blocks of their sizes, no two the same,
and held exactly while no FREE has been called for them, save that nobody gives back a
region whose pointer did not come through; and what is stored is `asStored` of them,
which tells blocks apart (`StoredAs`). `OInv` is the two together; `TestInvariance`
proves it along with `TInv` and `MInv`. It gives `HeldIsFreed`, `NothingIsLeft`,
`OthersAreFreed` (which assumes `NumThreads > 1`: a single thread's neighbour is itself)
and, with `BlocksDisjoint`, `VerdictIsTrue`. `SegmentIsWhatWasAsked` needs a ghost too:
`PaidFor`, the set of items whose memory sbrk has granted, stored or not, whose sizes
sum up to what has been granted since `FirstBreak` (`SumProofs`).

`OnlyALostMutexHangs` is the safety half of `ProgramEnds`, for both builds: until main has
returned some thread `CanMove`, unless a failed sbrk in `sbrk_nolock` has left the mutex
locked (`HangsOnMutex`). What the run for `ProgramEnds` finds is therefore the only way a
test can stop. `CanMove` writes out the guards of a thread's steps, as the prover does not
know ENABLED; on the instance of `ThreadTests.cfg` TLC finds the two equivalent. `HInv` says
that a thread that has the mutex and is outside it came there with ENOMEM, and that the
calls left to a thread cover the rest of its loop: the bound `NumCalls` stops no test.

**The programs of the policy tests** (`PolicyTestsProofs`), for any number of items and
rounds, any sizes and any order of the frees. `PolicyTestsAssumption` asks what the
sources' constants satisfy: `NumIters` is even, `Batch` divides `NumItems`, the sizes a
program asks for are among `Sizes`. `Runs(X, c, A, B)` says that the calls `c` lead from
a client who holds the places `A` to one who holds `B`, allocating only what is free and
freeing only what is held. It is shown of every loop (`SlideRuns`, `BatchRuns`, ...),
composed (`RunsJoin`, `RunsFlat`), and holds of each program from nothing to nothing
(`ProgramsRun`); that the shuffle is a permutation is `ShuffledIs`. `PInv` says that
this agrees with the allocator: the places now held point to different blocks, which are
exactly the ones held, of the sizes asked (`Owns`). From it `ProgramsAreClients`,
`EachIsFreedOnce`, `EndsWithNothing`; of `mymalloc_test` they speak as long as it has
not written past the end of a block (`Lost`). `EqualSizesNeverGrow` says what
`equal_size_allocs` relies on: its spacing blocks keep its free blocks apart, so that
each malloc of the timed loops finds a block of exactly its size. Its invariant `Steady`
describes the memory call by call: a row of equal blocks (`Row`), of which only blocks
of the array are free, with each pointer on a block of its own kind (`Spaced`). No two
free blocks touch, so nothing is merged (`NoMerge`); none is larger than the request, so
nothing is split (`TakeKeeps`); and as the array holds one pointer less than there are
blocks in the row for it, one of these is free (`OneIsFree`, a count). It holds as well
in a heap too small for the set-up, where the mallocs fail, and for both policies: in a
row of equal blocks `bf_malloc`'s head is as good as any.

**The game** (`PotatoGameProofs`). In a ring of any size the trace is a walk
(`TraceIsAWalk`) and hops made plus hops remaining stay constant
(`HopsAreConserved`). The strengthening says that a ringmaster with hops left to give
has given none.

**The ring** (`RingProofs`), for any number of players, which may start, connect and die
in any order and at any speed: `RingIsWired`, `ConnectsToListeners` and, with what is
sent (`Messages`) added, `TypeCorrect`. The invariant `RInv` goes by seats, the
positions of the ringmaster's accepts: what a seated player has been sent and has sent
(`AtSeat`: its id while the ringmaster waits for its port, the port of the seat to its
left once the second loop has run, and after that nothing but potatoes and the end), and
the connection from each seat to the one on its left, which is in the backlog or
accepted (`Link`). The steps of the game have one lemma (`GameKeepsRing`): they leave
the ring alone and add only potatoes and ends to channels.

**The potato** (`HotPotatoProofs`), for any number of players, hops and deaths. The
invariant `KInv` goes by channels: none carries two potatoes (`Alone`); while the one
with hops left, or the one on its way back, is on a channel, no other channel carries
any, and afterwards there are only the ringmaster's copies (`Travels`); nothing flies
before the throw (`Thrown`). `InTime` is what makes the exits safe: unless a player was
killed, whoever leaves, is about to, or could be told to by an end of file, does so after
the last hop. `PotatoStep` sorts every step into five kinds (`Move`: the potatoes rest, the
throw, a hop, a copy read, the catch), and what follows goes by these:
`OneAtATime`, `NotToTheDeparted`, `HopsAreCounted`, and `PlaysTheGame`, that
each throw and hop is one of `PotatoGame` and the other steps leave it alone. The last two
assume `Fits`: no `num_hops` is larger than `MaxNumHops` (the run potato_hops shows what
happens then). The neighbours come from the ring's invariant.

`NobodyIsStuck` is the safety half of `EveryoneExits`: as long as somebody has not exited,
some process can take a step. `MasterCanMove` and `PlayerCanMove` write out the guards,
which TLC finds equivalent to ENABLED for two and three players. `WInv` says what each wait
is for: a player that waits for its id and has not been accepted is in the ringmaster's
backlog (`Queued`); between the ringmaster and a player, who has left has sent an end of
file, which stays where it is once it is there (`Told`, `EndsRemain`); while the ringmaster
waits in the game, the potato is under way or some player leaves or has left (`Coming`).
With the seats of `RInv` no one waits on somebody who waits in turn.

Only model-checked: liveness, which is out of the prover's reach: `CallReturns` (whose
loops advance by `LoopsAdvance`), `LockProgramEnds` and `EveryoneExits` (no deadlock, by
`OnlyALostMutexHangs` and `NobodyIsStuck`), and of `ImplementsGame` the fairness, that
the potato comes back (its safety is `PlaysTheGame`). Every other property of the
passing runs is the statement of a theorem.

## 5. Plan

Done, in this order: the allocator of Project_1 and its proofs, the allocator for
threads, the potato game, the memory invariant of the allocator for threads, the test
programs as clients of the allocators, the death of a player, the proofs about the
thread tests, about the building of the ring, that the processes play the game, the sums
(counters, data segment), the programs of the policy tests, and what there is of the
liveness properties that needs no fairness: progress of the loops, and freedom from deadlock
of the potato game and of the thread tests.

What could follow:

1. `HotPotato`: the error exits of a player during the setup, which leave the other
   processes waiting for a connection.
2. `TsMalloc`: the helpers given a list that is not empty (the code a repaired build
   would run).
