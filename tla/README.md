# A verification project for CHVM

CHVM is a C project (`src/`) whose working core is a **concurrent garbage
collector and the movable memory under it** (`src/gc_src`), with a small process
and memory layer (`src/core_src`), containers (`src/util_src`) and a test runner
that forks (`src/testing_src`). The virtual machine, the assembler and `vlog` are
types, grammars and experiments without behaviour.

This directory holds TLA+ modules of that core, the TLC configurations that check
them on small instances, and TLAPS proofs for every value of the constants.
`PROJECT.json` lists components, runs, mutants, the source lines of each
definition, findings, hazards and theorems.

## 1. Inventory

| component | source | state | operations | interacts with | hard behaviour |
|---|---|---|---|---|---|
| collector | `gc_src/cs.c` | status and references of objects, root set, `in_progress_stack`, `visit_stack`, `paint_black_in_progress` | malloc, get read / write, unlock, root, deroot, `cs_collect_garbage` | mutators through object locks and the write barrier; memory space for walks and frees | a tri-colour marker beside mutators, without a stop of the world |
| gc worker | `gc_src/cs.c:591-602, 705-792` | `gc_worker_stat`, `gc_thread`, `gc_in_progress` | start, stop, the worker's loop | runs collections; user threads may run them too | starts, stops and collections of several threads |
| root set | `gc_src/cs.c:326-420` | entries, free list through the entries, capacity | root, deroot, get | read by the collector | recycled identifiers |
| memory space | `gc_src/ms.c` | list of blocks, random state, the header word of each object | malloc (throws darts at blocks), free, foreach, filter, full shift | blocks and the address book | an object can be found before its header is written; a block is filled before it is listed |
| memory block | `gc_src/mb.c` | boundary-tagged pieces, free list sorted by size, `mem_lck` | malloc, free, try shift | address book: moves pieces behind their addresses | shifting beside users; lock order between `mem_lck` and cell locks |
| address table | `gc_src/virt.c:16-364` | cells with a lock each, stack of free indices with a lock | put, move, get, unlock, free | one entry of a book | an operation crosses two locks |
| address book | `gc_src/virt.c:402-841` | growing array of tables, doubly linked list of tables with space | put, free, lookups, foreach | tables | the list is repaired after the fact |
| containers | `util_src/data.c` | broken collection (deque of tables), linked list, array list | push, pop, iterate | the collector's stacks | boundaries between tables |
| core | `core_src/*.c` | list of child processes, memory channels, quiet flag | fork, wait, kill, exit, malloc counters | everything | SIGINT between any two steps, reaping, error paths under a lock |
| chunit | `testing_src/chunit.c`, `assert.c` | result of a test across a pipe, the mutex of the assertions | run a module, suite, test; assert; time out | forks, waits and kills through core | one writer among the threads of a test, the order of wait and read, timeouts, leaked descriptors |
| output, io, chasm, chvm, vm, vlog | | none | | | text, types, experiments |

What makes each correct, in a sentence:

* collector: nothing reachable is ever freed, everything unreachable is in the end,
  and a collection ends;
* worker: one worker and one collection at a time, a stop returns and reaps the
  worker it stopped;
* address table and book: an address belongs to one caller from put to free, no
  cell is lost, the book grows only when it is full, no link of the list is lost;
* memory block: pieces tile the block, no two neighbours are free, the free list is
  exactly the free pieces in order of size, an address and its piece name each
  other, and a piece moves only while nobody has its lock;
* memory space: a free goes to the block an object lies in, no block is lost, and an object
  goes only after its owner has given it up;
* root set: identifiers are a map while they are recycled, and a collection sees every root;
* containers: each is the sequence its interface says it is;
* core and chunit: every child the list had room for is on it until it is reaped, the runner says what the test
  has really come to, and it ends whatever the test does.

The hazards these properties are for are in `PROJECT.json`, each at its line.

## 2. The modules

| module | models | shape |
|---|---|---|
| `Collector` | `cs.c` collector and mutators | 20 variables; one action per critical section of an object's lock |
| `CollectorGarbage` | the same with a history variable | remembers what was garbage when the collection began |
| `GcWorker` | `cs_start_gc`, `cs_stop_gc`, `cs_gc_worker` | one action per critical section of `gc_stat_lock` |
| `AddrSpace` | the promise of `virt.h` | abstract specification |
| `AddrTable` | `adt_*` of `virt.c` | one action per critical section; refines `AddrSpace` |
| `AddrBook` | `adb_*` of `virt.c` | one action per critical section of the book's lock |
| `Heap` | the promise of `mb.h` | abstract specification |
| `MemBlock` | `mb.c` | boundary tags over offsets, the free list as a sequence; one action per call under `mem_lck`, two where a cell lock comes in between; refines `Heap` |
| `ObjectSpace` | the promise of `ms.h` | abstract specification |
| `MemSpace` | `ms.c` over blocks that do what `Heap` says | one action per critical section; refines `ObjectSpace` |
| `Deque` | the promise of `data.h` of a broken collection | abstract specification |
| `BrokenCollection` | `data.c:154-404` | tables, links and the two ends; one action per call; refines `Deque` |
| `RootMap` | the promise of `cs.h` of roots | abstract specification |
| `RootSet` | `cs.c:326-420` | entries, free list, doubling; one action per critical section; refines `RootMap` |
| `MarkStack` | `cs.c:604-629`, `RootSet` and `BrokenCollection` together | the copy of the roots to `in_progress_stack` entry by entry |
| `ChildProcs` | `core_src/sys.c` in the root process | the list of children and what each process id names |
| `Chunit` | `chunit.c`, `assert.c`, over `ChildProcs` | the runner, one test process of two threads, the pipe |
| `MC*` | instances for TLC | symmetry sets |
| `*_proofs` | theorems | see section 6 |

### Collector

A cell is named by its place in the walk of `adb_foreach`, so `cursor` and `limit`
are the two loop bounds of a walk: the walk takes the number of tables when it
starts (`virt.c:768-770`), and `bookLen` can grow behind its back. `status`, `rtLen`
and `refs` are an object's pre-header, header and reference table; `writer` and
`readers` its lock. `gcPc` is the place in `cs_collect_garbage`. An entry popped off
`in_progress_stack` whose lock is awaited is `inHand`: between the pop and the grant
users go on. `visiting` is the write barrier: `cs_get_write` has its lock and has
found the object unvisited, and has not run `cs_visit_obj` yet. The `mem_lck` of a memory
block is there where the two sides meet at it: a free of the sweep is `BeginFree` (the header has been
read, `mem_lck` is taken), `Free` (which waits for the object's lock with it) and `EndFree`, and `freeing`
is the object in between; `Malloc` needs the lock of the block it allocates in, and a mutator
that has begun to wait for it (`AwaitBlock`) does nothing else until it has allocated or found the block full (`NoRoom`). The two stacks are
sets: an entry met a second time is ignored by the loop (`cs.c:659, 674`).

The mutators follow the contract of `cs.c:52-54`: they lock only what they can reach,
and store, root or lose only what they can reach or have just allocated. Every reference
they keep in local variables belongs to an object they allocated while they held a lock
(`fresh`) and dies with an unlock. The last constants say how much freedom they take:

* `MaxHeld` - how many object locks one mutator nests (taken in cell order);
* `NewRtLen` - whether objects allocated later have references;
* `Unlinks` - whether references and roots are removed at all;
* `RootsUnderLock` - whether an object is rooted while a lock is held;
* `Reads` - whether read locks are taken;
* `DerootsUnderRead` - whether a root is removed while a read lock is held.

`OneBlock` says that there is one memory block, so that every allocation needs the lock the sweep holds; with several blocks
an allocation may also find another one.

The passing runs and the violated ones differ in exactly these constants and in the number
of mutators (section 4).

### GcWorker

`stopped` and `joining` record which worker a caller told to stop and which one it
joins: `cs_stop_gc` reads `gc_thread` after it has released the lock, which is a step of
its own. A collection is a begin and an end; `Collector` is what happens in between.

### AddrTable and AddrBook

`AddrTable` has a step for each critical section, so a put is the pop of an index
(`PutPop`) and the write of the cell (`PutCell`), a free is `FreeCell` and `FreePush`.
`handles` are the addresses callers hold; a caller frees only what it holds and nobody
has locked, as `virt.c:303-310` demands. The short looks of `adt_allocated` and `adt_foreach` at every cell, the unallocated
ones included (`virt.c:164-183, 341-364`), are left out; they would matter only to `LockedAreInUse`. In `AddrBook` a table is its `stack_fill`; the
put that empties a table repairs the list in a later step (`TryRemoval`), so does the
free that first refills one (`TryAddition`), and both look again under the lock.

### MemBlock

`tags` are the headers and footers by offset, so `MpNext` and `MpPrev` are the arithmetic
of `mp_next` and `mp_prev`; a word that `mp_init` has put inside a piece reads 0, because
it is the user's from then on. `sizeFree` is the doubly linked `size_free_list` as a
sequence, `owner` the address in the header of an allocated piece, `paddr` the address
book's side of it (the lower half of which is `AddrTable`). `mb_free` is four steps: the
call, the lock of `mem_lck`, the lookup of the address, and `adb_free` with the joining;
`mb_try_shift` is two: the try-lock of the piece after a free piece, and the move. A call
that finds nothing to do (no room, `MB_BUSY`, `MB_NOT_NEEDED`) changes nothing and is no step.
A caller frees only an address that nobody uses, as `mb.c:408-410` demands, but a shift may
hold its lock at that moment. `ShiftPick` tries the locks of all the pieces after a free piece in one look, where the code tries one after another
while lockers come and go (`mb.c:560-587`); which piece it ends with is the same choice. `Renew` is `delete_mem_block` and a new block.

### RootSet, BrokenCollection and MarkStack

An entry of the root set is its flag and the one word that is either an address or the next
free identifier, as the union in the code. `Root` is all of `cs_root`, the doubling included;
`Deroot` is `cs_deroot` for an identifier it accepts. `BrokenCollection` has the tables `malloc`
may return as small numbers, the two links of each, its cells, and the two ends; a cell without an
element is `None`, whatever the code leaves there. Both modes, with and without `delete_empty_tables`,
are chosen when the collection is made, and it is deleted and made again. `MarkStack` is the place
where the two meet: a collection holds `root_set_lock` to read while it pushes the roots one by one,
waits for `in_progress_stack_lock` in between, and the threads root, deroot and push whenever the locks
let them. `base` remembers the stack at the begin of the copying.

### MemSpace

`place` and `size` are what is left of the blocks: which objects lie in them and how many bytes they
take. A block with no object serves any request it is large enough for; another may be too fragmented,
so `Throw` may fail there although the bytes would do. `header` is the first word of an object:
it is written after the block has put the object into the book, under the lock that
`mb_malloc_and_hold` keeps. `ms_filter` is a walk, a stack and a loop of frees. `garbage` is what
its predicate rejects. The caller in a filter is one at a time and holds no lock, the
others go on: `ms.h:49-51` says that it "doesn't really make sense" to run it beside other calls, but
the collector does. `Renew` is `delete_mem_space` and a new space. In the refinement nobody uses an address that nobody has, so
that `ObjectSpace`'s "goes only while nobody uses it" rests, for the moment of the free, on the guards of the model.

### ChildProcs and Chunit

`proc` says what a process id names: a running child, a child that has ended and was not reaped (with
its status), another program, or nothing. `safe_waitpid` is two steps: `Reap`, after which the id is
anybody's, and `Unlist`, the search and `cl_remove` under `core_lock`. `cl_add` doubles a full list with
a `realloc` whose failure `safe_fork` only logs (`AddFails`): the child runs, its id is returned, and
the history variable `unrecorded` has it until it is reaped. `safe_exit` takes `core_lock` for
good (`ExitCall`) and goes through the list (`ExitKills`). SIGINT is `Interrupt`, possible between any two
steps; `InterruptReap` says whether it is looked for between `Reap` and `Unlist` too.

`pc` is the place in `chunit_run_test` and `chunit_parent_process`; `wfd` and `rfd` are the runner's ends
of the pipe. The system calls the code tests for failure may fail: `pipe`, the fork, both closes, the
mutex of the test, the read. `safe_waitpid_timed` is one step that either finds the process ended, or
finds it running with the time over. The test process has a main thread and a helper (`tpc`); each may
fail an assertion, after which it waits for the mutex that nobody ever gives back, writes the tag and
the words of the message, closes its end and exits. A word stands for one write, or for as much as fills
the pipe; `Words` and `PipeCap` have a kind of message that does not fit. `fate` remembers what the test
process did in the end, `shouldFail` is `test->should_fail`. The other children are the program's own.

## 3. Runs that pass

| run | instance | what it shows |
|---|---|---|
| `CollectorOne` | 1 mutator, 3 cells in tables of one, 2 roots, 1 fresh object, one lock at a time, newborns are leaves | over every interleaving of repeated collections with a mutator that allocates, stores, removes, roots and deroots: nothing reachable is white when marking ends (`ReachableAreMarked`, and `NothingHidden`, the argument of `cs.c:82-110`, at every step before), nothing reachable is freed, no free waits for a mutator, and what was garbage at the start is unvisited at the end |
| `CollectorGrow` | 2 mutators with one write lock each, 3 cells, 2 roots, nothing removed, roots under locks | additions alone can never lose an object |
| `CollectorLive` | 1 mutator, 2 cells, 2 roots, one memory block, read and write locks, no root removed under a read lock, fairness | a collection ends, garbage is freed |
| `AddrTable` | 3 threads, 2 cells, 2 blocks | single ownership, no leak, refinement of `AddrSpace` |
| `AddrBook` | 3 threads, 3 tables of 2 cells, 5 addresses, fairness | list soundness, pending repair, growth only when full, puts return |
| `MemBlock` | 2 threads, 5 addresses, a block of 22 bytes with a padding of 2, one lock each | the pieces tile the block, no two free neighbours, free list exact and sorted, pieces and addresses name each other, a free never waits under `mem_lck`, each shift packs, refinement of `Heap` |
| `GcWorker` | 3 threads, 3 workers, fairness | one worker, one collection, a true status, stops return |
| `MarkStack` | 2 addresses, 3 tables of 2 cells, up to 4 root entries | the chain of tables is sound and is a deque at both ends and in both modes, the free list of identifiers is exact, roots are a map, the copy of the roots misses none |
| `MemSpace` | 2 callers, 2 addresses, 3 blocks, small and large requests, one lock each | headers name the right block, blocks are listed once, refinement of `ObjectSpace` |
| `Chunit` | 2 suites of one test, 3 kinds of messages, 2 threads in a test, 1 other child, 2 process ids, fairness | children accounted for but those that could not be recorded, the result of a test that has not timed out is true, pipes closed, the run ends |

**Bounds.** Three cells are the least that hold the dangerous shape (an object a
reference moves from, the object it moves to, the object it names), and two roots are the least
that let one mutator reach both ends of the move with one lock at a time: with one root the
write barrier could be taken out of the model and nothing would be lost. The cell count also
lets the book grow while a walk is under way; with tables of one cell every growth is a new
table. Two threads race in an address table; the third is there because a cell index can be
carried by one thread, locked by a second and wanted by a third. In `AddrBook`, five addresses
over tables of two cells make a put meet a full head, an empty list and a table that is refilled
before its removal. In `MemBlock` a padding of 2
stands for the 32 bytes of `MAP_PADDING` (only its parity and its sum with sizes matter), requests of 1 and 3 bytes
exercise the rounding, and 22 bytes are the least in which a free piece is sorted into the
middle of the list (6 and 4 free with another 4, two pieces between them); a rest of 2 bytes is too
small to cut. Three workers allow a stop, a restart and a stop again.
In `MarkStack` tables of two cells are the least in which an end can be inside a table; three tables let
both ends leave the table they share and leave an empty one on each side. Four entries are two doublings,
so that a new free list starts both in an array of one and behind entries that have been recycled. In
`MemSpace` a block of the default size has room for one small object and one made for a large object
for two small ones, so that a throw can meet a full, an empty and a fragmented block; three blocks grow the
list beyond its first buffer. `SEARCH_DIV` is 1 instead of 3 so that two throws can happen with two
blocks. In `Chunit` two suites of one test exercise the counters of a suite and of the module; messages of no, one and
two words of data over a pipe of two words are the ones that fit exactly, with room, and not at all. Two
process ids make the other child, a test and a stranger compete for ids, and make the list, which starts with room for one as in
the code, grow or fail to. In `CollectorLive` one block is the hard case: the mutator's every allocation waits for the sweep.

**Where a run may stop.** `Chunit` ends when the root process has. `MemSpace` runs out of blocks: a call that
would need a fourth one waits for ever. Deadlock is checked in every other run.

**Fairness.** `CollectorLive` assumes that a collection starts again when it has ended
(the worker's loop with no delay), that a mutator inside `cs_get_write` goes on and unlocks
what it locked, and strong fairness of the collector's steps: a lock that is free again and
again is granted at some time. A mutator that waits for `mem_lck` gets it by strong fairness too, because the sweep gives it back after
every object. The mutator reaches its unlock because it never waits for what the sweep waits for: one that removes no root while it
holds a read lock keeps what it reads reachable, and nobody holds the lock of an object the sweep frees. With `DerootsUnderRead` that
fails, and the assumption with it (section 4), which is why the run excludes it; the run checks deadlock too. It is an instance with one mutator because a POSIX
reader/writer lock promises no more: two readers that hand a read lock to each other for ever
keep the collector, which wants to write, out for ever. `AddrBook` and `GcWorker` assume only
that a thread inside a call runs on. `PutReturns` is stated for behaviours in which frees end:
while they go on, a thread can lose the race for every cell, which the code permits.
`StopReturns` leaves out stops that have crossed (section 4). `Chunit` assumes that the runner is
scheduled, that its clock goes on (so that `Wait` does not find the test running for ever), and that
`safe_exit` runs on once called; nothing is assumed of the test, which may hang with a message half
written. Growth beyond the bound of a run is disabled, never an error.

## 4. Where the code and its comments disagree

Two runs check one statement of a comment each and are violated; `PROJECT.json` ("findings") quotes
the line.

| run | freedom taken | what happens |
|---|---|---|
| `CollectorNewborn` | newborns with references | a parent allocated behind the paint-white walk hides a child that was allocated ahead of it and painted white (`cs.c:37`) |
| `ChunitReap` | SIGINT between `waitpid` and the lock of the list (`InterruptReap = TRUE`) | `safe_exit` kills and waits for an id that is no child's any more (`sys.c:370`); section 6 proves that nothing else makes it do so |

Four more disagreements are not runs of their own. The first three are runs above with other constants, the
last is an exception the property of a passing run states:

* **A late root.** `Collector` with two mutators, `MaxCells = 2`, `MaxRoots = 2`, `MaxFresh = 0`, `MaxHeld = 1`,
  `RtLen = 1`, `NewRtLen = 0`, `TableCap = 1`, `Unlinks = TRUE` and neither reads nor roots under locks violates `ReachableAreMarked` against `cs.c:612-614` ("If a root is added after this point
  ... it will not be GC'd"): a root that is added after the push, while another thread holds a write lock
  granted before paint black, is swept once that thread has removed the reference to it.
* **A comparison of a pointer.** `CollectorGarbage` with one mutator, `MaxCells = 2`, `MaxRoots = 2`, `MaxFresh = 1`, `MaxHeld = 1`,
  `RtLen = 1`, `NewRtLen = 1`, `TableCap = 1`, `Unlinks = TRUE` and neither reads nor roots under locks violates `GarbageIsUnvisited` against `cs.c:38-39`: `obj_p_h == GC_NEWLY_ADDED`
  (`cs.c:452`) compares a pointer, so newborns are visited by their writers, and late visits leave stale
  entries that keep garbage for a collection.
* **A free that blocks.** `mb.c:421` says of a free that waits for the lock of its object, with `mem_lck` in its hands, that "there would never be a reason to do
  such a thing", and `mb.c:191` that nobody holds it. `Collector` with the constants of `CollectorLive` but `DerootsUnderRead = TRUE` deadlocks: a mutator takes the read lock of an
  object painted white, which has no barrier, and removes the last root of it; marking ends, and the sweep takes `mem_lck` and waits for the
  reader (`mb.c:423`), which allocates and waits for `mem_lck` (`mb.c:454`).
* **A stop that joins another worker.** In `GcWorker` a caller can reach `joining[c] # stopped[c]`: `cs_stop_gc` reads
  `gc_thread` after it has released `gc_stat_lock`, and by then another thread may have started a new worker. It
  then waits for a worker nobody has told to stop, and the one it stopped is never joined, against
  `cs.c:788` ("Always join to reap zombie thread"). `Crossed` in `StopReturns` is this case.

The lock that spans the beginning of paint black is behind other violations too, which differ
from the runs only in constants: with `MaxHeld = 2`, `Unlinks = TRUE` and three cells one mutator
loses an object by moving its reference between two nested locks, which is what
`test/cs.c:717-739` does; with `Reads = TRUE`, `Unlinks = TRUE`, `DerootsUnderRead = TRUE` and two roots `SweepNeverWaits` fails, because an object can be
derooted and swept under its reader. So the model says **under which discipline the collector
is safe**: newborns are
leaves, a mutator holds one write lock at a time, and either nothing is removed or there is one mutator, which
roots nothing while it holds a lock; and the collection ends for certain only if no root is removed under a read lock (`CollectorLive`). Section 6 proves that the first part is enough for safety, for any number of cells and, where nothing is
removed, of mutators; the violated runs show that without it the guarantees fail.

`Collector` also has the step that ends the process when the marker asks for a cell that has
been freed (`gcPc = "exit"`): stale entries make it reachable.

## 5. Mutants

Every property of every passing run has a mutated definition (an operator of the module,
commented "Mutant of ...") that breaks it: no write barrier, marking that stops early, a
walk that goes one table too far or too near, a free list that is unlinked without a
second look, a cell whose lock is kept, and so on.

## 6. Proofs

All by TLAPS, for any number of threads, cells, tables, blocks, addresses and tests, and for any capacity.
Each theorem rests on one inductive invariant, with a lemma for each action and a last temporal step. Each
invariant was checked by TLC on the instance of its run before it was proved.

**`AddrTable_proofs`.** Type correctness, `SlotsAreOwnedOnce`, `NothingLeaks`,
`LockedAreInUse`, and `ImplementsAddrSpace`. (The type invariants here, in `AddrBook` and in
`GcWorker`, `LockedAreInUse` and `BookFits` are proved and not among the properties of the runs.) The invariant is their
conjunction together with `Asked` (a thread in a put has an argument, nobody else has): ownership
is needed for the pop, `HandlesResolve` for the free, and the absence of leaks for the
room on the stack when an index is pushed back.

**`AddrBook_proofs`.** Type correctness, `ListIsSound`, `ListRepairPending`,
`CellsAccountedFor`, `BookFits`, and the action property `GrowsOnlyWhenFull`.
`ListIsWhole` says that every listed table is in every set closed under `next` that
contains the head: a way to say "reachable from the head" that needs no
recursion, and each link operation is shown to keep it by adding or taking out one
element of the closed set.

**`Collector_proofs`.** Type correctness (which needs the bounds of the two walks and the
growth of the book) and `VisitStackSound`, for any number of mutators and any choice
of the freedoms, the unsafe ones included. Everything else assumes

    Discipline == /\ NewRtLen = 0
                  /\ MaxHeld <= 1
                  /\ Unlinks => ~RootsUnderLock /\ \A s, t \in Mutators : s = t

and rests on `SInv`, in which reachability is always "in every set that has the roots and is closed under references":

* `NothingLost` is what the marking loop keeps: every set that has what is still to be done (the two stacks, the
  entry in hand, and the roots while they are about to be pushed) and is closed off black objects has, together with
  the black objects, all that is reachable. A mutator that adds a reference to a black object adds one to something that
  is black or covered already; a visit moves an object from grey to black and its references into the set.
* `EarlyIsStrong` is the price of the lock that spans the beginning of paint black: its holder has run no barrier, so
  it may take the last path to a white object away. It cannot have hidden the object first,
  because while such a lock is held nothing black refers to anything white.
* `FreshIsSafe` is for the newborn that paint white has already walked over: it is white, and can only be
  stored into an object that marking has yet to come to. `NewRtLen = 0` and one lock at a time are needed here.
* `MarkedWhenDone` takes the result through the last look at the empty stacks, the sweep and its frees;
  `WalksAreTrue` says what both walks have behind them. `UsersAreTidy` and `CollectorIsTidy` say who holds which lock where.

* The steps that take `mem_lck`, wait for it and give it back change nothing that these conjuncts mention (`BlockLockStep`).

`NothingReachableIsFreed` says that what the roots lead to is allocated, and so is an object while somebody has its lock (`LockedAreAllocated`). It says
nothing of what only a locked object leads to: under a read lock an object may lose its last root, and then what it refers to is swept.
`NothingReachableIsFreed`, `MarkingIsComplete` and `GreyCoversWhite` follow (`ReachableAreAllocated`, `ReachableAreMarked`,
`NothingHidden`). `SweepWaitsForNobody` (`SweepNeverWaits`) adds that nobody reads: what the sweep wants to lock is unreachable,
and a mutator holds write locks only on what it can reach. `GarbageIsSwept` (`GarbageIsUnvisited`) is about `GSpec`, with the garbage a collection began with in
`dead`: `DeadIsDead` says that no root, reference, stack, barrier or newborn names it, and that it is white from the
time paint white has passed it. It needs `NothingLeftOver`, because an entry left on `in_progress_stack` would colour garbage, and
`NewbornsAreLeaves`, because a newborn that is visited by its writer leaves one (section 4).

**`GcWorker_proofs`.** Type correctness, `OneCollector` and `StatusIsTrue`. The
strengthening (`HandOver`) says that "starting" belongs to one caller, which finds no
worker alive, and that only a worker that has been told to stop writes "off".

**`MemBlock_proofs`.** `PiecesTile`, `FreeListExact`, `AddressesAgree`, `FreeNeverWaits`, the action property
`ShiftPacks`, and `ImplementsHeap`, for every capacity, every padding the assumption allows, and requests of any size. `BlockInv`
has two sides:

* the words of the block: `Tiled` (every piece has a good size, ends where another begins or the block ends, and
  its footer repeats its header), `Spread` (no two free neighbours) and `Listed`. The tags change in three ways only, and each has
  its lemma: a piece is set up (`mp_init`), a range is cut anew into one piece or into two, and a free piece
  changes places with the allocated piece behind it. `RecutTiled` says once what a recut keeps of the pieces around it; joining with
  the next and the previous piece, and all of `mb_free`, are compositions of them. The list is shown sorted through an insertion
  (`InsertAt`) and a removal;
* who works with what: `Named` (piece and address name each other and the piece holds what was asked for), `OwnedOnce`,
  `LocksAreOwned` (nobody but a shift locks what no caller has) and `CallIsTrue` (what a call has read under `mem_lck` is true until it lets
  go). `FreeNeverWaits` and `ShiftPacks` are about this side.

The refinement maps each call to one step of `Heap` at the moment the address gets, changes or loses its range, and to a
stutter otherwise; the ranges of two addresses are disjoint because pieces are.

**`MemSpace_proofs`.** `HeadersAreTrue`, `BlocksAreListed` and `ImplementsObjectSpace`. `SpaceInv` says that
an object in the book has one owner (`OwnedOnce`: a caller, the predicate of `ms_filter`, or the call that makes or
frees it), that nobody but its maker locks an object no caller has (`LocksAreOwned`), that a header that is not true
yet is locked by the call about to write it (`HeadersAreKept`), that `remove_stack` has garbage only, each address once and in
the order of the walk (`SweepIsSound`), and that a block is on the list once or is about to be put there by one call (`ListIsTrue`).

**`MarkStack_proofs`.** All five properties of the run, `ImplementsDeque` and `ImplementsRootMap` among them.

* The root set, for any set of addresses and any bound on the array: `RootsWellFormed` says that the head and every free
  entry name a free entry or none, that no two of them name the same one, and that an entry in use lies inside
  the array and holds an address. That is enough for the refinement, and not for the free list: a loop beside the list would
  satisfy it. `ListedOnce` rules it out, as in `AddrBook`, by closed sets. The property follows the links by a recursive
  function, so `ListIsFree` shows that following a link as often as the array can have entries arrives at the least closed set
  (`Reaches`): each step that is not the last adds an entry, and there are only so many.
  The induction over the steps is `InductiveSet`: a set of naturals with 0 and successors is all
  of them, because the sets 0..k are finite and their order is well founded, which the library states without an operator parameter.
* The broken collection, for any number and size of tables: `BcInv` numbers the tables along a row, from `lo` to `hi`
  (`IsChain`), has the first element in table `a` of it and the end in table `b` (`HasEnds`), elements in all places between
  (`Filled`), and with `delete_empty_tables` no table beyond (`Laid`). A push or a pop moves an end by one place along a row
  that is the same, one table longer or one shorter (`GrowBack`, `GrowFront`, `DropBack`, `DropFront`). What `bc_foreach` meets is a
  recursive function over tables and places: `NoLoop`, which says of the links of freed tables as well that no set of tables
  is closed under them, makes it well defined (`WalkExists`), and two walks that agree up to the end of one meet the same up to there
  (`WalkGoesOn`). So an end that moves adds or takes one element (`LongerBack`, `ShorterFront` and the like), and the refinement
  is what `Append`, `SubSeq`, `Head` and `Tail` do. It assumes `NoCollectionAssumption`: `None`, which stands for no collection, is no sequence.
* The two together: `StackInv` adds that the stack is `base` and the roots passed while both locks are held (`HasPushed`).

**`Chunit_proofs`.** `ChildrenAccounted`, and `KillsOwnChildren` under `InterruptReap = FALSE`.
`ListIsTrue` ties the list, and the children that could not be put on it, to the process ids while the runner is up, and says that the test process is an
unreaped child wherever the runner counts on it; `ExitIsTrue` says that what `safe_exit` has still to reap
lies at or behind its place in the list, or was never on it. The second theorem adds `Spared`: whatever is left of the list has
not been reaped, which a SIGINT between `Reap` and `Unlist` would break. `PipesClosed`, and `ResultIsTrue` under `JoinsThreads`
(without it TLC finds it violated, section 8), rest on `RInv`: `PipesAreTrue` (which ends are open and which errors are possible at
each place of the runner), `CountsAreTrue` (the counters) and `AnswerIsTrue`, which follows the answer from the test process to the
report: at most one of its threads writes (`TestIsTrue`), what is in the pipe at its end is all it had to say or a part that no
reader takes for the whole (`Spoken`), its status fits its fate (`Fits`), and the report is `Right`.

They assume the named `ASSUME` of each module, which TLC evaluates on every run.

**Only model-checked.** Everything under fairness (`CollectionEnds`, `GarbageIsFreed`, `PutReturns`, `StopReturns`, `RunEnds`)
is out of the prover's reach, as is `ENABLED`. Every invariant and every action property of a passing run, and every refinement, is a
theorem, under the hypotheses named above where it has any.

## 7. Plan

1. *Done*: `Collector`, `AddrTable` with `AddrSpace`, `AddrBook`, `GcWorker`, their proofs
   above.
2. *Done*: `MemBlock` with `Heap`, and `MemSpace` with `ObjectSpace`, checked and proved.
3. *Done*: `RootSet` with `RootMap`, `BrokenCollection` with `Deque`,
   `MarkStack` for the place where roots and stack meet, `ChildProcs` and `Chunit`, and their proofs.
4. *Done*: the safety of `Collector` under the discipline of section 4.
5. The linked list, the array list and the thread spray of `util_src`, which are sequential.

## 8. Not modelled

* **No behaviour.** The VM, the assembler and `vlog` are types, grammars and experiments. Text output
  (`output.c`, `cs_print`, `adt_print` and the like), logging and layout are left out.
* **Failing calls.** A `safe_` wrapper that fails ends the process through `safe_exit`, which in the runner is what
  `Interrupt` does at the same place. Memory exhaustion is that case, but for the bare `realloc` of the list of children
  (`sys.c:63`), whose failure `ChildProcs` has: `safe_fork` logs "Confirm its termination" and goes on, and a child that is not
  on the list then outlives the root unless its test run waits for it or kills it. `ChildrenAccounted` exempts such children and nobody else. Where the code handles a
  failure (`pipe`, the fork, `close`, `read`, the mutex of a test), `Chunit` has it. `TERMINATION_ERROR` and
  `BAD_TEST_RESULT` cannot be reached: every wait ends with a status, and every tag in the pipe is one
  `assert.c` writes.
* **Numbers.** Sizes of data areas, 64-bit counters, and the overflow of `min_bytes` plus the header in `ms.c`.
  `safe_waitpid_timed` counts whole seconds of `time(NULL)`; its end is a choice here.
* **`util_src`.** The linked list and the array list are used by nothing that is modelled; reading them shows
  two slips no property covers: `ll_next` does not move the end pointer (`data.c:66-71`), and the array list grows
  by a `realloc` whose size leaves out the size of a cell (`data.c:132`), against its own comment "size(array) =
  cell_size * cap". `util_thread_spray` is a loop of creates and a loop of joins.
* **Memory channels** (`mem.c`) are counters under one lock; what the test process finds in them when its test
  returns is the choice between "success" and "leak". `init_core_state` leaves them and the quiet flag
  uninitialised.
* **`safe_waitpid` in a child.** In a process that is not the root it returns with the lock of the list held and
  SIGINT blocked (`sys.c:424-428`). `ChildProcs` is the root process.
* **Things `Chunit` shows that are no disagreement with a comment.** A message larger than the pipe is reported as a
  timeout, because the runner reads after it has waited. A failed fork leaves both ends of the pipe open
  (`chunit.c:328-332`). A test that itself exits with the status of a framework error is taken for one.
  A thread the test does not join (`JoinsThreads = FALSE`) breaks `ResultIsTrue`: the main thread writes its result
  without the mutex (`assert.c:81-87`).
* **Two callers in `ms_filter`** at a time, which `ms.h:49-51` rules out.
