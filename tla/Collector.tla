----------------------------- MODULE Collector -----------------------------
(***************************************************************************)
(* The garbage collector of gc_src/cs.c: a tri-colour marker that runs     *)
(* beside the mutators, popping in and out of the locks of single objects. *)
(*                                                                         *)
(* A cell of the address book is named by its place in the order in which  *)
(* adb_foreach walks the book.  The two stacks are kept as the sets of     *)
(* their entries: the loop of cs_collect_garbage ignores an entry it meets *)
(* a second time, and no property depends on the order of the pops.        *)
(*                                                                         *)
(* The contract of cs.c:53-54 (a user reaches only reachable objects and   *)
(* what their fields hold) is in the guards of the mutators.  The last     *)
(* constants say how much freedom the mutators take.                       *)
(***************************************************************************)
EXTENDS Naturals, FiniteSets

CONSTANTS
  Mutators,        \* the user threads
  Nobody,          \* the owner of a lock nobody holds
  MaxCells,        \* bound: cells the address book can grow to
  MaxRoots,        \* bound: objects in the root set
  MaxFresh,        \* bound: objects a mutator has in local variables only
  TableCap,        \* cells of one address table
  RtLen,           \* references an object of the initial heap can hold
  NewRtLen,        \* references an object allocated later can hold
  MaxHeld,         \* object locks one mutator holds at a time
  Reads,           \* mutators take read locks too
  Unlinks,         \* mutators may remove references and roots
  RootsUnderLock,  \* mutators may root objects while they hold a lock
  DerootsUnderRead,\* and may remove roots while they hold a read lock
  OneBlock         \* all objects lie in one memory block and share its mem_lck

ASSUME CollectorAssumption ==
  /\ Nobody \notin Mutators
  /\ MaxCells \in Nat \ {0}
  /\ TableCap \in 1..MaxCells
  /\ MaxRoots \in Nat
  /\ MaxFresh \in Nat
  /\ RtLen \in Nat
  /\ NewRtLen \in Nat
  /\ MaxHeld \in Nat
  /\ Reads \in BOOLEAN
  /\ Unlinks \in BOOLEAN
  /\ RootsUnderLock \in BOOLEAN
  /\ DerootsUnderRead \in BOOLEAN
  /\ OneBlock \in BOOLEAN

Cells == 0..(MaxCells - 1)

VARIABLES
  status,      \* gc_status of the object in a cell, "free" if unallocated
  rtLen,       \* rt_len of the object
  refs,        \* the non-null entries of its reference table
  roots,       \* the objects of allocated root set entries
  bookLen,     \* cells of all the tables of the address book
  writer,      \* who has the write lock of a cell
  readers,     \* which mutators have its read lock
  visiting,    \* the object a mutator found unvisited inside cs_get_write
  fresh,       \* objects it allocated and has in local variables only
  gcPc,        \* where cs_collect_garbage is
  paintBlack,  \* paint_black_in_progress
  cursor,      \* next cell of the current ms_foreach
  limit,       \* cells that ms_foreach will walk
  inProgress,  \* entries of in_progress_stack
  inHand,      \* the entry popped off it whose lock is awaited
  visitStack,  \* entries of visit_stack
  productive,  \* productive_iteration
  removed,     \* entries of remove_stack in ms_filter, not yet freed
  freeing,     \* the entry mb_free has the mem_lck of its memory block for
  waiting      \* mutators that wait for that mem_lck in mb_malloc_p

heapVars == <<status, rtLen, refs, roots, bookLen>>
lockVars == <<writer, readers>>
userVars == <<visiting, fresh, waiting>>
markVars == <<paintBlack, inProgress, inHand, visitStack, productive>>
scanVars == <<cursor, limit, removed, freeing>>
gcVars   == <<gcPc, markVars, scanVars>>
vars     == <<heapVars, lockVars, userVars, gcVars>>

Colours == {"newly", "unvisited", "in_progress", "visited"}
Phases  == {"idle", "white", "push", "drain", "transfer", "visit",
            "filter", "free", "exit"}

TypeOK ==
  /\ status \in [Cells -> Colours \cup {"free"}]
  /\ rtLen \in [Cells -> Nat]
  /\ refs \in [Cells -> SUBSET Cells]
  /\ roots \in SUBSET Cells
  /\ bookLen \in 0..MaxCells
  /\ writer \in [Cells -> Mutators \cup {Nobody}]
  /\ readers \in [Cells -> SUBSET Mutators]
  /\ visiting \in [Mutators -> SUBSET Cells]
  /\ fresh \in [Mutators -> SUBSET Cells]
  /\ gcPc \in Phases
  /\ paintBlack \in BOOLEAN
  /\ cursor \in 0..MaxCells
  /\ limit \in 0..MaxCells
  /\ inProgress \in SUBSET Cells
  /\ inHand \in SUBSET Cells
  /\ visitStack \in SUBSET Cells
  /\ productive \in BOOLEAN
  /\ removed \in SUBSET Cells
  /\ freeing \in SUBSET Cells
  /\ waiting \in SUBSET Mutators

(***************************************************************************)
(* The heap as a graph.                                                    *)
(***************************************************************************)
Allocated == {o \in Cells : status[o] # "free"}

Closed(S) == \A o \in S : refs[o] \subseteq S

ReachableFrom(R) ==
  {o \in Cells : \A S \in SUBSET (Cells \ {o}) : R \subseteq S => ~Closed(S)}

Reachable == ReachableFrom(roots)

Held(t) == {o \in Cells : writer[o] = t \/ t \in readers[o]}

\* What no mutator can ever use again: cs.c:52-54.
Garbage == Allocated \ ReachableFrom(roots \cup UNION {fresh[t] : t \in Mutators})

WriteFree(o) == writer[o] = Nobody /\ readers[o] = {}

\* t is in code of its own, neither inside cs_get_write nor inside mb_malloc_p.
Runs(t) == visiting[t] = {} /\ t \notin waiting

\* A heap that was built before the collector started: objects with references
\* and roots, none of them looked at by a collection yet.
Init ==
  /\ bookLen \in {k \in 0..MaxCells : k % TableCap = 0}
  /\ status = [o \in Cells |-> IF o < bookLen THEN "newly" ELSE "free"]
  /\ rtLen = [o \in Cells |-> IF o < bookLen THEN RtLen ELSE 0]
  /\ refs \in [Cells -> {R \in SUBSET (0..(bookLen - 1)) : Cardinality(R) <= RtLen}]
  /\ \A o \in Cells : refs[o] # {} => o < bookLen
  /\ roots \in SUBSET (0..(bookLen - 1)) /\ Cardinality(roots) <= MaxRoots
  /\ writer = [o \in Cells |-> Nobody]
  /\ readers = [o \in Cells |-> {}]
  /\ visiting = [t \in Mutators |-> {}]
  /\ fresh = [t \in Mutators |-> {}]
  /\ gcPc = "idle"
  /\ paintBlack = FALSE
  /\ cursor = 0 /\ limit = 0
  /\ inProgress = {} /\ inHand = {} /\ visitStack = {}
  /\ productive = FALSE
  /\ removed = {} /\ freeing = {}
  /\ waiting = {}

-----------------------------------------------------------------------------
(***************************************************************************)
(* Mutators.                                                               *)
(***************************************************************************)

\* The address book picks a free cell, or grows by a table when none is left in
\* a listed table; the table of the cell being freed may not be listed yet.
FreeCells ==
  LET unused == {o \in 0..(bookLen - 1) : status[o] = "free"}
      grown  == IF bookLen + TableCap <= MaxCells
                  THEN bookLen..(bookLen + TableCap - 1) ELSE {}
  IN unused \cup (IF unused \subseteq freeing THEN grown ELSE {})

\* The mem_lck of the memory block t allocates in is free; a thread that has
\* begun to wait does so because it is the block of the object being freed.
BlockFree(t) == OneBlock \/ t \in waiting => freeing = {}

MayMalloc(t) == visiting[t] = {} /\ Cardinality(fresh[t]) < MaxFresh

AwaitBlock(t) ==
  /\ MayMalloc(t)
  /\ freeing # {}
  /\ t \notin waiting
  /\ waiting' = waiting \cup {t}
  /\ UNCHANGED <<heapVars, lockVars, visiting, fresh, gcVars>>

\* The block turns out to have no room: ms_malloc_p puts the object in another
\* block, in a cell beyond the bound.
NoRoom(t) ==
  /\ t \in waiting
  /\ freeing = {}
  /\ waiting' = waiting \ {t}
  /\ UNCHANGED <<heapVars, lockVars, visiting, fresh, gcVars>>

\* A reference kept only in a local variable must be stored under the lock
\* its thread held when it allocated the object.
Malloc(t, o, hold) ==
  /\ MayMalloc(t)
  /\ BlockFree(t)
  /\ hold => Cardinality(Held(t)) < MaxHeld
  /\ o \in FreeCells
  /\ WriteFree(o)
  /\ waiting' = waiting \ {t}
  /\ bookLen' = IF o < bookLen THEN bookLen ELSE bookLen + TableCap
  /\ status' = [status EXCEPT ![o] = "newly"]
  /\ rtLen' = [rtLen EXCEPT ![o] = NewRtLen]
  /\ refs' = [refs EXCEPT ![o] = {}]
  /\ writer' = [writer EXCEPT ![o] = IF hold THEN t ELSE Nobody]
  /\ fresh' = [fresh EXCEPT ![t] = IF hold \/ Held(t) # {} THEN @ \cup {o} ELSE @]
  /\ UNCHANGED <<roots, readers, visiting, gcVars>>

\* Nested locks are taken in the order of the cells, so that mutators do not
\* wait for each other in a ring.
MayLock(t, o) ==
  /\ Runs(t)
  /\ Cardinality(Held(t)) < MaxHeld
  /\ \A h \in Held(t) : h < o
  /\ o \in Reachable

GetRead(t, o) ==
  /\ Reads
  /\ MayLock(t, o)
  /\ writer[o] = Nobody
  /\ readers' = [readers EXCEPT ![o] = @ \cup {t}]
  /\ UNCHANGED <<heapVars, writer, userVars, gcVars>>

\* The lock is granted to t, which finds it has V to visit.
GrantWrite(t, o, V) ==
  /\ MayLock(t, o)
  /\ WriteFree(o)
  /\ writer' = [writer EXCEPT ![o] = t]
  /\ visiting' = [visiting EXCEPT ![t] = V]
  /\ UNCHANGED <<heapVars, readers, fresh, waiting, gcVars>>

\* Mutants of GetWrite: no write barrier; one that ignores paint_black_in_progress.
GetWriteNoBarrier(t, o) == GrantWrite(t, o, {})

GetWriteAlwaysVisits(t, o) == GrantWrite(t, o, IF status[o] # "visited" THEN {o} ELSE {})

\* The status is read and, unless the object is visited, the flag too, at the
\* grant of the lock: while it is held nobody else acts on the object, so a
\* later look at the flag is a later grant.  The comparison of obj_p_h itself
\* with GC_NEWLY_ADDED in cs_get_write is never true.
GetWrite(t, o) ==
  GrantWrite(t, o, IF paintBlack /\ status[o] # "visited" THEN {o} ELSE {})

\* cs_visit_obj, by a mutator or by the collector.
VisitObj(o) ==
  /\ inProgress' = inProgress \cup refs[o]
  /\ status' = [status EXCEPT ![o] = "visited"]

UserVisit(t, o) ==
  /\ o \in visiting[t]
  /\ VisitObj(o)
  /\ visiting' = [visiting EXCEPT ![t] = {}]
  /\ UNCHANGED <<rtLen, refs, roots, bookLen, lockVars, fresh, waiting, gcPc,
                 paintBlack, inHand, visitStack, productive, scanVars>>

Unlock(t, o) ==
  /\ o \in Held(t)
  /\ Runs(t)
  /\ writer' = [writer EXCEPT ![o] = Nobody]
  /\ readers' = [readers EXCEPT ![o] = @ \ {t}]
  /\ fresh' = [fresh EXCEPT ![t] = {}]
  /\ UNCHANGED <<heapVars, visiting, waiting, gcVars>>

StoreRef(t, o, u) ==
  /\ writer[o] = t /\ Runs(t)
  /\ Cardinality(refs[o]) < rtLen[o]
  /\ u \in Reachable \cup fresh[t]
  /\ refs' = [refs EXCEPT ![o] = @ \cup {u}]
  /\ UNCHANGED <<status, rtLen, roots, bookLen, lockVars, userVars, gcVars>>

DropRef(t, o, u) ==
  /\ Unlinks
  /\ writer[o] = t /\ Runs(t)
  /\ u \in refs[o]
  /\ refs' = [refs EXCEPT ![o] = @ \ {u}]
  /\ UNCHANGED <<status, rtLen, roots, bookLen, lockVars, userVars, gcVars>>

\* The root set lock is the collector's between the flag and the last push.
Root(t, o) ==
  /\ gcPc # "push"
  /\ Cardinality(roots) < MaxRoots /\ o \notin roots
  /\ Runs(t)
  /\ \/ (Held(t) # {} => RootsUnderLock) /\ o \in Reachable
     \/ o \in fresh[t] /\ writer[o] = t
  /\ roots' = roots \cup {o}
  /\ UNCHANGED <<status, rtLen, refs, bookLen, lockVars, userVars, gcVars>>

Deroot(t, o) ==
  /\ Unlinks
  /\ gcPc # "push"
  /\ o \in roots
  /\ Runs(t)
  /\ (\E h \in Cells : t \in readers[h]) => DerootsUnderRead
  /\ roots' = roots \ {o}
  /\ UNCHANGED <<status, rtLen, refs, bookLen, lockVars, userVars, gcVars>>

-----------------------------------------------------------------------------
(***************************************************************************)
(* cs_collect_garbage.                                                     *)
(***************************************************************************)

BeginCollection ==
  /\ gcPc = "idle"
  /\ gcPc' = "white"
  /\ cursor' = 0
  /\ limit' = bookLen
  /\ UNCHANGED <<heapVars, lockVars, userVars, markVars, removed, freeing>>

PaintWhite ==
  /\ gcPc = "white"
  /\ cursor < limit
  /\ WriteFree(cursor)
  /\ status' = [status EXCEPT ![cursor] = IF @ = "free" THEN @ ELSE "unvisited"]
  /\ cursor' = cursor + 1
  /\ UNCHANGED <<rtLen, refs, roots, bookLen, lockVars, userVars, gcPc, markVars,
                 limit, removed, freeing>>

BeginPaintBlack ==
  /\ gcPc = "white"
  /\ cursor = limit
  /\ paintBlack' = TRUE
  /\ gcPc' = "push"
  /\ cursor' = 0 /\ limit' = 0
  /\ UNCHANGED <<heapVars, lockVars, userVars, inProgress, inHand, visitStack,
                 productive, removed, freeing>>

PushRoots ==
  /\ gcPc = "push"
  /\ inProgress' = inProgress \cup roots
  /\ productive' = FALSE
  /\ gcPc' = "drain"
  /\ UNCHANGED <<heapVars, lockVars, userVars, paintBlack, inHand, visitStack, scanVars>>

PopInProgress(o) ==
  /\ gcPc = "drain"
  /\ o \in inProgress
  /\ inProgress' = inProgress \ {o}
  /\ inHand' = {o}
  /\ gcPc' = "transfer"
  /\ UNCHANGED <<heapVars, lockVars, userVars, paintBlack, visitStack, productive, scanVars>>

\* The entry in hand gets its lock; push says whether it goes on visit_stack.
TransferInHand(o, push) ==
  /\ gcPc = "transfer"
  /\ o \in inHand
  /\ WriteFree(o)
  /\ status' = [status EXCEPT ![o] = IF @ = "unvisited" THEN "in_progress" ELSE @]
  /\ visitStack' = IF push THEN visitStack \cup {o} ELSE visitStack
  /\ inHand' = {}
  /\ productive' = TRUE
  /\ gcPc' = IF status[o] = "free" THEN "exit" ELSE "drain"
  /\ UNCHANGED <<rtLen, refs, roots, bookLen, lockVars, userVars, paintBlack,
                 inProgress, scanVars>>

\* Mutant of Transfer: every popped entry is pushed, whatever its status.
TransferAlwaysPushes(o) == TransferInHand(o, TRUE)

\* ms_get_write of an unallocated cell logs an error and exits the process.
Transfer(o) == TransferInHand(o, status[o] = "unvisited")

DrainDone ==
  /\ gcPc = "drain"
  /\ inProgress = {}
  /\ gcPc' = "visit"
  /\ UNCHANGED <<heapVars, lockVars, userVars, markVars, scanVars>>

GcVisit(o) ==
  /\ gcPc = "visit"
  /\ o \in visitStack
  /\ WriteFree(o)
  /\ IF status[o] = "in_progress" THEN VisitObj(o) ELSE UNCHANGED <<inProgress, status>>
  /\ visitStack' = visitStack \ {o}
  /\ productive' = TRUE
  /\ gcPc' = IF status[o] = "free" THEN "exit" ELSE "visit"
  /\ UNCHANGED <<rtLen, refs, roots, bookLen, lockVars, userVars, paintBlack, inHand, scanVars>>

StartIteration(flag) ==
  /\ gcPc = "visit"
  /\ visitStack = {}
  /\ productive
  /\ productive' = flag
  /\ gcPc' = "drain"
  /\ UNCHANGED <<heapVars, lockVars, userVars, paintBlack, inProgress, inHand,
                 visitStack, scanVars>>

\* Mutant of NextIteration: productive_iteration is not reset.
NextIterationNoReset == StartIteration(productive)

NextIteration == StartIteration(FALSE)

\* Marking ends and ms_filter is to walk n cells.
StartFilter(n) ==
  /\ gcPc = "visit"
  /\ visitStack = {}
  /\ paintBlack' = FALSE
  /\ gcPc' = "filter"
  /\ cursor' = 0
  /\ limit' = n
  /\ UNCHANGED <<heapVars, lockVars, userVars, inProgress, inHand, visitStack,
                 productive, removed, freeing>>

\* Mutants of EndPaintBlack: marking stops after its first iteration; ms_filter
\* walks one table too many; it walks one too few.
EndPaintBlackEarly == StartFilter(bookLen)

EndPaintBlackTooFar == ~productive /\ StartFilter(bookLen + TableCap)

EndPaintBlackTooNear ==
  ~productive /\ StartFilter(IF bookLen = 0 THEN 0 ELSE bookLen - TableCap)

EndPaintBlack == ~productive /\ StartFilter(bookLen)

\* ms_filter looks at every object under its read lock, then frees.
FilterColours(doomed) ==
  /\ gcPc = "filter"
  /\ cursor < limit
  /\ writer[cursor] = Nobody
  /\ removed' = IF status[cursor] \in doomed THEN removed \cup {cursor} ELSE removed
  /\ cursor' = cursor + 1
  /\ UNCHANGED <<heapVars, lockVars, userVars, gcPc, markVars, limit, freeing>>

\* Mutant of FilterCell: newly added objects are swept too.
FilterCellSweepsNew == FilterColours({"unvisited", "newly"})

FilterCell == FilterColours({"unvisited"})

FilterDone ==
  /\ gcPc = "filter"
  /\ cursor = limit
  /\ gcPc' = "free"
  /\ cursor' = 0 /\ limit' = 0
  /\ UNCHANGED <<heapVars, lockVars, userVars, markVars, removed, freeing>>

\* ms_free looks up the block of the last entry under the entry's read lock, and
\* mb_free takes the mem_lck of that block.
BeginFree(o) ==
  /\ gcPc = "free"
  /\ freeing = {}
  /\ o \in removed /\ \A r \in removed : r <= o
  /\ writer[o] = Nobody
  /\ freeing' = {o}
  /\ UNCHANGED <<heapVars, lockVars, userVars, gcPc, markVars, cursor, limit, removed>>

\* With mem_lck in its hands mb_free waits for the lock of the object.
Free(o) ==
  /\ gcPc = "free"
  /\ o \in removed \cap freeing
  /\ WriteFree(o)
  /\ status' = [status EXCEPT ![o] = "free"]
  /\ rtLen' = [rtLen EXCEPT ![o] = 0]
  /\ refs' = [refs EXCEPT ![o] = {}]
  /\ removed' = removed \ {o}
  /\ UNCHANGED <<roots, bookLen, lockVars, userVars, gcPc, markVars, cursor, limit, freeing>>

\* The entry's address is gone, its table listed again, and mem_lck given back.
EndFree ==
  /\ gcPc = "free"
  /\ freeing # {}
  /\ freeing \cap removed = {}
  /\ freeing' = {}
  /\ UNCHANGED <<heapVars, lockVars, userVars, gcPc, markVars, cursor, limit, removed>>

EndCollection ==
  /\ gcPc = "free"
  /\ removed = {} /\ freeing = {}
  /\ gcPc' = "idle"
  /\ UNCHANGED <<heapVars, lockVars, userVars, markVars, scanVars>>

-----------------------------------------------------------------------------
GcStep ==
  \/ PaintWhite
  \/ BeginPaintBlack
  \/ PushRoots
  \/ \E o \in Cells : PopInProgress(o) \/ Transfer(o) \/ GcVisit(o)
  \/ \E o \in Cells : BeginFree(o) \/ Free(o)
  \/ EndFree
  \/ DrainDone
  \/ NextIteration
  \/ EndPaintBlack
  \/ FilterCell
  \/ FilterDone
  \/ EndCollection

UserStep(t) ==
  \/ AwaitBlock(t) \/ NoRoom(t)
  \/ \E o \in Cells, hold \in BOOLEAN : Malloc(t, o, hold)
  \/ \E o \in Cells : GetRead(t, o)
  \/ \E o \in Cells : GetWrite(t, o)
  \/ \E o \in Cells : UserVisit(t, o)
  \/ \E o \in Cells : Unlock(t, o)
  \/ \E o, u \in Cells : StoreRef(t, o, u)
  \/ \E o, u \in Cells : DropRef(t, o, u)
  \/ \E o \in Cells : Root(t, o)
  \/ \E o \in Cells : Deroot(t, o)

Next == BeginCollection \/ GcStep \/ \E t \in Mutators : UserStep(t)

Spec == Init /\ [][Next]_vars

\* The worker starts a collection as soon as the last one ends (a gc_worker_spec
\* with no delay), a lock that is free again and again is granted at some time,
\* mem_lck too, and a mutator leaves cs_get_write and, unless it waits for
\* mem_lck for ever, unlocks what it locked.
Fairness ==
  /\ WF_vars(BeginCollection)
  /\ SF_vars(GcStep)
  /\ \A t \in Mutators :
       SF_vars(t \in waiting /\ (NoRoom(t) \/ \E o \in Cells, hold \in BOOLEAN : Malloc(t, o, hold)))
  /\ \A t \in Mutators, o \in Cells : WF_vars(UserVisit(t, o)) /\ SF_vars(Unlock(t, o))

FairSpec == Spec /\ Fairness

-----------------------------------------------------------------------------
(***************************************************************************)
(* Properties.                                                             *)
(***************************************************************************)
Marking  == gcPc \in {"drain", "transfer", "visit"}
Sweeping == gcPc \in {"filter", "free"}

\* Nothing a mutator can reach through the roots is ever a freed cell: the
\* collector "frees memory it guarantees is unreachable by the user"
\* (cs.c:20-21), here over every interleaving of a collection with the
\* locks, stores, roots and derootings of the mutators.
ReachableAreAllocated == Reachable \subseteq Allocated

\* The first guarantee of the end of paint black (cs.c:37): from the end of
\* marking to the end of the sweep every reachable object is visited or
\* newly added.
ReachableAreMarked ==
  Sweeping => \A o \in Reachable : status[o] \in {"visited", "newly"}

\* The argument of cs.c:82-110, while the loop runs: whoever is reachable and
\* not black can be reached from a grey object (an entry of in_progress_stack,
\* the one in hand, or an object marked in progress) through objects that are
\* not black, so marking cannot end before it is visited.
Black == {o \in Cells : status[o] \in {"visited", "newly"}}
Grey  == inProgress \cup inHand \cup {o \in Cells : status[o] = "in_progress"}
Covers(S) == Grey \subseteq S /\ \A o \in S \ Black : refs[o] \subseteq S
NothingHidden ==
  Marking => \A o \in Reachable \ Black :
               \A S \in SUBSET Cells : o \notin S => ~Covers(S)

\* The two stacks as cs.c:56-63 describes them: visit_stack holds only objects
\* in progress or visited, and every object in progress is on it.
VisitStackSound ==
  /\ \A o \in visitStack : status[o] \in {"in_progress", "visited"}
  /\ \A o \in Cells : status[o] = "in_progress" => o \in visitStack

\* "When we free, we assume the user does not have the lock of the piece"
\* (mb.c:191): mb_free takes the lock of the object with the lock of the memory
\* block in hand, so whoever holds the object and allocates would wait for ever.
SweepNeverWaits == gcPc = "free" => \A o \in removed : WriteFree(o)

\* A collection that has begun ends: cs.c:112-116 leaves it to intuition that
\* marking ever stops beside mutators that keep pushing on in_progress_stack.
CollectionEnds == (gcPc # "idle") ~> (gcPc = "idle")

\* Every object that is garbage at some time is freed by a later sweep.
GarbageIsFreed ==
  \A o \in Cells :
    (o \in Garbage) ~> (status[o] = "free")
=============================================================================
