-------------------------- MODULE Collector_proofs --------------------------
(***************************************************************************)
(* Collector for every set of mutators, size of the heap and freedom the   *)
(* mutators take: its type invariant, and what the collector knows of its  *)
(* own visit_stack; then, for mutators that keep to a discipline, that the *)
(* collector frees nothing in reach, all that was garbage when it began,   *)
(* and waits for nobody while it sweeps.                                   *)
(***************************************************************************)
EXTENDS CollectorGarbage, FiniteSetTheorems, TLAPS

USE CollectorAssumption

-----------------------------------------------------------------------------
(***************************************************************************)
(* Types.                                                                  *)
(***************************************************************************)
Statuses == Colours \cup {"free"}

LEMMA InitType == Init => TypeOK
<1> SUFFICES ASSUME Init PROVE TypeOK
  OBVIOUS
<1>1. bookLen \in 0..MaxCells
  BY DEF Init
<1>2. 0..(bookLen - 1) \subseteq Cells
  BY <1>1 DEF Cells
<1>3. status \in [Cells -> Statuses] /\ rtLen \in [Cells -> Nat]
  BY DEF Init, Statuses, Colours
<1>4. refs \in [Cells -> SUBSET Cells] /\ roots \in SUBSET Cells
  <2>1. roots \in SUBSET Cells
    BY <1>2 DEF Init
  <2> DEFINE Tables == {R \in SUBSET (0..(bookLen - 1)) : Cardinality(R) <= RtLen}
  <2>2. refs \in [Cells -> Tables]
    BY DEF Init
  <2>3. Tables \subseteq SUBSET Cells
    BY <1>2
  <2> HIDE DEF Tables
  <2> QED
    BY <2>1, <2>2, <2>3
<1>5. /\ writer \in [Cells -> Mutators \cup {Nobody}]
      /\ readers \in [Cells -> SUBSET Mutators]
      /\ visiting \in [Mutators -> SUBSET Cells]
      /\ fresh \in [Mutators -> SUBSET Cells]
      /\ freeing \in SUBSET Cells /\ waiting \in SUBSET Mutators
  BY DEF Init
<1>6. /\ gcPc \in Phases /\ paintBlack \in BOOLEAN /\ productive \in BOOLEAN
      /\ cursor \in 0..MaxCells /\ limit \in 0..MaxCells
      /\ inProgress = {} /\ inHand = {} /\ visitStack = {} /\ removed = {}
  <2>1. /\ gcPc = "idle" /\ paintBlack = FALSE /\ productive = FALSE /\ cursor = 0 /\ limit = 0
        /\ inProgress = {} /\ inHand = {} /\ visitStack = {} /\ removed = {}
    BY DEF Init
  <2>2. paintBlack \in BOOLEAN /\ productive \in BOOLEAN
    BY <2>1
  <2>3. gcPc \in Phases
    BY <2>1 DEF Phases
  <2>4. cursor \in 0..MaxCells /\ limit \in 0..MaxCells
    BY <2>1 DEF CollectorAssumption
  <2> QED
    BY <2>1, <2>2, <2>3, <2>4
<1>7. /\ inProgress \in SUBSET Cells /\ inHand \in SUBSET Cells
      /\ visitStack \in SUBSET Cells /\ removed \in SUBSET Cells
  BY <1>6
<1> QED
  BY <1>1, <1>3, <1>4, <1>5, <1>6, <1>7, Zenon DEF TypeOK, Statuses

\* The steps of the mutators.
LEMMA UserType ==
  ASSUME TypeOK, NEW t \in Mutators, UserStep(t)
  PROVE  TypeOK'
<1>0. ASSUME AwaitBlock(t) \/ NoRoom(t)
      PROVE  TypeOK'
  BY <1>0 DEF AwaitBlock, NoRoom, TypeOK, heapVars, lockVars, gcVars, markVars, scanVars
<1>1. ASSUME NEW o \in Cells, NEW hold \in BOOLEAN, Malloc(t, o, hold)
      PROVE  TypeOK'
  <2>1. bookLen' \in 0..MaxCells
    BY <1>1 DEF Malloc, MayMalloc, FreeCells, TypeOK
  <2>2. /\ status' \in [Cells -> Statuses] /\ rtLen' \in [Cells -> Nat]
        /\ refs' \in [Cells -> SUBSET Cells]
    BY <1>1 DEF Malloc, MayMalloc, TypeOK, Statuses, Colours
  <2>3. writer' \in [Cells -> Mutators \cup {Nobody}]
    BY <1>1 DEF Malloc, MayMalloc, TypeOK
  <2>4. fresh' \in [Mutators -> SUBSET Cells] /\ waiting' \in SUBSET Mutators
    BY <1>1 DEF Malloc, MayMalloc, TypeOK
  <2> QED
    BY <1>1, <2>1, <2>2, <2>3, <2>4 DEF Malloc, MayMalloc, TypeOK, Statuses, gcVars, markVars, scanVars
<1>2. ASSUME NEW o \in Cells, GetRead(t, o) \/ GetWrite(t, o) \/ Unlock(t, o)
      PROVE  TypeOK'
  <2>1. writer' \in [Cells -> Mutators \cup {Nobody}]
    BY <1>2 DEF GetRead, GetWrite, GrantWrite, Unlock, TypeOK
  <2>2. readers' \in [Cells -> SUBSET Mutators]
    BY <1>2 DEF GetRead, GetWrite, GrantWrite, Unlock, TypeOK
  <2>3. /\ visiting' \in [Mutators -> SUBSET Cells] /\ fresh' \in [Mutators -> SUBSET Cells]
        /\ waiting' = waiting
    BY <1>2 DEF GetRead, GetWrite, GrantWrite, Unlock, TypeOK, userVars
  <2>4. UNCHANGED <<heapVars, gcVars>>
    BY <1>2 DEF GetRead, GetWrite, GrantWrite, Unlock
  <2> QED
    BY <2>1, <2>2, <2>3, <2>4 DEF TypeOK, heapVars, gcVars, markVars, scanVars
<1>3. ASSUME NEW o \in Cells, UserVisit(t, o)
      PROVE  TypeOK'
  <2>1. status' \in [Cells -> Statuses] /\ inProgress' \in SUBSET Cells
    BY <1>3 DEF UserVisit, VisitObj, TypeOK, Statuses, Colours
  <2>2. visiting' \in [Mutators -> SUBSET Cells]
    BY <1>3 DEF UserVisit, TypeOK
  <2> QED
    BY <1>3, <2>1, <2>2 DEF UserVisit, TypeOK, Statuses, lockVars, scanVars
<1>4. ASSUME NEW o \in Cells, NEW u \in Cells, StoreRef(t, o, u) \/ DropRef(t, o, u)
      PROVE  TypeOK'
  <2>1. refs' \in [Cells -> SUBSET Cells]
    BY <1>4 DEF StoreRef, DropRef, TypeOK
  <2>2. UNCHANGED <<status, rtLen, roots, bookLen, lockVars, userVars, gcVars>>
    BY <1>4 DEF StoreRef, DropRef
  <2> QED
    BY <2>1, <2>2 DEF TypeOK, lockVars, userVars, gcVars, markVars, scanVars
<1>5. ASSUME NEW o \in Cells, Root(t, o) \/ Deroot(t, o)
      PROVE  TypeOK'
  <2>1. roots' \in SUBSET Cells
    BY <1>5 DEF Root, Deroot, TypeOK
  <2>2. UNCHANGED <<status, rtLen, refs, bookLen, lockVars, userVars, gcVars>>
    BY <1>5 DEF Root, Deroot
  <2> QED
    BY <2>1, <2>2 DEF TypeOK, lockVars, userVars, gcVars, markVars, scanVars
<1> QED
  BY <1>0, <1>1, <1>2, <1>3, <1>4, <1>5 DEF UserStep

\* The steps of the collector.
LEMMA CollectorType ==
  ASSUME TypeOK, BeginCollection \/ GcStep
  PROVE  TypeOK'
<1> USE DEF Phases
<1>1. CASE BeginCollection \/ BeginPaintBlack \/ PushRoots \/ DrainDone \/ NextIteration
           \/ EndPaintBlack \/ FilterDone \/ EndCollection
  <2>1. gcPc' \in Phases /\ paintBlack' \in BOOLEAN /\ productive' \in BOOLEAN
    BY <1>1 DEF BeginCollection, BeginPaintBlack, PushRoots, DrainDone, NextIteration, StartIteration,
                EndPaintBlack, StartFilter, FilterDone, EndCollection, TypeOK, markVars
  <2>2. cursor' \in 0..MaxCells /\ limit' \in 0..MaxCells
    BY <1>1 DEF BeginCollection, BeginPaintBlack, PushRoots, DrainDone, NextIteration, StartIteration,
                EndPaintBlack, StartFilter, FilterDone, EndCollection, TypeOK, scanVars
  <2>3. inProgress' \in SUBSET Cells
    BY <1>1 DEF BeginCollection, BeginPaintBlack, PushRoots, DrainDone, NextIteration, StartIteration,
                EndPaintBlack, StartFilter, FilterDone, EndCollection, TypeOK, markVars
  <2>4. UNCHANGED <<heapVars, lockVars, userVars, inHand, visitStack, removed, freeing>>
    BY <1>1 DEF BeginCollection, BeginPaintBlack, PushRoots, DrainDone, NextIteration, StartIteration,
                EndPaintBlack, StartFilter, FilterDone, EndCollection, markVars, scanVars
  <2> QED
    BY <2>1, <2>2, <2>3, <2>4 DEF TypeOK, heapVars, lockVars, userVars
<1>2. CASE PaintWhite \/ FilterCell
  <2>1. cursor \in Cells /\ cursor' \in 0..MaxCells
    BY <1>2 DEF PaintWhite, FilterCell, FilterColours, TypeOK, Cells
  <2>2. status' \in [Cells -> Statuses] /\ removed' \in SUBSET Cells
    BY <1>2, <2>1 DEF PaintWhite, FilterCell, FilterColours, TypeOK, heapVars, Statuses, Colours
  <2>3. UNCHANGED <<rtLen, refs, roots, bookLen, lockVars, userVars, gcPc, markVars, limit, freeing>>
    BY <1>2 DEF PaintWhite, FilterCell, FilterColours, heapVars
  <2> QED
    BY <2>1, <2>2, <2>3 DEF TypeOK, lockVars, userVars, markVars, Statuses
<1>3. ASSUME NEW o \in Cells, PopInProgress(o) \/ Transfer(o) \/ GcVisit(o)
      PROVE  TypeOK'
  <2>1. status' \in [Cells -> Statuses]
    BY <1>3 DEF PopInProgress, Transfer, TransferInHand, GcVisit, VisitObj, TypeOK, heapVars, Statuses, Colours
  <2>2. inProgress' \in SUBSET Cells /\ inHand' \in SUBSET Cells /\ visitStack' \in SUBSET Cells
    BY <1>3 DEF PopInProgress, Transfer, TransferInHand, GcVisit, VisitObj, TypeOK
  <2>3. gcPc' \in Phases /\ productive' \in BOOLEAN
    BY <1>3 DEF PopInProgress, Transfer, TransferInHand, GcVisit, TypeOK
  <2>4. UNCHANGED <<rtLen, refs, roots, bookLen, lockVars, userVars, paintBlack, scanVars>>
    BY <1>3 DEF PopInProgress, Transfer, TransferInHand, GcVisit, heapVars
  <2> QED
    BY <2>1, <2>2, <2>3, <2>4 DEF TypeOK, lockVars, userVars, scanVars, Statuses
<1>4. ASSUME NEW o \in Cells, Free(o)
      PROVE  TypeOK'
  <2>1. /\ status' \in [Cells -> Statuses] /\ rtLen' \in [Cells -> Nat]
        /\ refs' \in [Cells -> SUBSET Cells]
    BY <1>4 DEF Free, TypeOK, Statuses
  <2> QED
    BY <1>4, <2>1 DEF Free, TypeOK, lockVars, userVars, markVars, Statuses
<1>5. ASSUME EndFree \/ \E o \in Cells : BeginFree(o)
      PROVE  TypeOK'
  BY <1>5 DEF BeginFree, EndFree, TypeOK, heapVars, lockVars, userVars, markVars
<1> QED
  BY <1>1, <1>2, <1>3, <1>4, <1>5 DEF GcStep

\* Every variable of the collector keeps its type: no walk leaves the book, and
\* the stacks hold cells of the book only.
THEOREM TypeCorrect == Spec => []TypeOK
<1>1. TypeOK /\ [Next]_vars => TypeOK'
  <2>1. CASE UNCHANGED vars
    BY <2>1 DEF vars, heapVars, lockVars, userVars, gcVars, markVars, scanVars, TypeOK
  <2> QED
    BY <2>1, UserType, CollectorType DEF Next
<1> QED
  BY <1>1, InitType, PTL DEF Spec

\* All but the mem_lck of the memory blocks and the mutators that wait for it.
seen == <<heapVars, lockVars, visiting, fresh, gcPc, markVars, cursor, limit, removed>>

LEMMA BlockLockFrame ==
  ASSUME \/ UNCHANGED vars
         \/ EndFree
         \/ \E o \in Cells : BeginFree(o)
         \/ \E t \in Mutators : AwaitBlock(t) \/ NoRoom(t)
  PROVE  UNCHANGED seen
BY DEF seen, vars, EndFree, BeginFree, AwaitBlock, NoRoom, heapVars, lockVars, userVars, gcVars, markVars, scanVars

-----------------------------------------------------------------------------
(***************************************************************************)
(* The book.  What a mutator can get at lies in the book, and past its end *)
(* nothing is allocated: the cell of a Malloc was free.                    *)
(***************************************************************************)
Book == 0..(bookLen - 1)

BookIsClosed ==
  /\ roots \subseteq Book
  /\ \A o \in Cells : refs[o] \subseteq Book
  /\ \A t \in Mutators : visiting[t] \subseteq Book /\ fresh[t] \subseteq Book
  /\ \A o \in Cells : status[o] # "free" => o \in Book

LEMMA ReachableInBook ==
  ASSUME TypeOK, BookIsClosed
  PROVE  Reachable \subseteq Book
<1>1. Book \in SUBSET Cells
  BY DEF Book, Cells, TypeOK
<1>2. roots \subseteq Book /\ Closed(Book)
  BY <1>1 DEF BookIsClosed, Closed
<1> QED
  BY <1>1, <1>2 DEF Reachable, ReachableFrom

LEMMA FreeCellsAreFree ==
  ASSUME TypeOK, BookIsClosed, NEW o \in Cells, o \in FreeCells
  PROVE  status[o] = "free"
<1>1. CASE o \in Book
  BY <1>1 DEF FreeCells, Book, TypeOK
<1>2. CASE o \notin Book
  BY <1>2 DEF BookIsClosed
<1> QED
  BY <1>1, <1>2

LEMMA InitBook == Init => BookIsClosed
<1> SUFFICES ASSUME Init PROVE BookIsClosed
  OBVIOUS
<1>1. \A o \in Cells : status[o] # "free" => o \in Book
  BY DEF Init, Book, Cells
<1>2. \A o \in Cells : refs[o] \subseteq Book
  BY DEF Init, Book
<1> QED
  BY <1>1, <1>2 DEF Init, BookIsClosed, Book

LEMMA UserBook ==
  ASSUME TypeOK, BookIsClosed, NEW t \in Mutators, UserStep(t)
  PROVE  BookIsClosed'
<1>0. ASSUME AwaitBlock(t) \/ NoRoom(t)
      PROVE  BookIsClosed'
  BY <1>0 DEF AwaitBlock, NoRoom, BookIsClosed, Book, heapVars
<1>1. ASSUME NEW o \in Cells, NEW hold \in BOOLEAN, Malloc(t, o, hold)
      PROVE  BookIsClosed'
  <2>1. o \in Book' /\ Book \subseteq Book'
    BY <1>1 DEF Malloc, MayMalloc, FreeCells, Book, TypeOK, Cells
  <2>2. \A x \in Cells : /\ refs'[x] = IF x = o THEN {} ELSE refs[x]
                         /\ status'[x] = IF x = o THEN "newly" ELSE status[x]
    BY <1>1 DEF Malloc, MayMalloc, TypeOK
  <2>3. \A u \in Mutators : fresh'[u] \subseteq fresh[u] \cup {o}
    BY <1>1 DEF Malloc, MayMalloc, TypeOK
  <2>4. roots' = roots /\ visiting' = visiting
    BY <1>1 DEF Malloc
  <2> HIDE DEF Book
  <2> QED
    BY <2>1, <2>2, <2>3, <2>4 DEF BookIsClosed
<1>2. ASSUME NEW o \in Cells, GetRead(t, o) \/ GetWrite(t, o) \/ Unlock(t, o)
      PROVE  BookIsClosed'
  <2>1. UNCHANGED <<status, refs, roots, bookLen>>
    BY <1>2 DEF GetRead, GetWrite, GrantWrite, Unlock, heapVars
  <2>2. \A u \in Mutators : fresh'[u] \subseteq fresh[u]
    BY <1>2 DEF GetRead, GetWrite, GrantWrite, Unlock, userVars, TypeOK
  <2>3. \A u \in Mutators : visiting'[u] \subseteq visiting[u] \cup Reachable
    BY <1>2 DEF GetRead, GetWrite, GrantWrite, Unlock, MayLock, Runs, userVars, TypeOK
  <2> QED
    BY <2>1, <2>2, <2>3, ReachableInBook DEF BookIsClosed, Book
<1>3. ASSUME NEW o \in Cells, UserVisit(t, o)
      PROVE  BookIsClosed'
  <2>1. UNCHANGED <<refs, roots, bookLen, fresh>>
    BY <1>3 DEF UserVisit
  <2>2. \A u \in Mutators : visiting'[u] \subseteq visiting[u]
    BY <1>3 DEF UserVisit, TypeOK
  <2>3. o \in Book
    BY <1>3 DEF UserVisit, BookIsClosed
  <2>4. \A x \in Cells : x # o => status'[x] = status[x]
    BY <1>3 DEF UserVisit, VisitObj, TypeOK
  <2> QED
    BY <2>1, <2>2, <2>3, <2>4 DEF BookIsClosed, Book
<1>4. ASSUME NEW o \in Cells, NEW u \in Cells, StoreRef(t, o, u) \/ DropRef(t, o, u)
      PROVE  BookIsClosed'
  <2>1. UNCHANGED <<status, roots, bookLen, visiting, fresh>>
    BY <1>4 DEF StoreRef, DropRef, userVars
  <2>2. \A x \in Cells : refs'[x] \subseteq refs[x] \cup Reachable \cup fresh[t]
    BY <1>4 DEF StoreRef, DropRef, TypeOK
  <2> QED
    BY <2>1, <2>2, ReachableInBook DEF BookIsClosed, Book
<1>5. ASSUME NEW o \in Cells, Root(t, o) \/ Deroot(t, o)
      PROVE  BookIsClosed'
  <2>1. UNCHANGED <<status, refs, bookLen, visiting, fresh>>
    BY <1>5 DEF Root, Deroot, userVars
  <2>2. roots' \subseteq roots \cup Reachable \cup fresh[t]
    BY <1>5 DEF Root, Deroot
  <2> QED
    BY <2>1, <2>2, ReachableInBook DEF BookIsClosed, Book
<1> QED
  BY <1>0, <1>1, <1>2, <1>3, <1>4, <1>5 DEF UserStep

NothingBorn ==
  \A x \in Cells : /\ refs'[x] \subseteq refs[x]
                   /\ status[x] = "free" => status'[x] = "free"

LEMMA CollectorBook ==
  ASSUME TypeOK, BookIsClosed, BeginCollection \/ GcStep
  PROVE  BookIsClosed'
<1>1. UNCHANGED <<roots, bookLen, visiting, fresh>>
  BY DEF BeginCollection, GcStep, PaintWhite, BeginPaintBlack, PushRoots, PopInProgress, Transfer, TransferInHand,
         GcVisit, BeginFree, Free, EndFree, DrainDone, NextIteration, StartIteration, EndPaintBlack, StartFilter, FilterCell, FilterColours, FilterDone,
         EndCollection, heapVars, userVars
<1>2. NothingBorn
  <2>1. ASSUME NEW o \in Cells, Transfer(o) \/ GcVisit(o) \/ Free(o)
        PROVE  NothingBorn
    BY <2>1 DEF Transfer, TransferInHand, GcVisit, VisitObj, Free, TypeOK, NothingBorn
  <2>2. CASE PaintWhite
    BY <2>2 DEF PaintWhite, TypeOK, NothingBorn
  <2>3. ASSUME UNCHANGED <<status, refs>>
        PROVE  NothingBorn
    BY <2>3 DEF NothingBorn
  <2>4. ASSUME NEW o \in Cells, PopInProgress(o)
        PROVE  NothingBorn
    BY <2>3, <2>4 DEF PopInProgress, heapVars
  <2>5. CASE BeginCollection \/ BeginPaintBlack \/ PushRoots \/ DrainDone \/ NextIteration
             \/ EndPaintBlack \/ FilterCell \/ FilterDone \/ EndCollection \/ EndFree
             \/ \E o \in Cells : BeginFree(o)
    <3>1. UNCHANGED <<status, refs>>
      BY <2>5 DEF BeginCollection, BeginPaintBlack, PushRoots, DrainDone, NextIteration, StartIteration,
                  EndPaintBlack, StartFilter, FilterCell, FilterColours, FilterDone, BeginFree, EndFree,
                  EndCollection, heapVars
    <3> QED
      BY <2>3, <3>1
  <2> QED
    BY <2>1, <2>2, <2>4, <2>5 DEF GcStep
<1> QED
  BY <1>1, <1>2 DEF BookIsClosed, Book, NothingBorn

-----------------------------------------------------------------------------
(***************************************************************************)
(* visit_stack.  A status is in progress only between the push in the      *)
(* first inner loop and the pop in the second, so outside of the marking   *)
(* loop the stack has to be empty: paint white would break the description *)
(* otherwise.                                                              *)
(***************************************************************************)
EmptyOutsideMarking == gcPc \in Phases \ {"drain", "transfer", "visit", "exit"} => visitStack = {}

VInv == TypeOK /\ BookIsClosed /\ VisitStackSound /\ EmptyOutsideMarking

LEMMA InitVInv == Init => VInv
<1> SUFFICES ASSUME Init PROVE VInv
  OBVIOUS
<1>1. \A o \in Cells : status[o] # "in_progress"
  BY DEF Init
<1> QED
  BY <1>1, InitType, InitBook DEF Init, VInv, VisitStackSound, EmptyOutsideMarking

LEMMA UserVInv ==
  ASSUME VInv, NEW t \in Mutators, UserStep(t)
  PROVE  VisitStackSound' /\ EmptyOutsideMarking'
<1>1. ASSUME NEW o \in Cells, NEW hold \in BOOLEAN, Malloc(t, o, hold)
      PROVE  VisitStackSound' /\ EmptyOutsideMarking'
  <2>1. UNCHANGED <<visitStack, gcPc>>
    BY <1>1 DEF Malloc, MayMalloc, gcVars, markVars
  <2>2. o \notin visitStack
    <3>1. status[o] = "free"
      BY <1>1, FreeCellsAreFree DEF Malloc, MayMalloc, VInv
    <3> QED
      BY <3>1 DEF VInv, VisitStackSound
  <2>3. \A x \in Cells : status'[x] = IF x = o THEN "newly" ELSE status[x]
    BY <1>1 DEF Malloc, MayMalloc, VInv, TypeOK
  <2> QED
    BY <2>1, <2>2, <2>3 DEF VInv, TypeOK, VisitStackSound, EmptyOutsideMarking
<1>2. ASSUME NEW o \in Cells, UserVisit(t, o)
      PROVE  VisitStackSound' /\ EmptyOutsideMarking'
  <2>1. UNCHANGED <<visitStack, gcPc>>
    BY <1>2 DEF UserVisit
  <2>2. \A x \in Cells : status'[x] = IF x = o THEN "visited" ELSE status[x]
    BY <1>2 DEF UserVisit, VisitObj, VInv, TypeOK
  <2> QED
    BY <2>1, <2>2 DEF VInv, TypeOK, VisitStackSound, EmptyOutsideMarking
<1>3. CASE UNCHANGED <<status, visitStack, gcPc>>
  BY <1>3 DEF VInv, VisitStackSound, EmptyOutsideMarking
<1> QED
  BY <1>1, <1>2, <1>3 DEF UserStep, AwaitBlock, NoRoom, GetRead, GetWrite, GrantWrite, Unlock, StoreRef, DropRef, Root, Deroot,
                          heapVars, gcVars, markVars

LEMMA CollectorVInv ==
  ASSUME VInv, BeginCollection \/ GcStep
  PROVE  VisitStackSound' /\ EmptyOutsideMarking'
<1> USE DEF VisitStackSound, EmptyOutsideMarking, Phases
<1>1. ASSUME NEW o \in Cells, Transfer(o)
      PROVE  VisitStackSound' /\ EmptyOutsideMarking'
  <2>1. \A x \in Cells : status'[x] = IF x = o /\ status[o] = "unvisited"
                                      THEN "in_progress" ELSE status[x]
    BY <1>1 DEF Transfer, TransferInHand, VInv, TypeOK
  <2>2. visitStack' = IF status[o] = "unvisited" THEN visitStack \cup {o} ELSE visitStack
    BY <1>1 DEF Transfer, TransferInHand
  <2> QED
    BY <1>1, <2>1, <2>2 DEF Transfer, TransferInHand, VInv, TypeOK
<1>2. ASSUME NEW o \in Cells, GcVisit(o)
      PROVE  VisitStackSound' /\ EmptyOutsideMarking'
  <2>1. \A x \in Cells : status'[x] = IF x = o /\ status[o] = "in_progress"
                                      THEN "visited" ELSE status[x]
    BY <1>2 DEF GcVisit, VisitObj, VInv, TypeOK
  <2>2. visitStack' = visitStack \ {o} /\ gcPc' \in {"exit", "visit"}
    BY <1>2 DEF GcVisit
  <2> QED
    BY <2>1, <2>2 DEF VInv, TypeOK
<1>3. CASE PaintWhite
  <2>1. visitStack = {} /\ UNCHANGED <<visitStack, gcPc>>
    BY <1>3 DEF PaintWhite, markVars, VInv
  <2>2. \A x \in Cells : status'[x] # "in_progress"
    BY <1>3, <2>1 DEF PaintWhite, VInv, TypeOK
  <2> QED
    BY <2>1, <2>2
<1>4. ASSUME NEW o \in Cells, Free(o)
      PROVE  VisitStackSound' /\ EmptyOutsideMarking'
  <2>1. visitStack = {} /\ UNCHANGED <<visitStack, gcPc>>
    BY <1>4 DEF Free, markVars, VInv
  <2>2. \A x \in Cells : status'[x] # "in_progress"
    BY <1>4, <2>1 DEF Free, VInv, TypeOK
  <2> QED
    BY <2>1, <2>2
<1>5. ASSUME UNCHANGED <<status, visitStack>>,
             visitStack = {} \/ gcPc' \in {"drain", "transfer", "visit", "exit"}
      PROVE  VisitStackSound' /\ EmptyOutsideMarking'
  BY <1>5 DEF VInv
<1>6. ASSUME NEW o \in Cells, PopInProgress(o)
      PROVE  VisitStackSound' /\ EmptyOutsideMarking'
  BY <1>5, <1>6 DEF PopInProgress, heapVars
<1>7. CASE BeginCollection \/ BeginPaintBlack \/ PushRoots \/ DrainDone \/ NextIteration
           \/ EndPaintBlack \/ FilterCell \/ FilterDone \/ EndCollection
  BY <1>5, <1>7 DEF BeginCollection, BeginPaintBlack, PushRoots, DrainDone, NextIteration, StartIteration,
      EndPaintBlack, StartFilter, FilterCell, FilterColours, FilterDone, EndCollection,
      heapVars, markVars, VInv
<1>8. CASE EndFree \/ \E o \in Cells : BeginFree(o)
  BY <1>8, BlockLockFrame DEF seen, heapVars, markVars, VInv
<1> QED
  BY <1>1, <1>2, <1>3, <1>4, <1>6, <1>7, <1>8 DEF GcStep

\* The stacks are as cs.c:56-63 describes them, for every interleaving of the
\* marking loop with the visits mutators make.
THEOREM VisitStackIsSound == Spec => []VisitStackSound
<1>1. Init => VInv
  BY InitVInv
<1>2. VInv /\ [Next]_vars => VInv'
  <2> SUFFICES ASSUME VInv, [Next]_vars PROVE VInv'
    OBVIOUS
  <2>1. CASE UNCHANGED vars
    BY <2>1 DEF vars, heapVars, lockVars, userVars, gcVars, markVars, scanVars, VInv, TypeOK,
                BookIsClosed, Book, VisitStackSound, EmptyOutsideMarking
  <2>2. CASE BeginCollection \/ GcStep
    BY <2>2, CollectorType, CollectorBook, CollectorVInv DEF VInv
  <2>3. ASSUME NEW t \in Mutators, UserStep(t)
        PROVE  VInv'
    BY <2>3, UserType, UserBook, UserVInv DEF VInv
  <2> QED
    BY <2>1, <2>2, <2>3 DEF Next
<1>3. VInv => VisitStackSound
  BY DEF VInv
<1> QED
  BY <1>1, <1>2, <1>3, PTL DEF Spec

-----------------------------------------------------------------------------
(***************************************************************************)
(* Safety.  The discipline under which the collector loses nothing:        *)
(* objects allocated while it runs are leaves, a mutator holds one lock at *)
(* a time, and either nothing is ever removed or there is one mutator,     *)
(* which roots no old object while it holds a lock.                        *)
(***************************************************************************)
Discipline ==
  /\ NewRtLen = 0
  /\ MaxHeld <= 1
  /\ Unlinks => ~RootsUnderLock /\ \A s, t \in Mutators : s = t

Painting == gcPc \in {"push", "drain", "transfer", "visit"}

\* Nothing was popped since DrainDone, so there is nothing left to mark.
Done == Sweeping \/ (gcPc = "visit" /\ ~productive)

\* Grey, with the roots that are about to be.
Todo == Grey \cup (IF gcPc = "push" THEN roots ELSE {})

CoversTodo(S) == Todo \subseteq S /\ \A o \in S \ Black : refs[o] \subseteq S

HeapIsTidy ==
  /\ \A o \in Cells : status[o] = "free" => rtLen[o] = 0 /\ writer[o] = Nobody /\ readers[o] = {}
  /\ \A o \in Cells : rtLen[o] = 0 => refs[o] = {}
  /\ \A o \in Cells : readers[o] # {} => writer[o] = Nobody

UserIsTidy(t) ==
  /\ visiting[t] # {} => fresh[t] = {}
  /\ \A o \in visiting[t] : writer[o] = t
  /\ \A o \in visiting[t] : paintBlack \/ (gcPc = "filter" /\ cursor <= o /\ o < limit)
  /\ fresh[t] # {} => Held(t) # {}
  /\ \A o \in fresh[t] : rtLen[o] = 0 /\ (writer[o] = t => status[o] = "newly")
  /\ \A o, h \in Held(t) : o = h
UsersAreTidy == \A t \in Mutators : UserIsTidy(t)

CollectorIsTidy ==
  /\ paintBlack <=> Painting \/ gcPc = "exit"
  /\ gcPc # "transfer" => inHand = {}
  /\ \A x, y \in inHand : x = y
  /\ gcPc \in {"drain", "visit"} /\ ~productive => visitStack = {}
  /\ removed # {} => Sweeping
  /\ \A o \in removed : status[o] = "unvisited" /\ writer[o] = Nobody

\* How far the walks of paint white and of the sweep have come.
WalksAreTrue ==
  /\ gcPc = "white" => \A o \in Cells : rtLen[o] # 0 => status[o] = "unvisited" \/ (cursor <= o /\ o < limit)
  /\ gcPc = "filter" => \A o \in Cells : status[o] = "unvisited" => o < limit /\ (o < cursor => o \in removed)
  /\ gcPc = "free" => \A o \in Cells : status[o] = "unvisited" => o \in removed

\* A newborn that paint white has caught can only be stored in an object that
\* marking has yet to come to.
FreshIsSafe ==
  \A t \in Mutators : \A u \in fresh[t], h \in Cells :
    writer[h] = t /\ rtLen[h] # 0 =>
      /\ status[u] # "free"
      /\ Painting \/ Sweeping => u \in Black \/ h \notin Black

NothingLost ==
  Painting => \A S \in SUBSET Cells : CoversTodo(S) => Reachable \subseteq Black \cup S

MarkedWhenDone == Done => Reachable \subseteq Black

\* While a lock is held that was granted before paint black, nothing black
\* refers to anything that is not at least grey.
Early(t, h) == writer[h] = t /\ visiting[t] = {} /\ h \notin Black
NoWhiteBelowBlack ==
  /\ roots \subseteq Black \cup Todo
  /\ \A v \in Black : refs[v] \subseteq Black \cup Todo
EarlyIsStrong ==
  Unlinks /\ Painting => \A t \in Mutators, h \in Cells : Early(t, h) => NoWhiteBelowBlack

Safe ==
  /\ HeapIsTidy /\ UsersAreTidy /\ CollectorIsTidy /\ WalksAreTrue
  /\ FreshIsSafe /\ NothingLost /\ MarkedWhenDone /\ EarlyIsStrong
  /\ ReachableAreAllocated

SInv == VInv /\ Safe

\* Reachability.
LEMMA ReachableIsClosed ==
  ASSUME TypeOK
  PROVE  Reachable \subseteq Cells /\ roots \subseteq Reachable /\ \A o \in Reachable : refs[o] \subseteq Reachable
<1>1. roots \subseteq Cells /\ \A o \in Cells : refs[o] \subseteq Cells
  BY DEF TypeOK
<1>2. ASSUME NEW o \in Reachable, NEW u \in refs[o]
      PROVE  u \in Reachable
  <2>1. o \in Cells /\ u \in Cells
    BY <1>1, <1>2 DEF Reachable, ReachableFrom
  <2>2. ASSUME NEW S \in SUBSET Cells, roots \subseteq S /\ Closed(S)
        PROVE  u \in S
    BY <1>2, <2>2 DEF Reachable, ReachableFrom, Closed
  <2> QED
    BY <2>1, <2>2 DEF Reachable, ReachableFrom
<1> QED
  BY <1>1, <1>2 DEF Reachable, ReachableFrom

LEMMA ReachableIsLeast ==
  ASSUME NEW S \in SUBSET Cells, roots \subseteq S, \A o \in S : refs[o] \subseteq S
  PROVE  Reachable \subseteq S
BY DEF Reachable, ReachableFrom, Closed

LEMMA NextReachableIsLeast ==
  ASSUME NEW S \in SUBSET Cells, roots' \subseteq S, \A o \in S : refs'[o] \subseteq S
  PROVE  Reachable' \subseteq S
BY DEF Reachable, ReachableFrom, Closed

LEMMA CellSetsAreFinite == \A S \in SUBSET Cells : IsFiniteSet(S) /\ Cardinality(S) \in Nat
<1>1. IsFiniteSet(Cells)
  BY FS_Interval DEF Cells
<1> QED
  BY <1>1, FS_Subset, FS_CardinalityType

LEMMA NoLockYet ==
  ASSUME TypeOK, Discipline, NEW t \in Mutators, Cardinality(Held(t)) < MaxHeld
  PROVE  Held(t) = {}
<1>1. IsFiniteSet(Held(t)) /\ Cardinality(Held(t)) \in Nat
  BY CellSetsAreFinite DEF Held
<1>2. Cardinality(Held(t)) = 0
  BY <1>1 DEF Discipline
<1> QED
  BY <1>1, <1>2, FS_EmptySet

\* What the users leave alone.
LEMMA UserFrame ==
  ASSUME NEW t \in Mutators, UserStep(t)
  PROVE  UNCHANGED <<gcPc, paintBlack, cursor, limit, inHand, visitStack, productive, removed>>
BY DEF UserStep, AwaitBlock, NoRoom, Malloc, MayMalloc, GetRead, GetWrite, GrantWrite, UserVisit, VisitObj, Unlock,
       StoreRef, DropRef, Root, Deroot,
       gcVars, markVars, scanVars

LEMMA MallocStep ==
  ASSUME Discipline, SInv, NEW t \in Mutators, NEW o \in Cells, NEW hold \in BOOLEAN, Malloc(t, o, hold)
  PROVE  Safe'
<1>1. TypeOK /\ status[o] = "free" /\ rtLen[o] = 0 /\ refs[o] = {} /\ WriteFree(o)
  <2>1. status[o] = "free" /\ WriteFree(o)
    BY FreeCellsAreFree DEF Malloc, MayMalloc, SInv, VInv
  <2> QED
    BY <2>1 DEF SInv, VInv, Safe, HeapIsTidy
<1>2. /\ \A x \in Cells : /\ status'[x] = IF x = o THEN "newly" ELSE status[x]
                          /\ rtLen'[x] = IF x = o THEN 0 ELSE rtLen[x]
                          /\ refs'[x] = IF x = o THEN {} ELSE refs[x]
                          /\ writer'[x] = IF x = o THEN (IF hold THEN t ELSE Nobody) ELSE writer[x]
      /\ \A s \in Mutators : fresh'[s] = IF s = t /\ (hold \/ Held(t) # {})
                                           THEN fresh[s] \cup {o} ELSE fresh[s]
      /\ visiting[t] = {}
  BY <1>1 DEF Malloc, MayMalloc, TypeOK, Discipline
<1>3. UNCHANGED <<roots, readers, visiting, gcPc, paintBlack, cursor, limit, inProgress, inHand,
                  visitStack, productive, removed>>
  BY DEF Malloc, MayMalloc, gcVars, markVars, scanVars
<1>4. hold => Held(t) = {}
  BY <1>1, NoLockYet DEF Malloc
<1>5. \A s \in Mutators : Held(s)' = IF s = t /\ hold THEN Held(s) \cup {o} ELSE Held(s)
  BY <1>1, <1>2, <1>3 DEF Held, WriteFree
<1>6. /\ \A x \in Cells : x \in Black' <=> x \in Black \/ x = o
      /\ Grey' = Grey /\ Todo' = Todo
      /\ Black \subseteq Cells /\ Black' \subseteq Cells
  BY <1>1, <1>2, <1>3 DEF Black, Grey, Todo
<1>7. Reachable' \subseteq Reachable /\ o \notin Reachable /\ Reachable \subseteq Cells
  <2>1. o \notin Reachable
    BY <1>1 DEF SInv, Safe, ReachableAreAllocated, Allocated
  <2> QED
    BY <2>1, <1>1, <1>2, <1>3, ReachableIsClosed, NextReachableIsLeast
<1>8. HeapIsTidy'
  BY <1>1, <1>2, <1>3 DEF HeapIsTidy, SInv, Safe, WriteFree
<1>9. UsersAreTidy'
  <2> SUFFICES ASSUME NEW s \in Mutators PROVE UserIsTidy(s)'
    BY DEF UsersAreTidy
  <2>1. UserIsTidy(s)
    BY DEF UsersAreTidy, SInv, Safe
  <2>2. fresh[s] \subseteq Cells /\ visiting[s] \subseteq Cells /\ Nobody \notin Mutators
    BY <1>1 DEF TypeOK
  <2>3. visiting[s] # {} => s # t /\ fresh[s] = {} /\ o \notin visiting[s]
    BY <1>1, <1>2, <2>1, <2>2 DEF UserIsTidy, WriteFree
  <2>4. /\ visiting'[s] # {} => fresh'[s] = {}
        /\ \A x \in visiting'[s] : writer'[x] = s
    BY <1>2, <1>3, <2>1, <2>2, <2>3 DEF UserIsTidy
  <2>5. \A x \in visiting'[s] : paintBlack' \/ (gcPc' = "filter" /\ cursor' <= x /\ x < limit')
    BY <1>3, <2>1 DEF UserIsTidy
  <2>6. fresh'[s] # {} => Held(s)' # {}
    BY <1>2, <1>5, <2>1 DEF UserIsTidy
  <2>7. \A x \in fresh'[s] : rtLen'[x] = 0 /\ (writer'[x] = s => status'[x] = "newly")
    <3> SUFFICES ASSUME NEW x \in fresh'[s] PROVE rtLen'[x] = 0 /\ (writer'[x] = s => status'[x] = "newly")
      OBVIOUS
    <3>1. x = o \/ x \in fresh[s]
      BY <1>2
    <3>2. x \in Cells
      BY <3>1, <2>2
    <3> QED
      BY <1>2, <2>1, <3>1, <3>2 DEF UserIsTidy
  <2>8. \A x, h \in Held(s)' : x = h
    BY <1>4, <1>5, <2>1 DEF UserIsTidy
  <2> QED
    BY <2>4, <2>5, <2>6, <2>7, <2>8 DEF UserIsTidy
<1>10. CollectorIsTidy'
  BY <1>1, <1>2, <1>3 DEF CollectorIsTidy, SInv, Safe, Painting, Sweeping, TypeOK
<1>11. WalksAreTrue'
  BY <1>1, <1>2, <1>3 DEF WalksAreTrue, SInv, Safe
<1>12. FreshIsSafe'
  <2> SUFFICES ASSUME NEW s \in Mutators, NEW u \in fresh'[s], NEW h \in Cells, writer'[h] = s, rtLen'[h] # 0
               PROVE  /\ status'[u] # "free"
                      /\ Painting \/ Sweeping => u \in Black' \/ h \notin Black'
    BY <1>3 DEF FreshIsSafe, Painting, Sweeping
  <2>1. h # o /\ writer[h] = s /\ rtLen[h] # 0
    BY <1>2
  <2>2. CASE u = o
    BY <2>2, <1>2, <1>6
  <2>3. CASE u # o
    <3>1. u \in fresh[s] /\ u \in Cells
      <4>1. fresh'[s] \subseteq fresh[s] \cup {o}
        BY <1>2
      <4> QED
        BY <4>1, <2>3, <1>1 DEF TypeOK
    <3>2. /\ status[u] # "free"
          /\ Painting \/ Sweeping => u \in Black \/ h \notin Black
      BY <2>1, <3>1 DEF FreshIsSafe, SInv, Safe
    <3>3. status'[u] = status[u] /\ (u \in Black' <=> u \in Black) /\ (h \in Black' <=> h \in Black)
      BY <2>1, <2>3, <3>1, <1>2, <1>6
    <3> QED
      BY <3>2, <3>3
  <2> QED
    BY <2>2, <2>3
<1>13. NothingLost'
  <2> SUFFICES ASSUME Painting, NEW S \in SUBSET Cells, CoversTodo(S)'
               PROVE  Reachable' \subseteq Black' \cup S
    BY <1>3 DEF NothingLost, Painting
  <2>1. CoversTodo(S)
    BY <1>1, <1>2, <1>6 DEF CoversTodo
  <2>2. Reachable \subseteq Black \cup S
    BY <2>1 DEF NothingLost, SInv, Safe
  <2> QED
    BY <2>2, <1>6, <1>7
<1>14. MarkedWhenDone'
  BY <1>3, <1>6, <1>7 DEF MarkedWhenDone, Done, Sweeping, SInv, Safe
<1>15. EarlyIsStrong'
  <2> SUFFICES ASSUME Unlinks, Painting, NEW s \in Mutators, NEW h \in Cells, Early(s, h)'
               PROVE  NoWhiteBelowBlack'
    BY <1>3 DEF EarlyIsStrong, Painting
  <2>1. Early(s, h)
    BY <1>2, <1>3, <1>6 DEF Early
  <2>2. NoWhiteBelowBlack
    BY <2>1 DEF EarlyIsStrong, SInv, Safe
  <2> QED
    BY <2>2, <1>1, <1>2, <1>3, <1>6 DEF NoWhiteBelowBlack
<1>16. ReachableAreAllocated'
  BY <1>2, <1>7 DEF ReachableAreAllocated, Allocated, SInv, Safe
<1> QED
  BY <1>8, <1>9, <1>10, <1>11, <1>12, <1>13, <1>14, <1>15, <1>16 DEF Safe

\* The heap and the collector stay: only locks and local variables change.
LEMMA SameHeap ==
  ASSUME SInv, UNCHANGED <<status, rtLen, refs, roots, gcVars>>
  PROVE  /\ Black' = Black /\ Todo' = Todo /\ Reachable' = Reachable
         /\ WalksAreTrue' /\ NothingLost' /\ MarkedWhenDone' /\ ReachableAreAllocated'
<1>1. UNCHANGED <<gcPc, cursor, limit, inProgress, inHand, productive, removed>>
  BY DEF gcVars, markVars, scanVars
<1>2. Black' = Black /\ Grey' = Grey /\ Todo' = Todo /\ Reachable' = Reachable
  BY <1>1 DEF Black, Grey, Todo, Reachable, ReachableFrom, Closed
<1>3. \A S : CoversTodo(S)' <=> CoversTodo(S)
  BY <1>2 DEF CoversTodo
<1>4. NothingLost'
  <2> SUFFICES ASSUME Painting, NEW S \in SUBSET Cells, CoversTodo(S)'
               PROVE  Reachable' \subseteq Black' \cup S
    BY <1>1 DEF NothingLost, Painting
  <2> QED
    BY <1>2, <1>3 DEF NothingLost, SInv, Safe
<1>5. WalksAreTrue'
  BY <1>1 DEF WalksAreTrue, SInv, Safe
<1>6. MarkedWhenDone'
  BY <1>1, <1>2 DEF MarkedWhenDone, Done, Sweeping, SInv, Safe
<1>7. ReachableAreAllocated'
  BY <1>2 DEF ReachableAreAllocated, Allocated, SInv, Safe
<1> QED
  BY <1>2, <1>4, <1>5, <1>6, <1>7

LEMMA GetReadStep ==
  ASSUME Discipline, SInv, NEW t \in Mutators, NEW o \in Cells, GetRead(t, o)
  PROVE  Safe'
<1>1. TypeOK /\ Held(t) = {} /\ writer[o] = Nobody /\ status[o] # "free"
  BY NoLockYet DEF GetRead, MayLock, Runs, ReachableAreAllocated, Allocated, SInv, VInv, Safe
<1>2. \A x \in Cells : readers'[x] = IF x = o THEN readers[o] \cup {t} ELSE readers[x]
  BY <1>1 DEF GetRead, TypeOK
<1>3. UNCHANGED <<status, rtLen, refs, roots, writer, visiting, fresh, gcVars>>
  BY DEF GetRead, heapVars, userVars
<1>4. UNCHANGED <<gcPc, paintBlack, cursor, limit, inHand, visitStack, productive, removed>>
  BY <1>3 DEF gcVars, markVars, scanVars
<1>5. \A s \in Mutators : Held(s)' = IF s = t THEN {o} ELSE Held(s)
  BY <1>1, <1>2, <1>3 DEF Held
<1>6. HeapIsTidy'
  BY <1>1, <1>2, <1>3 DEF HeapIsTidy, SInv, Safe
<1>7. UsersAreTidy'
  BY <1>3, <1>4, <1>5 DEF UsersAreTidy, UserIsTidy, SInv, Safe
<1>8. CollectorIsTidy'
  BY <1>3, <1>4 DEF CollectorIsTidy, SInv, Safe, Painting, Sweeping
<1>9. FreshIsSafe'
  BY <1>3, <1>4, SameHeap DEF FreshIsSafe, SInv, Safe, Painting, Sweeping
<1>10. EarlyIsStrong'
  BY <1>3, <1>4, SameHeap DEF EarlyIsStrong, Early, NoWhiteBelowBlack, SInv, Safe, Painting
<1> QED
  BY <1>3, <1>6, <1>7, <1>8, <1>9, <1>10, SameHeap DEF Safe

LEMMA GetWriteStep ==
  ASSUME Discipline, SInv, NEW t \in Mutators, NEW o \in Cells, GetWrite(t, o)
  PROVE  Safe'
<1> DEFINE V == IF paintBlack /\ status[o] # "visited" THEN {o} ELSE {}
<1>1. TypeOK /\ Held(t) = {} /\ WriteFree(o) /\ o \in Reachable
  BY NoLockYet DEF GetWrite, GrantWrite, MayLock, Runs, SInv, VInv
<1>2. /\ \A x \in Cells : writer'[x] = IF x = o THEN t ELSE writer[x]
      /\ \A s \in Mutators : visiting'[s] = IF s = t THEN V ELSE visiting[s]
      /\ visiting[t] = {}
  BY <1>1 DEF GetWrite, GrantWrite, MayLock, Runs, TypeOK
<1>3. UNCHANGED <<status, rtLen, refs, roots, readers, fresh, gcVars>>
  BY DEF GetWrite, GrantWrite, heapVars
<1>4. UNCHANGED <<gcPc, paintBlack, cursor, limit, inHand, visitStack, productive, removed>>
  BY <1>3 DEF gcVars, markVars, scanVars
<1>5. \A s \in Mutators : Held(s)' = IF s = t THEN {o} ELSE Held(s)
  BY <1>1, <1>2, <1>3 DEF Held, WriteFree
<1>6. fresh[t] = {}
  BY <1>1 DEF UsersAreTidy, UserIsTidy, SInv, Safe
<1>7. status[o] # "free" /\ o \notin removed
  <2>1. o \in Allocated
    BY <1>1 DEF ReachableAreAllocated, SInv, Safe
  <2>2. ASSUME o \in removed PROVE FALSE
    <3>1. o \in Black
      BY <1>1, <2>2 DEF CollectorIsTidy, MarkedWhenDone, Done, SInv, Safe
    <3> QED
      BY <2>2, <3>1 DEF Black, CollectorIsTidy, SInv, Safe
  <2> QED
    BY <2>1, <2>2 DEF Allocated
<1>8. HeapIsTidy'
  BY <1>1, <1>2, <1>3, <1>7 DEF HeapIsTidy, WriteFree, SInv, Safe
<1>9. UsersAreTidy'
  <2> SUFFICES ASSUME NEW s \in Mutators PROVE UserIsTidy(s)'
    BY DEF UsersAreTidy
  <2>1. UserIsTidy(s)
    BY DEF UsersAreTidy, SInv, Safe
  <2>2. CASE s = t
    BY <2>2, <1>2, <1>3, <1>4, <1>5, <1>6 DEF UserIsTidy
  <2>3. CASE s # t
    <3>1. Held(s)' = Held(s) /\ visiting'[s] = visiting[s] /\ fresh'[s] = fresh[s]
      BY <2>3, <1>2, <1>3, <1>5
    <3>2. \A x \in Cells : writer'[x] = s <=> writer[x] = s
      BY <2>3, <1>1, <1>2 DEF WriteFree
    <3>3. visiting[s] \subseteq Cells /\ fresh[s] \subseteq Cells
      BY <1>1 DEF TypeOK
    <3> QED
      BY <2>1, <3>1, <3>2, <3>3, <1>3, <1>4 DEF UserIsTidy
  <2> QED
    BY <2>2, <2>3
<1>10. CollectorIsTidy'
  BY <1>1, <1>2, <1>3, <1>4, <1>7 DEF CollectorIsTidy, SInv, Safe, Painting, Sweeping, TypeOK
<1>11. FreshIsSafe'
  <2> SUFFICES ASSUME NEW s \in Mutators, NEW u \in fresh[s], NEW h \in Cells, writer'[h] = s, rtLen[h] # 0
               PROVE  /\ status[u] # "free"
                      /\ Painting \/ Sweeping => u \in Black \/ h \notin Black
    BY <1>3, <1>4, SameHeap DEF FreshIsSafe, Painting, Sweeping
  <2>1. writer[h] = s
    BY <1>2, <1>6
  <2> QED
    BY <2>1 DEF FreshIsSafe, SInv, Safe
<1>12. EarlyIsStrong'
  <2> SUFFICES ASSUME Unlinks, Painting, NEW s \in Mutators, NEW h \in Cells, Early(s, h)'
               PROVE  NoWhiteBelowBlack
    BY <1>3, <1>4, SameHeap DEF EarlyIsStrong, NoWhiteBelowBlack, Painting
  <2>1. h \notin Black /\ writer'[h] = s /\ visiting'[s] = {}
    BY <1>3, SameHeap DEF Early
  <2>2. ASSUME h = o PROVE FALSE
    <3>1. s = t
      BY <2>1, <2>2, <1>2
    <3>2. paintBlack
      BY DEF CollectorIsTidy, SInv, Safe
    <3>3. status[o] = "visited"
      BY <2>1, <3>1, <3>2, <1>2
    <3> QED
      BY <2>1, <2>2, <3>3 DEF Black
  <2>3. writer[h] = s
    BY <2>1, <2>2, <1>2
  <2>4. s # t
    BY <2>3, <1>1 DEF Held
  <2> QED
    BY <2>1, <2>3, <2>4, <1>2 DEF Early, EarlyIsStrong, SInv, Safe
<1> QED
  BY <1>3, <1>8, <1>9, <1>10, <1>11, <1>12, SameHeap DEF Safe

LEMMA UnlockStep ==
  ASSUME SInv, NEW t \in Mutators, NEW o \in Cells, Unlock(t, o)
  PROVE  Safe'
<1>1. TypeOK /\ o \in Held(t) /\ visiting[t] = {} /\ Nobody \notin Mutators
  BY DEF Unlock, Runs, SInv, VInv
<1>2. /\ \A x \in Cells : /\ writer'[x] = IF x = o THEN Nobody ELSE writer[x]
                          /\ readers'[x] = IF x = o THEN readers[x] \ {t} ELSE readers[x]
      /\ \A s \in Mutators : fresh'[s] = IF s = t THEN {} ELSE fresh[s]
  BY <1>1 DEF Unlock, TypeOK
<1>3. UNCHANGED <<status, rtLen, refs, roots, visiting, gcVars>>
  BY DEF Unlock, heapVars
<1>4. UNCHANGED <<gcPc, paintBlack, cursor, limit, inHand, visitStack, productive, removed>>
  BY <1>3 DEF gcVars, markVars, scanVars
<1>5. \A s \in Mutators : s # t => writer[o] # s
  BY <1>1 DEF Held, HeapIsTidy, SInv, Safe, TypeOK
<1>6. \A s \in Mutators : s # t => Held(s)' = Held(s)
  BY <1>1, <1>2, <1>5 DEF Held
<1>7. Held(t)' \subseteq Held(t)
  BY <1>1, <1>2 DEF Held
<1>8. HeapIsTidy'
  BY <1>2, <1>3 DEF HeapIsTidy, SInv, Safe
<1>9. UsersAreTidy'
  <2> SUFFICES ASSUME NEW s \in Mutators PROVE UserIsTidy(s)'
    BY DEF UsersAreTidy
  <2>1. UserIsTidy(s)
    BY DEF UsersAreTidy, SInv, Safe
  <2>2. CASE s = t
    BY <2>1, <2>2, <1>1, <1>2, <1>3, <1>7 DEF UserIsTidy
  <2>3. CASE s # t
    <3>1. Held(s)' = Held(s) /\ visiting'[s] = visiting[s] /\ fresh'[s] = fresh[s]
      BY <2>3, <1>2, <1>3, <1>6
    <3>2. \A x \in Cells : writer'[x] = s <=> writer[x] = s
      BY <2>3, <1>1, <1>2, <1>5
    <3>3. visiting[s] \subseteq Cells /\ fresh[s] \subseteq Cells
      BY <1>1 DEF TypeOK
    <3> QED
      BY <2>1, <3>1, <3>2, <3>3, <1>3, <1>4 DEF UserIsTidy
  <2> QED
    BY <2>2, <2>3
<1>10. CollectorIsTidy'
  BY <1>1, <1>2, <1>3, <1>4 DEF CollectorIsTidy, SInv, Safe, Painting, Sweeping, TypeOK
<1>11. FreshIsSafe'
  <2> SUFFICES ASSUME NEW s \in Mutators, NEW u \in fresh'[s], NEW h \in Cells, writer'[h] = s, rtLen[h] # 0
               PROVE  /\ status[u] # "free"
                      /\ Painting \/ Sweeping => u \in Black \/ h \notin Black
    BY <1>3, <1>4, SameHeap DEF FreshIsSafe, Painting, Sweeping
  <2>1. u \in fresh[s] /\ writer[h] = s
    BY <1>1, <1>2
  <2> QED
    BY <2>1 DEF FreshIsSafe, SInv, Safe
<1>12. EarlyIsStrong'
  <2> SUFFICES ASSUME Unlinks, Painting, NEW s \in Mutators, NEW h \in Cells, Early(s, h)'
               PROVE  NoWhiteBelowBlack
    BY <1>3, <1>4, SameHeap DEF EarlyIsStrong, NoWhiteBelowBlack, Painting
  <2>1. Early(s, h)
    BY <1>1, <1>2, <1>3, SameHeap DEF Early
  <2> QED
    BY <2>1 DEF EarlyIsStrong, SInv, Safe
<1> QED
  BY <1>3, <1>8, <1>9, <1>10, <1>11, <1>12, SameHeap DEF Safe

\* cs_visit_obj on an object that is on its way to black: the step of a mutator
\* and of the collector keeps every cover.
LEMMA VisitKeepsCovers ==
  ASSUME TypeOK, NothingLost, NEW o \in Cells, VisitObj(o), inHand \subseteq inHand' \cup {o},
         UNCHANGED <<refs, roots, gcPc>>
  PROVE  NothingLost' /\ Reachable' = Reachable /\ \A x \in Cells : x \in Black' <=> x \in Black \/ x = o
<1>1. \A x \in Cells : status'[x] = IF x = o THEN "visited" ELSE status[x]
  BY DEF VisitObj, TypeOK
<1>2. \A x \in Cells : x \in Black' <=> x \in Black \/ x = o
  BY <1>1 DEF Black
<1>3. Reachable' = Reachable
  BY DEF Reachable, ReachableFrom, Closed
<1>4. Todo \subseteq Todo' \cup {o} /\ refs[o] \subseteq Todo'
  BY <1>1 DEF Todo, Grey, VisitObj
<1>5. ASSUME Painting, NEW S \in SUBSET Cells, CoversTodo(S)'
      PROVE  Reachable' \subseteq Black' \cup S
  <2>1. CoversTodo(S \cup {o})
    BY <1>2, <1>4, <1>5 DEF CoversTodo
  <2>2. Reachable \subseteq Black \cup S \cup {o}
    BY <1>5, <2>1 DEF NothingLost
  <2> QED
    BY <2>2, <1>2, <1>3 DEF Black
<1> QED
  BY <1>2, <1>3, <1>5 DEF NothingLost, Painting

LEMMA UserVisitStep ==
  ASSUME Discipline, SInv, NEW t \in Mutators, NEW o \in Cells, UserVisit(t, o)
  PROVE  Safe'
<1>1. /\ TypeOK /\ o \in visiting[t] /\ writer[o] = t /\ fresh[t] = {} /\ Nobody \notin Mutators
      /\ status[o] # "free" /\ o \notin removed
      /\ paintBlack \/ (gcPc = "filter" /\ cursor <= o /\ o < limit)
  <2>1. /\ TypeOK /\ o \in visiting[t] /\ writer[o] = t /\ fresh[t] = {} /\ Nobody \notin Mutators
        /\ paintBlack \/ (gcPc = "filter" /\ cursor <= o /\ o < limit)
    BY DEF UserVisit, SInv, VInv, Safe, UsersAreTidy, UserIsTidy
  <2> QED
    BY <2>1 DEF SInv, Safe, HeapIsTidy, CollectorIsTidy
<1>2. /\ \A x \in Cells : status'[x] = IF x = o THEN "visited" ELSE status[x]
      /\ \A s \in Mutators : visiting'[s] = IF s = t THEN {} ELSE visiting[s]
  BY <1>1 DEF UserVisit, VisitObj, TypeOK
<1>3. /\ UNCHANGED <<rtLen, refs, roots, writer, readers, fresh>>
      /\ UNCHANGED <<gcPc, paintBlack, cursor, limit, inHand, visitStack, productive, removed>>
  BY DEF UserVisit, lockVars, scanVars
<1>4. NothingLost' /\ Reachable' = Reachable /\ \A x \in Cells : x \in Black' <=> x \in Black \/ x = o
  BY <1>1, <1>3, VisitKeepsCovers DEF UserVisit, SInv, Safe
<1>5. HeapIsTidy'
  BY <1>1, <1>2, <1>3 DEF HeapIsTidy, SInv, Safe
<1>6. UsersAreTidy'
  <2> SUFFICES ASSUME NEW s \in Mutators PROVE UserIsTidy(s)'
    BY DEF UsersAreTidy
  <2>1. UserIsTidy(s)
    BY DEF UsersAreTidy, SInv, Safe
  <2>2. Held(s)' = Held(s)
    BY <1>3 DEF Held
  <2>3. fresh[s] \subseteq Cells
    BY <1>1 DEF TypeOK
  <2>4. CASE s = t
    BY <2>1, <2>2, <2>4, <1>1, <1>2, <1>3 DEF UserIsTidy
  <2>5. CASE s # t
    BY <2>1, <2>2, <2>3, <2>5, <1>1, <1>2, <1>3 DEF UserIsTidy
  <2> QED
    BY <2>4, <2>5
<1>7. CollectorIsTidy'
  BY <1>1, <1>2, <1>3 DEF CollectorIsTidy, SInv, Safe, Painting, Sweeping, TypeOK
<1>8. WalksAreTrue'
  <2>1. gcPc # "white"
    BY <1>1 DEF CollectorIsTidy, SInv, Safe, Painting
  <2> QED
    BY <2>1, <1>2, <1>3 DEF WalksAreTrue, SInv, Safe
<1>9. FreshIsSafe'
  <2> SUFFICES ASSUME NEW s \in Mutators, NEW u \in fresh[s], NEW h \in Cells, writer[h] = s, rtLen[h] # 0
               PROVE  /\ status'[u] # "free"
                      /\ Painting \/ Sweeping => u \in Black' \/ h \notin Black'
    BY <1>3 DEF FreshIsSafe, Painting, Sweeping
  <2>1. h # o /\ u \in Cells
    BY <1>1 DEF TypeOK
  <2>2. /\ status[u] # "free"
        /\ Painting \/ Sweeping => u \in Black \/ h \notin Black
    BY DEF FreshIsSafe, SInv, Safe
  <2> QED
    BY <2>1, <2>2, <1>2, <1>4
<1>10. MarkedWhenDone'
  BY <1>3, <1>4, ReachableIsClosed, <1>1 DEF MarkedWhenDone, Done, Sweeping, SInv, Safe
<1>11. EarlyIsStrong'
  <2> SUFFICES ASSUME Unlinks, NEW s \in Mutators, NEW h \in Cells, Early(s, h)'
               PROVE  FALSE
    BY DEF EarlyIsStrong
  <2>1. s = t
    BY DEF Discipline
  <2>2. h \in Held(t) /\ o \in Held(t)
    BY <2>1, <1>1, <1>3 DEF Early, Held
  <2>3. h = o
    BY <2>2 DEF UsersAreTidy, UserIsTidy, SInv, Safe
  <2> QED
    BY <2>3, <1>4 DEF Early
<1>12. ReachableAreAllocated'
  BY <1>2, <1>4 DEF ReachableAreAllocated, Allocated, SInv, Safe
<1> QED
  BY <1>4, <1>5, <1>6, <1>7, <1>8, <1>9, <1>10, <1>11, <1>12 DEF Safe

\* Locks, local variables and the collector stay: only references and roots change.
LEMMA OnlyEdgesChange ==
  ASSUME SInv, UNCHANGED <<status, rtLen, lockVars, userVars, gcVars>>
  PROVE  /\ UNCHANGED <<gcPc, writer, visiting>> /\ Black' = Black /\ Grey' = Grey
         /\ UsersAreTidy' /\ CollectorIsTidy' /\ WalksAreTrue' /\ FreshIsSafe'
<1>1. /\ UNCHANGED <<gcPc, paintBlack, cursor, limit, inProgress, inHand, visitStack, productive, removed>>
      /\ UNCHANGED <<writer, readers, visiting, fresh>>
  BY DEF gcVars, markVars, scanVars, lockVars, userVars
<1>2. Black' = Black /\ Grey' = Grey
  BY <1>1 DEF Black, Grey
<1>3. UsersAreTidy'
  BY <1>1 DEF UsersAreTidy, UserIsTidy, Held, SInv, Safe
<1>4. CollectorIsTidy'
  BY <1>1 DEF CollectorIsTidy, Painting, Sweeping, SInv, Safe
<1>5. WalksAreTrue'
  BY <1>1 DEF WalksAreTrue, SInv, Safe
<1>6. FreshIsSafe'
  BY <1>1, <1>2 DEF FreshIsSafe, Painting, Sweeping, SInv, Safe
<1> QED
  BY <1>1, <1>2, <1>3, <1>4, <1>5, <1>6

\* A mutator that holds a lock granted before paint black holds no other.
LEMMA OneEarlyLock ==
  ASSUME Discipline, SInv, Unlinks, NEW t \in Mutators, NEW s \in Mutators,
         NEW o \in Cells, writer[o] = t, NEW h \in Cells, Early(s, h)
  PROVE  s = t /\ h = o
<1>1. s = t
  BY DEF Discipline
<1>2. o \in Held(t) /\ h \in Held(t)
  BY <1>1 DEF Held, Early
<1> QED
  BY <1>1, <1>2 DEF UsersAreTidy, UserIsTidy, SInv, Safe

LEMMA StoreRefStep ==
  ASSUME Discipline, SInv, NEW t \in Mutators, NEW o \in Cells, NEW u \in Cells, StoreRef(t, o, u)
  PROVE  Safe'
<1>1. /\ TypeOK /\ writer[o] = t /\ visiting[t] = {} /\ u \in Reachable \cup fresh[t]
      /\ UNCHANGED <<status, rtLen, roots, lockVars, userVars, gcVars>>
  BY DEF StoreRef, Runs, SInv, VInv
<1>2. \A x \in Cells : refs'[x] = IF x = o THEN refs[o] \cup {u} ELSE refs[x]
  BY <1>1 DEF StoreRef, TypeOK
<1>3. rtLen[o] # 0
  <2>1. rtLen[o] \in Nat /\ Cardinality(refs[o]) \in Nat
    BY <1>1, CellSetsAreFinite DEF TypeOK
  <2> QED
    BY <2>1 DEF StoreRef
<1>4. u \notin Reachable => /\ u \in fresh[t] /\ u # o /\ refs'[u] = {} /\ status[u] # "free"
                            /\ Painting \/ Sweeping => u \in Black \/ o \notin Black
  <2> SUFFICES ASSUME u \notin Reachable
               PROVE  /\ u \in fresh[t] /\ u # o /\ refs'[u] = {} /\ status[u] # "free"
                      /\ Painting \/ Sweeping => u \in Black \/ o \notin Black
    OBVIOUS
  <2>1. u \in fresh[t]
    BY <1>1
  <2>2. rtLen[u] = 0
    BY <2>1 DEF UsersAreTidy, UserIsTidy, SInv, Safe
  <2>3. refs[u] = {}
    BY <2>2 DEF HeapIsTidy, SInv, Safe
  <2> QED
    BY <2>1, <2>2, <2>3, <1>1, <1>2, <1>3 DEF FreshIsSafe, SInv, Safe
<1>5. /\ Reachable \subseteq Cells /\ roots \subseteq Reachable
      /\ \A x \in Reachable : refs[x] \subseteq Reachable
  BY <1>1, ReachableIsClosed
<1>6. o \notin Reachable \/ u \in Reachable => Reachable' \subseteq Reachable
  <2> SUFFICES ASSUME o \notin Reachable \/ u \in Reachable
               PROVE  \A x \in Reachable : refs'[x] \subseteq Reachable
    BY <1>1, <1>5, NextReachableIsLeast
  <2> QED
    BY <1>2, <1>5
<1>7. Reachable' \subseteq Reachable \cup {u}
  <2>1. CASE u \in Reachable
    BY <2>1, <1>6
  <2>2. CASE u \notin Reachable
    <3>1. \A x \in Reachable \cup {u} : refs'[x] \subseteq Reachable \cup {u}
      BY <2>2, <1>2, <1>4, <1>5
    <3> QED
      BY <3>1, <1>1, <1>5, NextReachableIsLeast
  <2> QED
    BY <2>1, <2>2
<1>8. UNCHANGED <<gcPc, writer, visiting>> /\ Black' = Black /\ Grey' = Grey /\ Todo' = Todo
  BY <1>1, OnlyEdgesChange DEF Todo
<1>9. HeapIsTidy'
  BY <1>1, <1>2, <1>3 DEF HeapIsTidy, lockVars, SInv, Safe
<1>10. NothingLost'
  <2> SUFFICES ASSUME Painting, NEW S \in SUBSET Cells, CoversTodo(S)'
               PROVE  Reachable' \subseteq Black \cup S
    BY <1>8 DEF NothingLost, Painting
  <2>1. CoversTodo(S)
    BY <1>2, <1>8 DEF CoversTodo
  <2>2. Reachable \subseteq Black \cup S
    BY <2>1 DEF NothingLost, SInv, Safe
  <2>3. CASE o \notin Reachable \/ u \in Reachable
    BY <2>2, <2>3, <1>6
  <2>4. CASE o \in Reachable /\ u \notin Reachable
    <3>1. o \notin Black => u \in S
      BY <2>2, <2>4, <1>2, <1>8 DEF CoversTodo
    <3> QED
      BY <2>2, <2>4, <3>1, <1>4, <1>7
  <2> QED
    BY <2>3, <2>4
<1>11. MarkedWhenDone'
  <2> SUFFICES ASSUME Done PROVE Reachable' \subseteq Black
    BY <1>1, <1>8 DEF MarkedWhenDone, Done, Sweeping, gcVars, markVars
  <2>1. Reachable \subseteq Black /\ (Painting \/ Sweeping)
    BY DEF MarkedWhenDone, Done, Painting, SInv, Safe
  <2> QED
    BY <2>1, <1>4, <1>6, <1>7
<1>12. EarlyIsStrong'
  <2> SUFFICES ASSUME Unlinks, Painting, NEW s \in Mutators, NEW h \in Cells, Early(s, h)'
               PROVE  NoWhiteBelowBlack'
    BY <1>8 DEF EarlyIsStrong, Painting
  <2>1. Early(s, h)
    BY <1>8 DEF Early
  <2>2. h = o /\ o \notin Black
    BY <2>1, <1>1, OneEarlyLock DEF Early
  <2>3. NoWhiteBelowBlack
    BY <2>1 DEF EarlyIsStrong, SInv, Safe
  <2>4. \A v \in Black : refs'[v] = refs[v]
    BY <2>2, <1>2 DEF Black
  <2> QED
    BY <2>3, <2>4, <1>1, <1>8 DEF NoWhiteBelowBlack
<1>13. ReachableAreAllocated'
  <2>1. \A x \in Reachable : status[x] # "free"
    BY DEF ReachableAreAllocated, Allocated, SInv, Safe
  <2> QED
    BY <2>1, <1>1, <1>4, <1>5, <1>7 DEF ReachableAreAllocated, Allocated
<1> QED
  BY <1>1, <1>9, <1>10, <1>11, <1>12, <1>13, OnlyEdgesChange DEF Safe

LEMMA DropRefStep ==
  ASSUME Discipline, SInv, NEW t \in Mutators, NEW o \in Cells, NEW u \in Cells, DropRef(t, o, u)
  PROVE  Safe'
<1>1. /\ TypeOK /\ writer[o] = t /\ visiting[t] = {} /\ Unlinks
      /\ UNCHANGED <<status, rtLen, roots, lockVars, userVars, gcVars>>
  BY DEF DropRef, Runs, SInv, VInv
<1>2. \A x \in Cells : refs'[x] = IF x = o THEN refs[o] \ {u} ELSE refs[x]
  BY <1>1 DEF DropRef, TypeOK
<1>3. UNCHANGED <<gcPc, writer, visiting>> /\ Black' = Black /\ Grey' = Grey /\ Todo' = Todo
  BY <1>1, OnlyEdgesChange DEF Todo
<1>4. Reachable' \subseteq Reachable
  BY <1>1, <1>2, ReachableIsClosed, NextReachableIsLeast
<1>5. HeapIsTidy'
  BY <1>1, <1>2 DEF HeapIsTidy, lockVars, SInv, Safe
<1>6. NothingLost'
  <2> SUFFICES ASSUME Painting, NEW S \in SUBSET Cells, CoversTodo(S)'
               PROVE  Reachable' \subseteq Black \cup S
    BY <1>3 DEF NothingLost, Painting
  <2>1. CASE o \in Black
    <3>1. CoversTodo(S)
      BY <2>1, <1>2, <1>3 DEF CoversTodo
    <3>2. Reachable \subseteq Black \cup S
      BY <3>1 DEF NothingLost, SInv, Safe
    <3> QED
      BY <3>2, <1>4
  <2>2. CASE o \notin Black
    <3>1. Early(t, o)
      BY <2>2, <1>1 DEF Early
    <3>2. NoWhiteBelowBlack
      BY <3>1, <1>1 DEF EarlyIsStrong, SInv, Safe
    <3>3. Todo \subseteq S /\ \A x \in S \ Black : refs'[x] \subseteq S
      BY <1>3 DEF CoversTodo
    <3>4. \A x \in Black : refs'[x] \subseteq Black \cup S
      BY <2>2, <3>2, <3>3, <1>2 DEF NoWhiteBelowBlack, Black
    <3>5. roots' \subseteq Black \cup S /\ Black \cup S \in SUBSET Cells
      BY <3>2, <3>3, <1>1 DEF NoWhiteBelowBlack, Black
    <3> QED
      BY <3>3, <3>4, <3>5, NextReachableIsLeast
  <2> QED
    BY <2>1, <2>2
<1>7. MarkedWhenDone'
  BY <1>1, <1>3, <1>4 DEF MarkedWhenDone, Done, Sweeping, gcVars, markVars, SInv, Safe
<1>8. EarlyIsStrong'
  <2> SUFFICES ASSUME Unlinks, Painting, NEW s \in Mutators, NEW h \in Cells, Early(s, h)'
               PROVE  NoWhiteBelowBlack'
    BY <1>3 DEF EarlyIsStrong, Painting
  <2>1. Early(s, h)
    BY <1>3 DEF Early
  <2>2. NoWhiteBelowBlack
    BY <2>1 DEF EarlyIsStrong, SInv, Safe
  <2>3. \A v \in Black : refs'[v] \subseteq refs[v]
    BY <1>2 DEF Black
  <2> QED
    BY <2>2, <2>3, <1>1, <1>3 DEF NoWhiteBelowBlack
<1>9. ReachableAreAllocated'
  BY <1>1, <1>4 DEF ReachableAreAllocated, Allocated, SInv, Safe
<1> QED
  BY <1>1, <1>5, <1>6, <1>7, <1>8, <1>9, OnlyEdgesChange DEF Safe

LEMMA RootStep ==
  ASSUME Discipline, SInv, NEW t \in Mutators, NEW o \in Cells, Root(t, o)
  PROVE  Safe'
<1>1. /\ TypeOK /\ gcPc # "push" /\ roots' = roots \cup {o}
      /\ UNCHANGED <<status, rtLen, refs, lockVars, userVars, gcVars>>
  BY DEF Root, Runs, SInv, VInv
<1>2. UNCHANGED <<gcPc, writer, visiting>> /\ Black' = Black /\ Grey' = Grey /\ Todo' = Todo
  BY <1>1, OnlyEdgesChange DEF Todo
<1>3. o \notin Reachable => o \in Black /\ refs[o] = {}
  <2> SUFFICES ASSUME o \notin Reachable PROVE o \in Black /\ refs[o] = {}
    OBVIOUS
  <2>1. o \in fresh[t] /\ writer[o] = t
    BY DEF Root
  <2>2. rtLen[o] = 0 /\ status[o] = "newly"
    BY <2>1 DEF UsersAreTidy, UserIsTidy, SInv, Safe
  <2> QED
    BY <2>2 DEF HeapIsTidy, Black, SInv, Safe
<1>4. Reachable' \subseteq Reachable \cup {o} /\ (o \in Reachable => Reachable' \subseteq Reachable)
  <2>1. /\ Reachable \subseteq Cells /\ roots \subseteq Reachable
        /\ \A x \in Reachable : refs[x] \subseteq Reachable
    BY <1>1, ReachableIsClosed
  <2>2. \A x \in Reachable \cup {o} : refs'[x] \subseteq Reachable \cup {o}
    BY <2>1, <1>1, <1>3
  <2>3. Reachable \cup {o} \in SUBSET Cells /\ roots' \subseteq Reachable \cup {o}
    BY <2>1, <1>1
  <2>4. Reachable' \subseteq Reachable \cup {o}
    BY <2>2, <2>3, NextReachableIsLeast
  <2>5. o \in Reachable => Reachable \cup {o} = Reachable
    OBVIOUS
  <2> QED
    BY <2>4, <2>5
<1>5. Reachable' \subseteq Reachable \cup Black
  BY <1>3, <1>4
<1>6. HeapIsTidy'
  BY <1>1 DEF HeapIsTidy, lockVars, SInv, Safe
<1>7. NothingLost'
  <2> SUFFICES ASSUME Painting, NEW S \in SUBSET Cells, CoversTodo(S)'
               PROVE  Reachable' \subseteq Black \cup S
    BY <1>2 DEF NothingLost, Painting
  <2>1. CoversTodo(S)
    BY <1>1, <1>2 DEF CoversTodo
  <2>2. Reachable \subseteq Black \cup S
    BY <2>1 DEF NothingLost, SInv, Safe
  <2> QED
    BY <2>2, <1>5
<1>8. MarkedWhenDone'
  BY <1>1, <1>2, <1>5 DEF MarkedWhenDone, Done, Sweeping, gcVars, markVars, SInv, Safe
<1>9. EarlyIsStrong'
  <2> SUFFICES ASSUME Unlinks, Painting, NEW s \in Mutators, NEW h \in Cells, Early(s, h)'
               PROVE  NoWhiteBelowBlack'
    BY <1>2 DEF EarlyIsStrong, Painting
  <2>1. Early(s, h)
    BY <1>2 DEF Early
  <2>2. NoWhiteBelowBlack
    BY <2>1 DEF EarlyIsStrong, SInv, Safe
  <2>3. h \in Held(t)
    BY <2>1 DEF Discipline, Early, Held
  <2>4. o \in fresh[t] /\ writer[o] = t
    BY <2>3 DEF Discipline, Root
  <2>5. o \in Black
    BY <2>4 DEF UsersAreTidy, UserIsTidy, Black, SInv, Safe
  <2> QED
    BY <2>2, <2>5, <1>1, <1>2 DEF NoWhiteBelowBlack
<1>10. ReachableAreAllocated'
  BY <1>1, <1>5 DEF ReachableAreAllocated, Allocated, Black, SInv, Safe
<1> QED
  BY <1>1, <1>6, <1>7, <1>8, <1>9, <1>10, OnlyEdgesChange DEF Safe

LEMMA DerootStep ==
  ASSUME Discipline, SInv, NEW t \in Mutators, NEW o \in Cells, Deroot(t, o)
  PROVE  Safe'
<1>1. /\ TypeOK /\ gcPc # "push" /\ roots' = roots \ {o}
      /\ UNCHANGED <<status, rtLen, refs, lockVars, userVars, gcVars>>
  BY DEF Deroot, Runs, SInv, VInv
<1>2. UNCHANGED <<gcPc, writer, visiting>> /\ Black' = Black /\ Grey' = Grey /\ Todo' = Todo
  BY <1>1, OnlyEdgesChange DEF Todo
<1>3. Reachable' \subseteq Reachable
  BY <1>1, ReachableIsClosed, NextReachableIsLeast
<1>4. HeapIsTidy'
  BY <1>1 DEF HeapIsTidy, lockVars, SInv, Safe
<1>5. NothingLost'
  <2> SUFFICES ASSUME Painting, NEW S \in SUBSET Cells, CoversTodo(S)'
               PROVE  Reachable' \subseteq Black \cup S
    BY <1>2 DEF NothingLost, Painting
  <2>1. CoversTodo(S)
    BY <1>1, <1>2 DEF CoversTodo
  <2> QED
    BY <2>1, <1>3 DEF NothingLost, SInv, Safe
<1>6. MarkedWhenDone'
  BY <1>1, <1>2, <1>3 DEF MarkedWhenDone, Done, Sweeping, gcVars, markVars, SInv, Safe
<1>7. EarlyIsStrong'
  <2> SUFFICES ASSUME Unlinks, Painting, NEW s \in Mutators, NEW h \in Cells, Early(s, h)'
               PROVE  NoWhiteBelowBlack'
    BY <1>2 DEF EarlyIsStrong, Painting
  <2>1. Early(s, h)
    BY <1>2 DEF Early
  <2>2. NoWhiteBelowBlack
    BY <2>1 DEF EarlyIsStrong, SInv, Safe
  <2> QED
    BY <2>2, <1>1, <1>2 DEF NoWhiteBelowBlack
<1>8. ReachableAreAllocated'
  BY <1>1, <1>3 DEF ReachableAreAllocated, Allocated, SInv, Safe
<1> QED
  BY <1>1, <1>4, <1>5, <1>6, <1>7, <1>8, OnlyEdgesChange DEF Safe

\* What the collector leaves alone.
LEMMA CollectorFrame ==
  ASSUME BeginCollection \/ GcStep
  PROVE  /\ UNCHANGED <<roots, bookLen, writer, readers, visiting, fresh>>
         /\ \A t \in Mutators : Held(t)' = Held(t)
<1>1. UNCHANGED <<roots, bookLen, lockVars, userVars>>
  BY DEF BeginCollection, GcStep, PaintWhite, BeginPaintBlack, PushRoots, PopInProgress, Transfer, TransferInHand,
         GcVisit, DrainDone, NextIteration, StartIteration, EndPaintBlack, StartFilter, FilterCell, FilterColours,
         FilterDone, BeginFree, Free, EndFree, EndCollection, heapVars
<1> QED
  BY <1>1 DEF lockVars, userVars, Held

\* The collector changes only objects whose lock it could get.
LEMMA UsersStayTidy ==
  ASSUME SInv, BeginCollection \/ GcStep,
         \A x \in Cells : status'[x] = status[x] \/ WriteFree(x),
         \A x \in Cells : rtLen'[x] \in {rtLen[x], 0},
         \A t \in Mutators : \A x \in visiting[t] :
           paintBlack' \/ (gcPc' = "filter" /\ cursor' <= x /\ x < limit')
  PROVE  UsersAreTidy'
<1>1. TypeOK /\ Nobody \notin Mutators
  BY DEF SInv, VInv
<1> SUFFICES ASSUME NEW t \in Mutators PROVE UserIsTidy(t)'
  BY DEF UsersAreTidy
<1>2. UserIsTidy(t)
  BY DEF UsersAreTidy, SInv, Safe
<1>3. UNCHANGED <<writer, visiting, fresh>> /\ Held(t)' = Held(t)
  BY CollectorFrame
<1>4. fresh[t] \subseteq Cells
  BY <1>1 DEF TypeOK
<1>5. \A x \in fresh[t] : rtLen'[x] = 0 /\ (writer[x] = t => status'[x] = "newly")
  BY <1>1, <1>2, <1>4 DEF UserIsTidy, WriteFree
<1> QED
  BY <1>2, <1>3, <1>5 DEF UserIsTidy

LEMMA NobodyVisits ==
  ASSUME SInv, ~Painting, gcPc \notin {"filter", "exit"}
  PROVE  ~paintBlack /\ \A t \in Mutators : visiting[t] = {}
BY DEF UsersAreTidy, UserIsTidy, CollectorIsTidy, SInv, Safe

LEMMA SameReachable ==
  ASSUME UNCHANGED <<refs, roots>>
  PROVE  Reachable' = Reachable
BY DEF Reachable, ReachableFrom, Closed

LEMMA BeginCollectionStep ==
  ASSUME SInv, BeginCollection
  PROVE  Safe'
<1>1. TypeOK /\ gcPc = "idle" /\ gcPc' = "white" /\ cursor' = 0 /\ limit' = bookLen
  BY DEF BeginCollection, SInv, VInv
<1>2. /\ UNCHANGED <<status, rtLen, refs, roots, writer, readers, fresh>>
      /\ UNCHANGED <<paintBlack, inHand, visitStack, productive, removed>>
  BY DEF BeginCollection, heapVars, lockVars, userVars, markVars
<1>3. ~paintBlack /\ \A t \in Mutators : visiting[t] = {}
  BY <1>1, NobodyVisits DEF Painting
<1>4. HeapIsTidy'
  BY <1>2 DEF HeapIsTidy, SInv, Safe
<1>5. UsersAreTidy'
  BY <1>2, <1>3, UsersStayTidy
<1>6. CollectorIsTidy'
  BY <1>1, <1>2 DEF CollectorIsTidy, Painting, Sweeping, SInv, Safe
<1>7. WalksAreTrue'
  <2> SUFFICES ASSUME NEW o \in Cells, rtLen[o] # 0
               PROVE  0 <= o /\ o < bookLen
    BY <1>1, <1>2 DEF WalksAreTrue
  <2>1. o \in Book
    BY DEF HeapIsTidy, BookIsClosed, SInv, VInv, Safe
  <2> QED
    BY <2>1, <1>1 DEF Book, TypeOK
<1>8. FreshIsSafe'
  BY <1>1, <1>2 DEF FreshIsSafe, Painting, Sweeping, SInv, Safe
<1>9. NothingLost' /\ MarkedWhenDone' /\ EarlyIsStrong'
  BY <1>1 DEF NothingLost, MarkedWhenDone, EarlyIsStrong, Painting, Done, Sweeping
<1>10. ReachableAreAllocated'
  BY <1>2, SameReachable DEF ReachableAreAllocated, Allocated, SInv, Safe
<1> QED
  BY <1>4, <1>5, <1>6, <1>7, <1>8, <1>9, <1>10 DEF Safe

LEMMA PaintWhiteStep ==
  ASSUME SInv, PaintWhite
  PROVE  Safe'
<1>1. TypeOK /\ gcPc = "white" /\ gcPc' = "white" /\ WriteFree(cursor) /\ cursor \in Cells
  BY DEF PaintWhite, SInv, VInv, TypeOK, Cells
<1>2. \A x \in Cells : status'[x] = IF x = cursor /\ status[x] # "free" THEN "unvisited" ELSE status[x]
  BY <1>1 DEF PaintWhite, TypeOK
<1>3. /\ UNCHANGED <<rtLen, refs, roots, writer, readers, fresh, limit>> /\ cursor' = cursor + 1
      /\ UNCHANGED <<paintBlack, inHand, visitStack, productive, removed>>
  BY DEF PaintWhite, lockVars, userVars, markVars
<1>4. ~paintBlack /\ \A t \in Mutators : visiting[t] = {}
  BY <1>1, NobodyVisits DEF Painting
<1>5. HeapIsTidy'
  BY <1>2, <1>3 DEF HeapIsTidy, SInv, Safe
<1>6. UsersAreTidy'
  <2>1. \A x \in Cells : status'[x] = status[x] \/ WriteFree(x)
    BY <1>1, <1>2
  <2> QED
    BY <2>1, <1>3, <1>4, UsersStayTidy DEF GcStep
<1>7. CollectorIsTidy'
  BY <1>1, <1>3 DEF CollectorIsTidy, Painting, Sweeping, SInv, Safe
<1>8. WalksAreTrue'
  <2> SUFFICES ASSUME NEW o \in Cells, rtLen[o] # 0
               PROVE  status'[o] = "unvisited" \/ (cursor + 1 <= o /\ o < limit)
    BY <1>1, <1>3 DEF WalksAreTrue
  <2>1. status[o] = "unvisited" \/ (cursor <= o /\ o < limit)
    BY <1>1 DEF WalksAreTrue, SInv, Safe
  <2>2. status[o] # "free"
    BY DEF HeapIsTidy, SInv, Safe
  <2>3. CASE o = cursor
    BY <2>2, <2>3, <1>2
  <2>4. CASE o # cursor
    BY <2>1, <2>4, <1>1, <1>2 DEF Cells, TypeOK
  <2> QED
    BY <2>3, <2>4
<1>9. FreshIsSafe'
  <2> SUFFICES ASSUME NEW t \in Mutators, NEW u \in fresh[t], NEW h \in Cells, writer[h] = t, rtLen[h] # 0
               PROVE  status'[u] # "free"
    BY <1>1, <1>3 DEF FreshIsSafe, Painting, Sweeping
  <2>1. status[u] # "free" /\ u \in Cells
    BY <1>1 DEF FreshIsSafe, SInv, Safe, TypeOK
  <2> QED
    BY <2>1, <1>2
<1>10. NothingLost' /\ MarkedWhenDone' /\ EarlyIsStrong'
  BY <1>1 DEF NothingLost, MarkedWhenDone, EarlyIsStrong, Painting, Done, Sweeping
<1>11. ReachableAreAllocated'
  BY <1>2, <1>3, SameReachable DEF ReachableAreAllocated, Allocated, SInv, Safe
<1> QED
  BY <1>5, <1>6, <1>7, <1>8, <1>9, <1>10, <1>11 DEF Safe

LEMMA BeginPaintBlackStep ==
  ASSUME SInv, BeginPaintBlack
  PROVE  Safe'
<1>1. TypeOK /\ gcPc = "white" /\ cursor = limit /\ gcPc' = "push" /\ paintBlack' = TRUE
  BY DEF BeginPaintBlack, SInv, VInv
<1>2. /\ UNCHANGED <<status, rtLen, refs, roots, writer, readers, fresh>>
      /\ UNCHANGED <<inProgress, inHand, visitStack, productive, removed>>
  BY DEF BeginPaintBlack, heapVars, lockVars, userVars
<1>3. \A o \in Cells : rtLen[o] # 0 => status[o] = "unvisited"
  BY <1>1 DEF WalksAreTrue, SInv, Safe, Cells, TypeOK
<1>4. \A o \in Black : rtLen[o] = 0 /\ refs[o] = {}
  <2>1. \A o \in Black : rtLen[o] = 0
    BY <1>3 DEF Black
  <2> QED
    BY <2>1 DEF Black, HeapIsTidy, SInv, Safe
<1>5. Black' = Black /\ Todo' = Grey \cup roots
  BY <1>1, <1>2 DEF Black, Todo, Grey
<1>6. HeapIsTidy'
  BY <1>2 DEF HeapIsTidy, SInv, Safe
<1>7. UsersAreTidy'
  BY <1>1, <1>2, UsersStayTidy DEF GcStep
<1>8. CollectorIsTidy'
  BY <1>1, <1>2 DEF CollectorIsTidy, Painting, Sweeping, SInv, Safe
<1>9. WalksAreTrue'
  BY <1>1 DEF WalksAreTrue
<1>10. FreshIsSafe'
  BY <1>2, <1>3, <1>5 DEF FreshIsSafe, Black, SInv, Safe
<1>11. NothingLost'
  <2> SUFFICES ASSUME NEW S \in SUBSET Cells, CoversTodo(S)'
               PROVE  Reachable' \subseteq Black \cup S
    BY <1>5 DEF NothingLost
  <2>1. roots' \subseteq Black \cup S /\ \A x \in Black \cup S : refs'[x] \subseteq Black \cup S
    BY <1>2, <1>4, <1>5 DEF CoversTodo
  <2> QED
    BY <2>1, NextReachableIsLeast DEF Black
<1>12. MarkedWhenDone'
  BY <1>1 DEF MarkedWhenDone, Done, Sweeping
<1>13. EarlyIsStrong'
  BY <1>2, <1>4, <1>5 DEF EarlyIsStrong, NoWhiteBelowBlack
<1>14. ReachableAreAllocated'
  BY <1>2, SameReachable DEF ReachableAreAllocated, Allocated, SInv, Safe
<1> QED
  BY <1>6, <1>7, <1>8, <1>9, <1>10, <1>11, <1>12, <1>13, <1>14 DEF Safe

\* A step of the marking loop that changes at most the colour of an object it
\* has the lock of, and leaves as much to do as before.
LEMMA MarkingStep ==
  ASSUME SInv, GcStep, Painting, Painting',
         UNCHANGED <<rtLen, refs, paintBlack, removed>>,
         \A x \in Cells : status'[x] = status[x] \/ WriteFree(x),
         \A x \in Cells : status'[x] = "free" <=> status[x] = "free",
         \A x \in Cells : x \in Black' <=> x \in Black,
         Todo \subseteq Todo' \cup Black
  PROVE  /\ HeapIsTidy' /\ UsersAreTidy' /\ WalksAreTrue' /\ FreshIsSafe'
         /\ NothingLost' /\ EarlyIsStrong' /\ ReachableAreAllocated' /\ Reachable' = Reachable
<1>1. TypeOK /\ UNCHANGED <<roots, writer, readers, visiting, fresh>>
  BY CollectorFrame DEF SInv, VInv
<1>2. paintBlack' /\ Reachable' = Reachable /\ Black' = Black
  BY <1>1, SameReachable DEF CollectorIsTidy, SInv, Safe, Black
<1>3. HeapIsTidy'
  BY <1>1 DEF HeapIsTidy, SInv, Safe
<1>4. UsersAreTidy'
  BY <1>1, <1>2, UsersStayTidy
<1>5. WalksAreTrue'
  BY DEF WalksAreTrue, Painting
<1>6. FreshIsSafe'
  <2> SUFFICES ASSUME NEW t \in Mutators, NEW u \in fresh[t], NEW h \in Cells, writer[h] = t, rtLen[h] # 0
               PROVE  status'[u] # "free" /\ (u \in Black \/ h \notin Black)
    BY <1>1, <1>2 DEF FreshIsSafe
  <2>1. u \in Cells
    BY <1>1 DEF TypeOK
  <2> QED
    BY <2>1 DEF FreshIsSafe, SInv, Safe
<1>7. NothingLost'
  <2> SUFFICES ASSUME NEW S \in SUBSET Cells, CoversTodo(S)'
               PROVE  Reachable \subseteq Black \cup S
    BY <1>2 DEF NothingLost
  <2>1. CoversTodo(S \cup Black)
    BY <1>2 DEF CoversTodo
  <2>2. S \cup Black \in SUBSET Cells
    BY DEF Black
  <2>3. Reachable \subseteq Black \cup (S \cup Black)
    BY <2>1, <2>2 DEF NothingLost, SInv, Safe
  <2> QED
    BY <2>3
<1>8. EarlyIsStrong'
  <2> SUFFICES ASSUME Unlinks, NEW t \in Mutators, NEW h \in Cells, Early(t, h)'
               PROVE  NoWhiteBelowBlack'
    BY DEF EarlyIsStrong
  <2>1. Early(t, h)
    BY <1>1, <1>2 DEF Early
  <2>2. NoWhiteBelowBlack
    BY <2>1 DEF EarlyIsStrong, SInv, Safe
  <2> QED
    BY <2>2, <1>1, <1>2 DEF NoWhiteBelowBlack
<1>9. ReachableAreAllocated'
  BY <1>2 DEF ReachableAreAllocated, Allocated, SInv, Safe
<1> QED
  BY <1>2, <1>3, <1>4, <1>5, <1>6, <1>7, <1>8, <1>9

LEMMA PushRootsStep ==
  ASSUME SInv, PushRoots
  PROVE  Safe'
<1>1. gcPc = "push" /\ gcPc' = "drain" /\ inProgress' = inProgress \cup roots /\ productive' = FALSE
  BY DEF PushRoots
<1>2. UNCHANGED <<status, rtLen, refs, roots, paintBlack, inHand, visitStack, removed>>
  BY DEF PushRoots, heapVars, scanVars
<1>3. Black' = Black /\ Todo' = Todo
  BY <1>1, <1>2 DEF Black, Todo, Grey
<1>4. Painting /\ Painting' /\ visitStack = {}
  BY <1>1 DEF Painting, SInv, VInv, EmptyOutsideMarking, Phases
<1>5. CollectorIsTidy'
  BY <1>1, <1>2, <1>4 DEF CollectorIsTidy, Painting, Sweeping, SInv, Safe
<1>6. MarkedWhenDone'
  BY <1>1 DEF MarkedWhenDone, Done, Sweeping
<1> QED
  BY <1>2, <1>3, <1>4, <1>5, <1>6, MarkingStep DEF Safe, GcStep

LEMMA PopInProgressStep ==
  ASSUME SInv, NEW o \in Cells, PopInProgress(o)
  PROVE  Safe'
<1>1. /\ gcPc = "drain" /\ gcPc' = "transfer" /\ o \in inProgress
      /\ inProgress' = inProgress \ {o} /\ inHand' = {o}
  BY DEF PopInProgress
<1>2. UNCHANGED <<status, rtLen, refs, roots, paintBlack, visitStack, removed>>
  BY DEF PopInProgress, heapVars, scanVars
<1>3. inHand = {}
  BY <1>1 DEF CollectorIsTidy, SInv, Safe
<1>4. Black' = Black /\ Todo' = Todo
  BY <1>1, <1>2, <1>3 DEF Black, Todo, Grey
<1>5. Painting /\ Painting'
  BY <1>1 DEF Painting
<1>6. CollectorIsTidy'
  BY <1>1, <1>2 DEF CollectorIsTidy, Painting, Sweeping, SInv, Safe
<1>7. MarkedWhenDone'
  BY <1>1 DEF MarkedWhenDone, Done, Sweeping
<1> QED
  BY <1>2, <1>4, <1>5, <1>6, <1>7, MarkingStep DEF Safe, GcStep

LEMMA TransferStep ==
  ASSUME SInv, NEW o \in Cells, Transfer(o)
  PROVE  Safe'
<1>1. /\ TypeOK /\ gcPc = "transfer" /\ o \in inHand /\ WriteFree(o) /\ inHand' = {} /\ productive' = TRUE
      /\ gcPc' = IF status[o] = "free" THEN "exit" ELSE "drain"
  BY DEF Transfer, TransferInHand, SInv, VInv
<1>2. \A x \in Cells : status'[x] = IF x = o /\ status[x] = "unvisited" THEN "in_progress" ELSE status[x]
  BY <1>1 DEF Transfer, TransferInHand, TypeOK
<1>3. UNCHANGED <<rtLen, refs, roots, writer, readers, visiting, fresh, paintBlack, inProgress, removed>>
  BY DEF Transfer, TransferInHand, lockVars, userVars, scanVars
<1>4. \A x \in Cells : /\ status'[x] = status[x] \/ WriteFree(x)
                       /\ status'[x] = "free" <=> status[x] = "free"
                       /\ x \in Black' <=> x \in Black
  BY <1>1, <1>2 DEF Black
<1>5. inHand = {o}
  BY <1>1 DEF CollectorIsTidy, SInv, Safe
<1>6. Painting /\ gcPc' # "push"
  BY <1>1 DEF Painting
<1>7. CASE status[o] # "free"
  <2>1. Todo \subseteq Todo' \cup Black
    <3>1. o \in Black \cup Grey'
      BY <1>1, <1>2, <1>7 DEF Black, Grey, TypeOK, Colours
    <3>2. \A x \in Cells : status[x] = "in_progress" => status'[x] = "in_progress"
      BY <1>2
    <3> QED
      BY <3>1, <3>2, <1>1, <1>3, <1>5 DEF Todo, Grey
  <2>2. Painting'
    BY <1>1, <1>7 DEF Painting
  <2>3. CollectorIsTidy'
    BY <1>1, <1>3, <1>6, <1>7, <2>2 DEF CollectorIsTidy, Painting, Sweeping, SInv, Safe
  <2>4. MarkedWhenDone'
    BY <1>1 DEF MarkedWhenDone, Done, Sweeping
  <2> QED
    BY <1>3, <1>4, <1>6, <2>1, <2>2, <2>3, <2>4, MarkingStep DEF Safe, GcStep
<1>8. CASE status[o] = "free"
  <2>1. gcPc' = "exit" /\ ~Painting' /\ status' = status
    BY <1>1, <1>2, <1>8 DEF Painting, Transfer, TransferInHand, TypeOK
  <2>2. paintBlack'
    BY <1>3, <1>6 DEF CollectorIsTidy, SInv, Safe
  <2>3. HeapIsTidy'
    BY <1>3, <2>1 DEF HeapIsTidy, SInv, Safe
  <2>4. UsersAreTidy'
    BY <1>3, <2>1, <2>2, UsersStayTidy DEF GcStep
  <2>5. CollectorIsTidy'
    BY <1>1, <1>3, <2>1, <2>2 DEF CollectorIsTidy, Painting, Sweeping, SInv, Safe
  <2>6. FreshIsSafe'
    BY <1>3, <2>1 DEF FreshIsSafe, Painting, Sweeping, SInv, Safe
  <2>7. WalksAreTrue' /\ NothingLost' /\ MarkedWhenDone' /\ EarlyIsStrong'
    BY <2>1 DEF WalksAreTrue, NothingLost, MarkedWhenDone, EarlyIsStrong, Done, Sweeping
  <2>8. ReachableAreAllocated'
    BY <1>3, <2>1, SameReachable DEF ReachableAreAllocated, Allocated, SInv, Safe
  <2> QED
    BY <2>3, <2>4, <2>5, <2>6, <2>7, <2>8 DEF Safe
<1> QED
  BY <1>7, <1>8

LEMMA DrainDoneStep ==
  ASSUME SInv, DrainDone
  PROVE  Safe'
<1>1. gcPc = "drain" /\ gcPc' = "visit" /\ inProgress = {}
  BY DEF DrainDone
<1>2. UNCHANGED <<status, rtLen, refs, roots, paintBlack, inProgress, inHand, visitStack, productive, removed>>
  BY DEF DrainDone, heapVars, markVars, scanVars
<1>3. Black' = Black /\ Todo' = Todo
  BY <1>1, <1>2 DEF Black, Todo, Grey
<1>4. Painting /\ Painting' /\ inHand = {}
  BY <1>1 DEF Painting, CollectorIsTidy, SInv, Safe
<1>5. CollectorIsTidy'
  BY <1>1, <1>2, <1>4 DEF CollectorIsTidy, Painting, Sweeping, SInv, Safe
<1>6. MarkedWhenDone'
  <2> SUFFICES ASSUME ~productive PROVE Reachable \subseteq Black
    BY <1>1, <1>2, <1>3, SameReachable DEF MarkedWhenDone, Done, Sweeping
  <2>1. visitStack = {}
    BY <1>1 DEF CollectorIsTidy, SInv, Safe
  <2>2. \A o \in Cells : status[o] # "in_progress"
    BY <2>1 DEF SInv, VInv, VisitStackSound
  <2>3. Todo = {}
    BY <2>2, <1>1, <1>4 DEF Todo, Grey
  <2>4. CoversTodo({})
    BY <2>3 DEF CoversTodo
  <2> QED
    BY <2>4, <1>4 DEF NothingLost, SInv, Safe
<1> QED
  BY <1>2, <1>3, <1>4, <1>5, <1>6, MarkingStep DEF Safe, GcStep

LEMMA GcVisitStep ==
  ASSUME SInv, NEW o \in Cells, GcVisit(o)
  PROVE  Safe'
<1>1. /\ TypeOK /\ gcPc = "visit" /\ gcPc' = "visit" /\ o \in visitStack /\ WriteFree(o) /\ productive' = TRUE
      /\ status[o] \in {"in_progress", "visited"}
  BY DEF GcVisit, SInv, VInv, VisitStackSound
<1>2. UNCHANGED <<rtLen, refs, roots, writer, readers, visiting, fresh, paintBlack, inHand, removed>>
  BY DEF GcVisit, lockVars, userVars, scanVars
<1>3. Painting /\ Painting' /\ paintBlack'
  BY <1>1, <1>2 DEF Painting, CollectorIsTidy, SInv, Safe
<1>4. CollectorIsTidy'
  BY <1>1, <1>2, <1>3 DEF CollectorIsTidy, Painting, Sweeping, SInv, Safe
<1>5. MarkedWhenDone'
  BY <1>1 DEF MarkedWhenDone, Done, Sweeping
<1>6. CASE status[o] = "in_progress"
  <2>1. VisitObj(o)
    BY <1>6 DEF GcVisit
  <2>2. \A x \in Cells : status'[x] = IF x = o THEN "visited" ELSE status[x]
    BY <2>1, <1>1 DEF VisitObj, TypeOK
  <2>3. NothingLost' /\ Reachable' = Reachable /\ \A x \in Cells : x \in Black' <=> x \in Black \/ x = o
    BY <2>1, <1>1, <1>2, VisitKeepsCovers DEF SInv, Safe
  <2>4. HeapIsTidy'
    BY <2>2, <1>2, <1>6 DEF HeapIsTidy, SInv, Safe
  <2>5. UsersAreTidy'
    <3>1. \A x \in Cells : status'[x] = status[x] \/ WriteFree(x)
      BY <2>2, <1>1
    <3> QED
      BY <3>1, <1>2, <1>3, UsersStayTidy DEF GcStep
  <2>6. WalksAreTrue'
    BY <1>1 DEF WalksAreTrue
  <2>7. FreshIsSafe'
    <3> SUFFICES ASSUME NEW t \in Mutators, NEW u \in fresh[t], NEW h \in Cells, writer[h] = t, rtLen[h] # 0
                 PROVE  status'[u] # "free" /\ (u \in Black' \/ h \notin Black')
      BY <1>2 DEF FreshIsSafe
    <3>1. h # o /\ u \in Cells
      BY <1>1 DEF WriteFree, SInv, VInv, TypeOK
    <3>2. status[u] # "free" /\ (u \in Black \/ h \notin Black)
      BY <1>3 DEF FreshIsSafe, SInv, Safe
    <3> QED
      BY <3>1, <3>2, <2>2, <2>3
  <2>8. EarlyIsStrong'
    <3> SUFFICES ASSUME Unlinks, NEW t \in Mutators, NEW h \in Cells, Early(t, h)'
                 PROVE  NoWhiteBelowBlack'
      BY DEF EarlyIsStrong
    <3>1. Early(t, h)
      BY <1>2, <2>3 DEF Early
    <3>2. NoWhiteBelowBlack
      BY <3>1, <1>3 DEF EarlyIsStrong, SInv, Safe
    <3>3. Todo \subseteq Todo' \cup {o} /\ refs[o] \subseteq Todo'
      BY <2>1, <2>2, <1>1, <1>2 DEF Todo, Grey, VisitObj
    <3>4. Black \cup Todo \subseteq Black' \cup Todo'
      BY <3>3, <2>3 DEF Black
    <3> QED
      BY <3>2, <3>3, <3>4, <2>3, <1>2 DEF NoWhiteBelowBlack, Black
  <2>9. ReachableAreAllocated'
    BY <2>2, <2>3 DEF ReachableAreAllocated, Allocated, SInv, Safe
  <2> QED
    BY <2>3, <2>4, <2>5, <2>6, <2>7, <2>8, <2>9, <1>4, <1>5 DEF Safe
<1>7. CASE status[o] # "in_progress"
  <2>1. UNCHANGED <<inProgress, status>>
    BY <1>7 DEF GcVisit
  <2>2. Black' = Black /\ Todo' = Todo
    BY <2>1, <1>1, <1>2 DEF Black, Todo, Grey
  <2> QED
    BY <2>1, <2>2, <1>2, <1>3, <1>4, <1>5, MarkingStep DEF Safe, GcStep
<1> QED
  BY <1>6, <1>7

LEMMA NextIterationStep ==
  ASSUME SInv, NextIteration
  PROVE  Safe'
<1>1. gcPc = "visit" /\ gcPc' = "drain" /\ visitStack = {} /\ productive' = FALSE
  BY DEF NextIteration, StartIteration
<1>2. UNCHANGED <<status, rtLen, refs, roots, paintBlack, inProgress, inHand, visitStack, removed>>
  BY DEF NextIteration, StartIteration, heapVars, scanVars
<1>3. Black' = Black /\ Todo' = Todo
  BY <1>1, <1>2 DEF Black, Todo, Grey
<1>4. Painting /\ Painting'
  BY <1>1 DEF Painting
<1>5. CollectorIsTidy'
  BY <1>1, <1>2 DEF CollectorIsTidy, Painting, Sweeping, SInv, Safe
<1>6. MarkedWhenDone'
  BY <1>1 DEF MarkedWhenDone, Done, Sweeping
<1> QED
  BY <1>2, <1>3, <1>4, <1>5, <1>6, MarkingStep DEF Safe, GcStep

LEMMA EndPaintBlackStep ==
  ASSUME SInv, EndPaintBlack
  PROVE  Safe'
<1>1. /\ TypeOK /\ gcPc = "visit" /\ ~productive /\ gcPc' = "filter"
      /\ paintBlack' = FALSE /\ cursor' = 0 /\ limit' = bookLen
  BY DEF EndPaintBlack, StartFilter, SInv, VInv
<1>2. /\ UNCHANGED <<status, rtLen, refs, roots, writer, readers, visiting, fresh>>
      /\ UNCHANGED <<inProgress, inHand, visitStack, productive, removed>>
  BY DEF EndPaintBlack, StartFilter, heapVars, lockVars, userVars
<1>3. Black' = Black /\ Reachable' = Reachable
  BY <1>2, SameReachable DEF Black
<1>4. HeapIsTidy'
  BY <1>2 DEF HeapIsTidy, SInv, Safe
<1>5. UsersAreTidy'
  <2>1. \A t \in Mutators : \A x \in visiting[t] : 0 <= x /\ x < bookLen
    BY <1>1 DEF SInv, VInv, BookIsClosed, Book, TypeOK
  <2> QED
    BY <2>1, <1>1, <1>2, UsersStayTidy DEF GcStep
<1>6. removed = {} /\ inHand = {}
  BY <1>1 DEF CollectorIsTidy, Sweeping, SInv, Safe
<1>7. CollectorIsTidy'
  BY <1>1, <1>2, <1>6 DEF CollectorIsTidy, Painting
<1>8. WalksAreTrue'
  <2> SUFFICES ASSUME NEW o \in Cells, status[o] = "unvisited"
               PROVE  o < bookLen /\ ~(o < 0)
    BY <1>1, <1>2 DEF WalksAreTrue
  <2>1. o \in Book
    BY DEF SInv, VInv, BookIsClosed
  <2> QED
    BY <2>1, <1>1 DEF Book, TypeOK
<1>9. FreshIsSafe'
  BY <1>1, <1>2, <1>3 DEF FreshIsSafe, Painting, SInv, Safe
<1>10. NothingLost' /\ EarlyIsStrong'
  BY <1>1 DEF NothingLost, EarlyIsStrong, Painting
<1>11. MarkedWhenDone'
  BY <1>1, <1>3 DEF MarkedWhenDone, Done, SInv, Safe
<1>12. ReachableAreAllocated'
  BY <1>2, <1>3 DEF ReachableAreAllocated, Allocated, SInv, Safe
<1> QED
  BY <1>4, <1>5, <1>7, <1>8, <1>9, <1>10, <1>11, <1>12 DEF Safe

\* The steps of the sweep that only look at the heap.
LEMMA SweepStep ==
  ASSUME SInv, Sweeping, Sweeping' \/ gcPc' = "idle", UNCHANGED <<status, rtLen, refs, roots, lockVars, userVars>>
  PROVE  /\ HeapIsTidy' /\ FreshIsSafe' /\ NothingLost' /\ MarkedWhenDone' /\ EarlyIsStrong'
         /\ ReachableAreAllocated'
<1>1. Black' = Black /\ Reachable' = Reachable /\ ~Painting'
  BY SameReachable DEF Black, Painting, Sweeping
<1>2. HeapIsTidy'
  BY DEF HeapIsTidy, lockVars, SInv, Safe
<1>3. FreshIsSafe'
  BY <1>1 DEF FreshIsSafe, lockVars, userVars, SInv, Safe
<1>4. NothingLost' /\ EarlyIsStrong'
  BY <1>1 DEF NothingLost, EarlyIsStrong
<1>5. MarkedWhenDone'
  BY <1>1 DEF MarkedWhenDone, Done, SInv, Safe
<1>6. ReachableAreAllocated'
  BY <1>1 DEF ReachableAreAllocated, Allocated, SInv, Safe
<1> QED
  BY <1>2, <1>3, <1>4, <1>5, <1>6

LEMMA FilterCellStep ==
  ASSUME SInv, FilterCell
  PROVE  Safe'
<1>1. /\ TypeOK /\ gcPc = "filter" /\ gcPc' = "filter" /\ cursor < limit /\ writer[cursor] = Nobody
      /\ removed' = IF status[cursor] = "unvisited" THEN removed \cup {cursor} ELSE removed
      /\ cursor' = cursor + 1
  BY DEF FilterCell, FilterColours, SInv, VInv
<1>2. /\ UNCHANGED <<status, rtLen, refs, roots, lockVars, userVars>>
      /\ UNCHANGED <<writer, visiting, paintBlack, inHand, visitStack, productive, limit>>
  BY DEF FilterCell, FilterColours, heapVars, lockVars, userVars, markVars
<1>3. Nobody \notin Mutators /\ ~paintBlack
  BY <1>1 DEF CollectorIsTidy, Painting, SInv, Safe
<1>4. UsersAreTidy'
  <2>1. ASSUME NEW t \in Mutators, NEW x \in visiting[t]
        PROVE  cursor + 1 <= x /\ x < limit
    <3>1. writer[x] = t /\ cursor <= x /\ x < limit
      BY <2>1, <1>3 DEF UsersAreTidy, UserIsTidy, SInv, Safe
    <3>2. x # cursor /\ x \in Cells
      BY <3>1, <2>1, <1>1, <1>3 DEF TypeOK
    <3> QED
      BY <3>1, <3>2, <1>1 DEF Cells, TypeOK
  <2> QED
    BY <2>1, <1>1, <1>2, UsersStayTidy DEF GcStep
<1>5. CollectorIsTidy'
  BY <1>1, <1>2 DEF CollectorIsTidy, Painting, Sweeping, SInv, Safe
<1>6. WalksAreTrue'
  <2> SUFFICES ASSUME NEW o \in Cells, status[o] = "unvisited"
               PROVE  o < limit /\ (o < cursor + 1 => o \in removed')
    BY <1>1, <1>2 DEF WalksAreTrue
  <2>1. o < limit /\ (o < cursor => o \in removed)
    BY <1>1 DEF WalksAreTrue, SInv, Safe
  <2>2. o < cursor + 1 => o < cursor \/ o = cursor
    BY <1>1 DEF Cells, TypeOK
  <2> QED
    BY <2>1, <2>2, <1>1
<1> QED
  BY <1>1, <1>2, <1>4, <1>5, <1>6, SweepStep DEF Safe, Sweeping

LEMMA FilterDoneStep ==
  ASSUME SInv, FilterDone
  PROVE  Safe'
<1>1. TypeOK /\ gcPc = "filter" /\ gcPc' = "free" /\ cursor = limit
  BY DEF FilterDone, SInv, VInv
<1>2. /\ UNCHANGED <<status, rtLen, refs, roots, lockVars, userVars>>
      /\ UNCHANGED <<writer, visiting, paintBlack, inHand, visitStack, productive, removed>>
  BY DEF FilterDone, heapVars, lockVars, userVars, markVars
<1>3. ~paintBlack
  BY <1>1 DEF CollectorIsTidy, Painting, SInv, Safe
<1>4. UsersAreTidy'
  <2>1. ASSUME NEW t \in Mutators, NEW x \in visiting[t]
        PROVE  FALSE
    <3>1. cursor <= x /\ x < limit /\ x \in Cells
      BY <2>1, <1>1, <1>3 DEF UsersAreTidy, UserIsTidy, SInv, Safe, TypeOK
    <3> QED
      BY <3>1, <1>1 DEF Cells, TypeOK
  <2> QED
    BY <2>1, <1>2, UsersStayTidy DEF GcStep
<1>5. CollectorIsTidy'
  BY <1>1, <1>2 DEF CollectorIsTidy, Painting, Sweeping, SInv, Safe
<1>6. WalksAreTrue'
  <2> SUFFICES ASSUME NEW o \in Cells, status[o] = "unvisited"
               PROVE  o \in removed
    BY <1>1, <1>2 DEF WalksAreTrue
  <2> QED
    BY <1>1 DEF WalksAreTrue, SInv, Safe
<1> QED
  BY <1>1, <1>2, <1>4, <1>5, <1>6, SweepStep DEF Safe, Sweeping

LEMMA EndCollectionStep ==
  ASSUME SInv, EndCollection
  PROVE  Safe'
<1>1. gcPc = "free" /\ gcPc' = "idle" /\ removed = {}
  BY DEF EndCollection
<1>2. /\ UNCHANGED <<status, rtLen, refs, roots, lockVars, userVars>>
      /\ UNCHANGED <<visiting, paintBlack, inHand, visitStack, productive, removed>>
  BY DEF EndCollection, heapVars, lockVars, userVars, markVars, scanVars
<1>3. UsersAreTidy'
  BY <1>1, <1>2, NobodyVisits, UsersStayTidy DEF GcStep, Painting
<1>4. CollectorIsTidy'
  BY <1>1, <1>2 DEF CollectorIsTidy, Painting, Sweeping, SInv, Safe
<1>5. WalksAreTrue'
  BY <1>1 DEF WalksAreTrue
<1> QED
  BY <1>1, <1>2, <1>3, <1>4, <1>5, SweepStep DEF Safe, Sweeping

\* mb_free on an object of remove_stack: nothing reachable refers to it, and no
\* mutator is about to store it.
LEMMA FreeStep ==
  ASSUME SInv, NEW o \in Cells, Free(o)
  PROVE  Safe'
<1>1. TypeOK /\ gcPc = "free" /\ gcPc' = "free" /\ o \in removed /\ WriteFree(o) /\ removed' = removed \ {o}
  BY DEF Free, SInv, VInv
<1>2. \A x \in Cells : /\ status'[x] = IF x = o THEN "free" ELSE status[x]
                       /\ rtLen'[x] = IF x = o THEN 0 ELSE rtLen[x]
                       /\ refs'[x] = IF x = o THEN {} ELSE refs[x]
  BY <1>1 DEF Free, TypeOK
<1>3. /\ UNCHANGED <<roots, writer, readers, visiting, fresh>>
      /\ UNCHANGED <<paintBlack, inHand, visitStack, productive>>
  BY DEF Free, lockVars, userVars, markVars
<1>4. status[o] = "unvisited" /\ o \notin Black
  BY <1>1 DEF CollectorIsTidy, Black, SInv, Safe
<1>5. Reachable \subseteq Black
  BY <1>1 DEF MarkedWhenDone, Done, Sweeping, SInv, Safe
<1>6. Reachable' \subseteq Reachable
  BY <1>1, <1>2, <1>3, ReachableIsClosed, NextReachableIsLeast
<1>7. Black' = Black
  BY <1>2, <1>4 DEF Black
<1>8. HeapIsTidy'
  BY <1>1, <1>2, <1>3 DEF HeapIsTidy, WriteFree, SInv, Safe
<1>9. UsersAreTidy'
  <2>1. \A t \in Mutators : visiting[t] = {}
    BY <1>1, NobodyVisits DEF Painting
  <2>2. \A x \in Cells : (status'[x] = status[x] \/ WriteFree(x)) /\ rtLen'[x] \in {rtLen[x], 0}
    BY <1>1, <1>2
  <2> QED
    BY <2>1, <2>2, UsersStayTidy DEF GcStep
<1>10. CollectorIsTidy'
  BY <1>1, <1>2, <1>3 DEF CollectorIsTidy, Painting, Sweeping, SInv, Safe, TypeOK
<1>11. WalksAreTrue'
  BY <1>1, <1>2 DEF WalksAreTrue, SInv, Safe
<1>12. FreshIsSafe'
  <2> SUFFICES ASSUME NEW t \in Mutators, NEW u \in fresh[t], NEW h \in Cells, writer[h] = t, rtLen'[h] # 0
               PROVE  status'[u] # "free" /\ (u \in Black \/ h \notin Black)
    BY <1>3, <1>7 DEF FreshIsSafe
  <2>1. h # o /\ rtLen[h] # 0 /\ u \in Cells
    BY <1>1, <1>2 DEF TypeOK
  <2>2. status[u] # "free" /\ (u \in Black \/ h \notin Black)
    BY <2>1, <1>1 DEF FreshIsSafe, Sweeping, SInv, Safe
  <2>3. h \in Black
    <3>1. status[h] # "free" /\ h \notin removed
      BY DEF HeapIsTidy, CollectorIsTidy, SInv, Safe
    <3>2. status[h] # "unvisited"
      BY <3>1, <1>1 DEF WalksAreTrue, SInv, Safe
    <3>3. status[h] # "in_progress"
      BY <1>1 DEF SInv, VInv, VisitStackSound, EmptyOutsideMarking, Phases
    <3> QED
      BY <3>1, <3>2, <3>3, <1>1 DEF Black, TypeOK, Colours
  <2> QED
    BY <2>1, <2>2, <2>3, <1>2, <1>4
<1>13. NothingLost' /\ EarlyIsStrong'
  BY <1>1 DEF NothingLost, EarlyIsStrong, Painting
<1>14. MarkedWhenDone'
  BY <1>5, <1>6, <1>7 DEF MarkedWhenDone
<1>15. ReachableAreAllocated'
  BY <1>2, <1>4, <1>5, <1>6 DEF ReachableAreAllocated, Allocated, SInv, Safe
<1> QED
  BY <1>8, <1>9, <1>10, <1>11, <1>12, <1>13, <1>14, <1>15 DEF Safe

LEMMA InitSafe == Init => Safe
<1> SUFFICES ASSUME Init PROVE Safe
  OBVIOUS
<1>1. /\ gcPc = "idle" /\ paintBlack = FALSE /\ inHand = {} /\ removed = {}
      /\ \A t \in Mutators : visiting[t] = {} /\ fresh[t] = {} /\ Held(t) = {}
  BY DEF Init, Held
<1>2. \A o \in Cells : rtLen[o] = 0 => refs[o] = {}
  <2> SUFFICES ASSUME NEW o \in Cells, rtLen[o] = 0, refs[o] # {} PROVE FALSE
    OBVIOUS
  <2>1. o < bookLen
    BY DEF Init
  <2>2. RtLen = 0
    BY <2>1 DEF Init
  <2>3. Cardinality(refs[o]) <= 0
    BY <2>2 DEF Init
  <2>4. IsFiniteSet(refs[o]) /\ Cardinality(refs[o]) \in Nat
    BY InitType, CellSetsAreFinite DEF TypeOK
  <2> QED
    BY <2>3, <2>4, FS_EmptySet
<1>3. HeapIsTidy
  BY <1>2 DEF HeapIsTidy, Init
<1>4. UsersAreTidy /\ CollectorIsTidy
  BY <1>1 DEF UsersAreTidy, UserIsTidy, CollectorIsTidy, Painting
<1>5. WalksAreTrue /\ FreshIsSafe /\ NothingLost /\ MarkedWhenDone /\ EarlyIsStrong
  BY <1>1 DEF WalksAreTrue, FreshIsSafe, NothingLost, MarkedWhenDone, EarlyIsStrong, Painting, Done, Sweeping
<1>6. ReachableAreAllocated
  <2>1. Reachable \subseteq Book
    BY InitType, InitBook, ReachableInBook
  <2>2. \A o \in Book : status[o] # "free"
    BY InitType DEF Init, Book, Cells, TypeOK
  <2> QED
    BY <2>1, <2>2 DEF ReachableAreAllocated, Allocated, Reachable, ReachableFrom
<1> QED
  BY <1>3, <1>4, <1>5, <1>6 DEF Safe

\* A step that takes, waits for or gives back a mem_lck.
LEMMA BlockLockStep ==
  ASSUME SInv, UNCHANGED seen
  PROVE  Safe'
<1>1. /\ UNCHANGED <<status, rtLen, refs, roots, writer, readers, visiting, fresh>>
      /\ UNCHANGED <<gcPc, paintBlack, cursor, limit, inProgress, inHand, visitStack, productive, removed>>
  BY DEF seen, heapVars, lockVars, markVars
<1>2. Black' = Black /\ Grey' = Grey /\ Todo' = Todo /\ Reachable' = Reachable
  BY <1>1, SameReachable DEF Black, Grey, Todo
<1>3. HeapIsTidy' /\ UsersAreTidy' /\ CollectorIsTidy'
  BY <1>1 DEF HeapIsTidy, UsersAreTidy, UserIsTidy, Held, CollectorIsTidy, Painting, Sweeping, SInv, Safe
<1>4. WalksAreTrue' /\ FreshIsSafe'
  BY <1>1, <1>2 DEF WalksAreTrue, FreshIsSafe, Painting, Sweeping, SInv, Safe
<1>5. NothingLost'
  <2>1. \A S : CoversTodo(S)' <=> CoversTodo(S)
    BY <1>1, <1>2 DEF CoversTodo
  <2> SUFFICES ASSUME Painting, NEW S \in SUBSET Cells, CoversTodo(S)'
               PROVE  Reachable' \subseteq Black' \cup S
    BY <1>1 DEF NothingLost, Painting
  <2> QED
    BY <1>2, <2>1 DEF NothingLost, SInv, Safe
<1>6. MarkedWhenDone' /\ ReachableAreAllocated'
  BY <1>1, <1>2 DEF MarkedWhenDone, Done, Sweeping, ReachableAreAllocated, Allocated, SInv, Safe
<1>7. EarlyIsStrong'
  BY <1>1, <1>2 DEF EarlyIsStrong, Early, NoWhiteBelowBlack, Painting, SInv, Safe
<1> QED
  BY <1>3, <1>4, <1>5, <1>6, <1>7 DEF Safe

LEMMA SafeIsInductive ==
  ASSUME Discipline, SInv, [Next]_vars
  PROVE  SInv'
<1>1. CASE UNCHANGED vars
  <2>1. VInv'
    BY <1>1 DEF vars, heapVars, lockVars, userVars, gcVars, markVars, scanVars, SInv, VInv, TypeOK,
                BookIsClosed, Book, VisitStackSound, EmptyOutsideMarking
  <2> QED
    BY <1>1, <2>1, BlockLockFrame, BlockLockStep DEF SInv
<1>2. CASE BeginCollection \/ GcStep
  <2>1. VInv'
    BY <1>2, CollectorType, CollectorBook, CollectorVInv DEF SInv, VInv
  <2>2. Safe'
    BY <1>2, BeginCollectionStep, PaintWhiteStep, BeginPaintBlackStep, PushRootsStep, PopInProgressStep,
       TransferStep, DrainDoneStep, GcVisitStep, NextIterationStep, EndPaintBlackStep, FilterCellStep,
       FilterDoneStep, FreeStep, EndCollectionStep, BlockLockFrame, BlockLockStep DEF GcStep
  <2> QED
    BY <2>1, <2>2 DEF SInv
<1>3. ASSUME NEW t \in Mutators, UserStep(t)
      PROVE  SInv'
  <2>1. VInv'
    BY <1>3, UserType, UserBook, UserVInv DEF SInv, VInv
  <2>2. Safe'
    BY <1>3, MallocStep, GetReadStep, GetWriteStep, UserVisitStep, UnlockStep, StoreRefStep, DropRefStep,
       RootStep, DerootStep, BlockLockFrame, BlockLockStep DEF UserStep
  <2> QED
    BY <2>1, <2>2 DEF SInv
<1> QED
  BY <1>1, <1>2, <1>3 DEF Next

LEMMA SafeAlways == Discipline => (Spec => []SInv)
<1> SUFFICES ASSUME Discipline PROVE Spec => []SInv
  OBVIOUS
<1>1. Init => SInv
  BY InitVInv, InitSafe DEF SInv
<1>2. SInv /\ [Next]_vars => SInv'
  BY SafeIsInductive
<1> QED
  BY <1>1, <1>2, PTL DEF Spec

\* No cell whose lock somebody has is free.
LockedAreAllocated == \A o \in Cells : ~WriteFree(o) => o \in Allocated

\* Under the discipline no object that can be reached from a root is ever freed,
\* and none whose lock somebody has: the collector "frees memory it guarantees is
\* unreachable by the user" (cs.c:20-21), for every set of mutators and every size
\* of the heap.  What only a locked object leads to, which is no root's any more,
\* may be freed: nothing is said of it.
THEOREM NothingReachableIsFreed ==
  Discipline => (Spec => [](ReachableAreAllocated /\ LockedAreAllocated))
<1>1. SInv => ReachableAreAllocated /\ LockedAreAllocated
  BY DEF SInv, Safe, HeapIsTidy, LockedAreAllocated, WriteFree, Allocated
<1> QED
  BY <1>1, SafeAlways, PTL

\* Under the discipline the first guarantee of the end of paint black holds
\* (cs.c:37): until the sweep ends all that is reachable is visited or newly added.
THEOREM MarkingIsComplete == Discipline => (Spec => []ReachableAreMarked)
<1>1. SInv => ReachableAreMarked
  BY DEF SInv, Safe, MarkedWhenDone, ReachableAreMarked, Done, Black
<1> QED
  BY <1>1, SafeAlways, PTL

\* Under the discipline the argument of cs.c:82-110 holds in every state of the
\* marking loop: a reachable object that is not black is behind a grey one.
THEOREM GreyCoversWhite == Discipline => (Spec => []NothingHidden)
<1>1. SInv => NothingHidden
  <2> SUFFICES ASSUME SInv, Marking, NEW o \in Reachable \ Black, NEW S \in SUBSET Cells, Covers(S)
               PROVE  o \in S
    BY DEF NothingHidden
  <2>1. Painting /\ CoversTodo(S)
    BY DEF Painting, Marking, CoversTodo, Covers, Todo
  <2> QED
    BY <2>1 DEF SInv, Safe, NothingLost
<1> QED
  BY <1>1, SafeAlways, PTL

NoReaders == ~Reads => \A o \in Cells : readers[o] = {}

\* Under the discipline, and with write locks only, the sweep never waits for the
\* lock of an object with the lock of its block in hand (mb.c:191).
THEOREM SweepWaitsForNobody == Discipline /\ ~Reads => (Spec => []SweepNeverWaits)
<1> SUFFICES ASSUME Discipline, ~Reads PROVE Spec => []SweepNeverWaits
  OBVIOUS
<1>1. Init => NoReaders
  BY DEF Init, NoReaders
<1>2. SInv /\ NoReaders /\ [Next]_vars => NoReaders'
  <2> SUFFICES ASSUME SInv, NoReaders, [Next]_vars, NEW o \in Cells PROVE readers'[o] = {}
    BY DEF NoReaders
  <2>1. CASE UNCHANGED readers
    BY <2>1 DEF NoReaders
  <2>2. ASSUME NEW t \in Mutators, NEW x \in Cells, Unlock(t, x)
        PROVE  readers'[o] = {}
    BY <2>2 DEF NoReaders, Unlock, SInv, VInv, TypeOK
  <2>3. ASSUME NEW t \in Mutators, UserStep(t)
        PROVE  UNCHANGED readers \/ \E x \in Cells : Unlock(t, x)
    BY <2>3 DEF UserStep, AwaitBlock, NoRoom, Malloc, MayMalloc, GetRead, GetWrite, GrantWrite, UserVisit, StoreRef,
                DropRef, Root, Deroot, lockVars
  <2> QED
    BY <2>1, <2>2, <2>3, CollectorFrame DEF Next, vars, lockVars
<1>3. SInv /\ NoReaders => SweepNeverWaits
  BY DEF SInv, VInv, TypeOK, Safe, CollectorIsTidy, NoReaders, SweepNeverWaits, WriteFree
<1>4. Spec => []SInv
  BY SafeAlways
<1> QED
  BY <1>1, <1>2, <1>3, <1>4, PTL DEF Spec

-----------------------------------------------------------------------------
(***************************************************************************)
(* The second guarantee, under the same discipline: what was garbage when  *)
(* a collection began is swept by it.  No entry may be left over on        *)
(* in_progress_stack from the collection before: it would colour garbage.  *)
(***************************************************************************)
VisitsAreTrue == \A t \in Mutators : \A o \in visiting[t] : o \in Reachable /\ status[o] # "visited"

NewbornsAreLeaves == Painting \/ Sweeping => \A o \in Cells : status[o] = "newly" => rtLen[o] = 0

NothingLeftOver == gcPc \in {"idle", "white"} \/ Done => inProgress = {}

TInv == SInv /\ VisitsAreTrue /\ NewbornsAreLeaves /\ NothingLeftOver

LEMMA ReachableGrows ==
  ASSUME TypeOK', roots \subseteq roots', \A o \in Cells : refs[o] \subseteq refs'[o]
  PROVE  Reachable \subseteq Reachable'
<1>1. /\ Reachable' \subseteq Cells /\ roots' \subseteq Reachable'
      /\ \A o \in Reachable' : refs'[o] \subseteq Reachable'
  <2>1. roots' \subseteq Cells /\ \A o \in Cells : refs'[o] \subseteq Cells
    BY DEF TypeOK
  <2>2. ASSUME NEW o \in Reachable', NEW u \in refs'[o], NEW S \in SUBSET Cells, roots' \subseteq S, Closed(S)'
        PROVE  u \in S
    BY <2>2 DEF Reachable, ReachableFrom, Closed
  <2> QED
    BY <2>1, <2>2 DEF Reachable, ReachableFrom
<1> QED
  BY <1>1, ReachableIsLeast

LEMMA InitTrue == Init => VisitsAreTrue /\ NewbornsAreLeaves /\ NothingLeftOver
BY DEF Init, VisitsAreTrue, NewbornsAreLeaves, NothingLeftOver, Painting, Sweeping

LEMMA BlockLockTrue ==
  ASSUME TInv, UNCHANGED seen
  PROVE  VisitsAreTrue' /\ NewbornsAreLeaves' /\ NothingLeftOver'
<1>1. UNCHANGED <<status, rtLen, refs, roots, visiting, gcPc, productive, inProgress>>
  BY DEF seen, heapVars, markVars
<1>2. VisitsAreTrue'
  BY <1>1, SameReachable DEF TInv, VisitsAreTrue
<1> QED
  BY <1>1, <1>2 DEF TInv, NewbornsAreLeaves, NothingLeftOver, Painting, Sweeping, Done

LEMMA UserTrue ==
  ASSUME Discipline, TInv, NEW t \in Mutators, UserStep(t), TypeOK'
  PROVE  VisitsAreTrue' /\ NewbornsAreLeaves' /\ NothingLeftOver'
<1> USE DEF TInv
<1>1. /\ TypeOK /\ UNCHANGED <<gcPc, productive>>
      /\ \A s \in Mutators : visiting[s] \subseteq Cells
  BY UserFrame DEF SInv, VInv, TypeOK
<1>0. ASSUME AwaitBlock(t) \/ NoRoom(t)
      PROVE  VisitsAreTrue' /\ NewbornsAreLeaves' /\ NothingLeftOver'
  BY <1>0, BlockLockFrame, BlockLockTrue
<1>2. ASSUME NEW o \in Cells, NEW hold \in BOOLEAN, Malloc(t, o, hold)
      PROVE  VisitsAreTrue' /\ NewbornsAreLeaves' /\ NothingLeftOver'
  <2>1. status[o] = "free" /\ refs[o] = {}
    <3>1. status[o] = "free"
      BY <1>2, FreeCellsAreFree DEF Malloc, MayMalloc, SInv, VInv
    <3> QED
      BY <3>1 DEF SInv, Safe, HeapIsTidy
  <2>2. /\ \A x \in Cells : /\ status'[x] = IF x = o THEN "newly" ELSE status[x]
                            /\ rtLen'[x] = IF x = o THEN 0 ELSE rtLen[x]
                            /\ refs'[x] = refs[x]
        /\ UNCHANGED <<roots, visiting, inProgress>>
    BY <1>1, <1>2, <2>1 DEF Malloc, MayMalloc, TypeOK, Discipline, gcVars, markVars
  <2>3. Reachable \subseteq Reachable'
    BY <2>2, ReachableGrows
  <2>4. VisitsAreTrue'
    BY <1>1, <2>2, <2>3 DEF VisitsAreTrue
  <2>5. NewbornsAreLeaves' /\ NothingLeftOver'
    BY <1>1, <2>2 DEF NewbornsAreLeaves, NothingLeftOver, Painting, Sweeping, Done
  <2> QED
    BY <2>4, <2>5
<1>3. ASSUME NEW o \in Cells, GetWrite(t, o)
      PROVE  VisitsAreTrue' /\ NewbornsAreLeaves' /\ NothingLeftOver'
  <2>1. /\ UNCHANGED <<status, rtLen, refs, roots, inProgress>> /\ o \in Reachable
        /\ \A s \in Mutators : visiting'[s] = IF s = t THEN (IF paintBlack /\ status[o] # "visited" THEN {o} ELSE {})
                                                       ELSE visiting[s]
    BY <1>1, <1>3 DEF GetWrite, GrantWrite, MayLock, Runs, heapVars, gcVars, markVars, TypeOK
  <2>2. VisitsAreTrue'
    BY <2>1, SameReachable DEF VisitsAreTrue
  <2>3. NewbornsAreLeaves' /\ NothingLeftOver'
    BY <1>1, <2>1 DEF NewbornsAreLeaves, NothingLeftOver, Painting, Sweeping, Done
  <2> QED
    BY <2>2, <2>3
<1>4. ASSUME NEW o \in Cells, UserVisit(t, o)
      PROVE  VisitsAreTrue' /\ NewbornsAreLeaves' /\ NothingLeftOver'
  <2>1. /\ UNCHANGED <<rtLen, refs, roots>> /\ o \in visiting[t] /\ inProgress' = inProgress \cup refs[o]
        /\ \A x \in Cells : status'[x] = IF x = o THEN "visited" ELSE status[x]
        /\ \A s \in Mutators : visiting'[s] = IF s = t THEN {} ELSE visiting[s]
    BY <1>1, <1>4 DEF UserVisit, VisitObj, TypeOK
  <2>2. \A s \in Mutators : s # t => o \notin visiting[s]
    BY <2>1 DEF SInv, Safe, UsersAreTidy, UserIsTidy
  <2>3. VisitsAreTrue'
    BY <1>1, <2>1, <2>2, SameReachable DEF VisitsAreTrue
  <2>4. NewbornsAreLeaves'
    BY <1>1, <2>1 DEF NewbornsAreLeaves, Painting, Sweeping
  <2>5. NothingLeftOver'
    <3>1. gcPc \notin {"idle", "white"}
      BY <2>1, NobodyVisits DEF Painting
    <3>2. ASSUME Done PROVE refs[o] = {}
      <4>1. o \in Reachable /\ status[o] # "visited" /\ o \in Black
        BY <2>1, <3>2 DEF VisitsAreTrue, SInv, Safe, MarkedWhenDone
      <4>2. rtLen[o] = 0
        BY <4>1, <3>2 DEF NewbornsAreLeaves, Done, Painting, Black
      <4> QED
        BY <4>2 DEF SInv, Safe, HeapIsTidy
    <3> QED
      BY <1>1, <2>1, <3>1, <3>2 DEF NothingLeftOver, Done, Sweeping
  <2> QED
    BY <2>3, <2>4, <2>5
<1>5. ASSUME NEW o \in Cells, NEW u \in Cells, DropRef(t, o, u) \/ Deroot(t, o)
      PROVE  VisitsAreTrue' /\ NewbornsAreLeaves' /\ NothingLeftOver'
  <2>1. Unlinks /\ visiting[t] = {} /\ UNCHANGED <<status, rtLen, visiting, inProgress>>
    BY <1>5 DEF DropRef, Deroot, Runs, userVars, gcVars, markVars
  <2>2. \A s \in Mutators : visiting'[s] = {}
    BY <2>1 DEF Discipline
  <2> QED
    BY <1>1, <2>1, <2>2 DEF VisitsAreTrue, NewbornsAreLeaves, NothingLeftOver, Painting, Sweeping, Done
<1>6. ASSUME NEW o \in Cells, NEW u \in Cells, GetRead(t, o) \/ Unlock(t, o) \/ StoreRef(t, o, u) \/ Root(t, o)
      PROVE  VisitsAreTrue' /\ NewbornsAreLeaves' /\ NothingLeftOver'
  <2>1. /\ UNCHANGED <<status, rtLen, visiting, inProgress>> /\ roots \subseteq roots'
        /\ \A x \in Cells : refs[x] \subseteq refs'[x]
    BY <1>1, <1>6 DEF GetRead, Unlock, StoreRef, Root, TypeOK, heapVars, userVars, gcVars, markVars
  <2> QED
    BY <1>1, <2>1, ReachableGrows DEF VisitsAreTrue, NewbornsAreLeaves, NothingLeftOver, Painting, Sweeping, Done
<1> QED
  BY <1>0, <1>2, <1>3, <1>4, <1>5, <1>6 DEF UserStep

LEMMA CollectorTrue ==
  ASSUME TInv, BeginCollection \/ GcStep
  PROVE  VisitsAreTrue' /\ NewbornsAreLeaves' /\ NothingLeftOver'
<1> USE DEF TInv
<1>1. TypeOK /\ UNCHANGED <<roots, writer, readers, visiting, fresh>> /\ Nobody \notin Mutators
  BY CollectorFrame DEF SInv, VInv
<1>2. \A s \in Mutators : \A o \in visiting[s] : o \in Cells /\ writer[o] = s
  BY <1>1 DEF SInv, Safe, UsersAreTidy, UserIsTidy, TypeOK
<1>3. \A o \in Cells : status'[o] = status[o] \/ (WriteFree(o) /\ status'[o] # "newly")
  BY <1>1 DEF BeginCollection, GcStep, PaintWhite, BeginPaintBlack, PushRoots, PopInProgress, Transfer, TransferInHand,
         GcVisit, VisitObj, DrainDone, NextIteration, StartIteration, EndPaintBlack, StartFilter, FilterCell,
         FilterColours, FilterDone, BeginFree, Free, EndFree, EndCollection, heapVars, TypeOK
<1>4. VisitsAreTrue'
  <2>1. \A s \in Mutators : \A o \in visiting[s] : status'[o] = status[o]
    BY <1>1, <1>2, <1>3 DEF WriteFree
  <2>2. UNCHANGED refs \/ gcPc = "free"
    BY DEF BeginCollection, GcStep, PaintWhite, BeginPaintBlack, PushRoots, PopInProgress, Transfer, TransferInHand,
           GcVisit, DrainDone, NextIteration, StartIteration, EndPaintBlack, StartFilter, FilterCell,
           FilterColours, FilterDone, BeginFree, Free, EndFree, EndCollection, heapVars
  <2>3. gcPc = "free" => \A s \in Mutators : visiting[s] = {}
    BY NobodyVisits DEF Painting
  <2> QED
    BY <1>1, <2>1, <2>2, <2>3, SameReachable DEF VisitsAreTrue
<1>5. NewbornsAreLeaves'
  <2> SUFFICES ASSUME Painting' \/ Sweeping', NEW o \in Cells, status'[o] = "newly" PROVE rtLen'[o] = 0
    BY DEF NewbornsAreLeaves
  <2>1. status[o] = "newly" /\ rtLen'[o] \in {rtLen[o], 0}
    BY <1>1, <1>3 DEF BeginCollection, GcStep, PaintWhite, BeginPaintBlack, PushRoots, PopInProgress, Transfer,
           TransferInHand, GcVisit, DrainDone, NextIteration, StartIteration, EndPaintBlack, StartFilter, FilterCell,
           FilterColours, FilterDone, BeginFree, Free, EndFree, EndCollection, heapVars, TypeOK
  <2>2. CASE Painting \/ Sweeping
    BY <2>1, <2>2 DEF NewbornsAreLeaves
  <2>3. CASE ~Painting /\ ~Sweeping
    <3>1. gcPc = "white" /\ cursor = limit
      BY <2>3 DEF Painting, Sweeping, BeginCollection, GcStep, PaintWhite, BeginPaintBlack, PushRoots, PopInProgress,
             Transfer, TransferInHand, GcVisit, DrainDone, NextIteration, StartIteration, EndPaintBlack, StartFilter,
             FilterCell, FilterColours, FilterDone, BeginFree, Free, EndFree, EndCollection
    <3>2. rtLen[o] = 0
      BY <2>1, <3>1, <1>1 DEF SInv, Safe, WalksAreTrue, TypeOK, Cells
    <3> QED
      BY <2>1, <3>2
  <2> QED
    BY <2>2, <2>3
<1>6. NothingLeftOver'
  <2>1. CASE BeginCollection \/ PaintWhite
    BY <2>1 DEF BeginCollection, PaintWhite, markVars, NothingLeftOver, Done, Sweeping
  <2>2. CASE DrainDone \/ EndPaintBlack \/ FilterCell \/ FilterDone \/ EndCollection \/ \E o \in Cells : Free(o)
    BY <2>2 DEF DrainDone, EndPaintBlack, StartFilter, FilterCell, FilterColours, FilterDone, EndCollection, Free,
                markVars, NothingLeftOver, Done, Sweeping
  <2>3. CASE BeginPaintBlack \/ PushRoots \/ NextIteration \/ \E o \in Cells : PopInProgress(o) \/ Transfer(o) \/ GcVisit(o)
    <3>1. gcPc' \in {"push", "drain", "transfer", "exit"} \/ (gcPc' \in {"visit", "exit"} /\ productive' = TRUE)
      BY <2>3 DEF BeginPaintBlack, PushRoots, NextIteration, StartIteration, PopInProgress, Transfer, TransferInHand,
                  GcVisit
    <3> QED
      BY <3>1 DEF NothingLeftOver, Done, Sweeping
  <2>4. CASE EndFree \/ \E o \in Cells : BeginFree(o)
    BY <2>4, BlockLockFrame, BlockLockTrue
  <2> QED
    BY <2>1, <2>2, <2>3, <2>4 DEF GcStep
<1> QED
  BY <1>4, <1>5, <1>6

LEMMA TrueIsInductive ==
  ASSUME Discipline, TInv, [Next]_vars
  PROVE  TInv'
<1>1. SInv'
  BY SafeIsInductive DEF TInv
<1>2. CASE UNCHANGED vars
  BY <1>1, <1>2, BlockLockFrame, BlockLockTrue DEF TInv
<1>3. CASE BeginCollection \/ GcStep
  BY <1>1, <1>3, CollectorTrue DEF TInv
<1>4. ASSUME NEW t \in Mutators, UserStep(t) PROVE TInv'
  BY <1>1, <1>4, UserTrue DEF TInv, SInv, VInv
<1> QED
  BY <1>2, <1>3, <1>4 DEF Next

\* What was garbage at the begin of a collection is out of reach, of the stacks
\* too, and no step colours it.
Alive == Cells \ dead

DeadIsDead ==
  gcPc \in {"white", "push", "drain", "transfer", "visit", "filter"} =>
    /\ roots \subseteq Alive
    /\ \A t \in Mutators : visiting[t] \subseteq Alive /\ fresh[t] \subseteq Alive
    /\ \A o \in Alive : refs[o] \subseteq Alive
    /\ inProgress \subseteq Alive /\ inHand \subseteq Alive /\ visitStack \subseteq Alive
    /\ \A o \in dead : /\ status[o] # "free"
                       /\ status[o] = "unvisited" \/ (gcPc = "white" /\ cursor <= o /\ o < limit)

GInv == TInv /\ dead \in SUBSET Cells /\ DeadIsDead

LEMMA UserDead ==
  ASSUME GInv, NEW t \in Mutators, UserStep(t), dead' = IF gcPc' = "free" THEN {} ELSE dead
  PROVE  DeadIsDead'
<1> DEFINE Looking == gcPc \in {"white", "push", "drain", "transfer", "visit", "filter"}
<1>1. /\ TypeOK /\ UNCHANGED <<gcPc, cursor, limit, inHand, visitStack>>
      /\ \A s \in Mutators : visiting[s] \subseteq Cells /\ fresh[s] \subseteq Cells
  BY UserFrame DEF GInv, TInv, SInv, VInv, TypeOK
<1> SUFFICES ASSUME Looking PROVE DeadIsDead'
  BY <1>1 DEF DeadIsDead
<1>2. dead' = dead /\ Alive' = Alive /\ Alive \subseteq Cells /\ dead \subseteq Cells
  BY <1>1 DEF Alive, GInv
<1>3. Reachable \subseteq Alive
  BY ReachableIsLeast DEF GInv, DeadIsDead, Alive
<1>4. /\ roots \subseteq Alive
      /\ \A s \in Mutators : visiting[s] \subseteq Alive /\ fresh[s] \subseteq Alive
      /\ \A o \in Alive : refs[o] \subseteq Alive
      /\ inProgress \subseteq Alive /\ inHand \subseteq Alive /\ visitStack \subseteq Alive
      /\ \A o \in dead : /\ status[o] # "free"
                         /\ status[o] = "unvisited" \/ (gcPc = "white" /\ cursor <= o /\ o < limit)
  BY DEF GInv, DeadIsDead
<1> DEFINE Kept == /\ roots' \subseteq Alive
                   /\ \A s \in Mutators : visiting'[s] \subseteq Alive /\ fresh'[s] \subseteq Alive
                   /\ \A o \in Alive : refs'[o] \subseteq Alive
                   /\ inProgress' \subseteq Alive
                   /\ \A o \in dead : status'[o] = status[o]
<1>5. SUFFICES Kept
  BY <1>1, <1>2, <1>4 DEF DeadIsDead
<1>0. ASSUME AwaitBlock(t) \/ NoRoom(t)
      PROVE  Kept
  BY <1>0, <1>4 DEF AwaitBlock, NoRoom, heapVars, gcVars, markVars
<1>6. ASSUME NEW o \in Cells, NEW hold \in BOOLEAN, Malloc(t, o, hold)
      PROVE  Kept
  <2>1. status[o] = "free"
    BY <1>1, <1>6, FreeCellsAreFree DEF Malloc, MayMalloc, GInv, TInv, SInv, VInv
  <2>2. o \in Alive
    BY <2>1, <1>4 DEF Alive
  <2>3. /\ UNCHANGED <<roots, visiting, inProgress>>
        /\ \A x \in Cells : /\ refs'[x] = IF x = o THEN {} ELSE refs[x]
                            /\ x # o => status'[x] = status[x]
        /\ \A s \in Mutators : fresh'[s] \subseteq fresh[s] \cup {o}
    BY <1>1, <1>6 DEF Malloc, MayMalloc, TypeOK, gcVars, markVars
  <2> QED
    BY <2>2, <2>3, <1>2, <1>4 DEF Alive
<1>7. ASSUME NEW o \in Cells, GetRead(t, o) \/ GetWrite(t, o) \/ Unlock(t, o)
      PROVE  Kept
  <2>1. UNCHANGED <<status, refs, roots, inProgress>>
    BY <1>7 DEF GetRead, GetWrite, GrantWrite, Unlock, heapVars, gcVars, markVars
  <2>2. \A s \in Mutators : fresh'[s] \subseteq fresh[s] /\ visiting'[s] \subseteq visiting[s] \cup Reachable
    BY <1>1, <1>7 DEF GetRead, GetWrite, GrantWrite, MayLock, Runs, Unlock, userVars, TypeOK
  <2> QED
    BY <2>1, <2>2, <1>3, <1>4
<1>8. ASSUME NEW o \in Cells, UserVisit(t, o)
      PROVE  Kept
  <2>1. o \in Alive
    BY <1>4, <1>8 DEF UserVisit
  <2>2. /\ UNCHANGED <<refs, roots, fresh>> /\ inProgress' = inProgress \cup refs[o]
        /\ \A x \in Cells : x # o => status'[x] = status[x]
        /\ \A s \in Mutators : visiting'[s] \subseteq visiting[s]
    BY <1>1, <1>8 DEF UserVisit, VisitObj, TypeOK
  <2> QED
    BY <2>1, <2>2, <1>2, <1>4 DEF Alive
<1>9. ASSUME NEW o \in Cells, NEW u \in Cells, StoreRef(t, o, u) \/ DropRef(t, o, u)
      PROVE  Kept
  <2>1. UNCHANGED <<status, roots, visiting, fresh, inProgress>>
    BY <1>9 DEF StoreRef, DropRef, userVars, gcVars, markVars
  <2>2. \A x \in Cells : refs'[x] \subseteq refs[x] \cup Reachable \cup fresh[t]
    BY <1>1, <1>9 DEF StoreRef, DropRef, TypeOK
  <2> QED
    BY <2>1, <2>2, <1>2, <1>3, <1>4
<1>10. ASSUME NEW o \in Cells, Root(t, o) \/ Deroot(t, o)
       PROVE  Kept
  <2>1. UNCHANGED <<status, refs, visiting, fresh, inProgress>>
    BY <1>10 DEF Root, Deroot, userVars, gcVars, markVars
  <2>2. roots' \subseteq roots \cup Reachable \cup fresh[t]
    BY <1>10 DEF Root, Deroot
  <2> QED
    BY <2>1, <2>2, <1>3, <1>4
<1> QED
  BY <1>0, <1>6, <1>7, <1>8, <1>9, <1>10 DEF UserStep

\* All that is not garbage when a collection begins: the heap that mutators can
\* get at, and free cells.
LEMMA BeginDead ==
  ASSUME GInv, BeginCollection, dead' = Garbage
  PROVE  DeadIsDead'
<1> DEFINE R == roots \cup UNION {fresh[t] : t \in Mutators}
<1>1. /\ TypeOK /\ gcPc = "idle" /\ gcPc' = "white" /\ cursor' = 0 /\ limit' = bookLen
      /\ UNCHANGED <<status, refs, roots, visiting, fresh, inProgress, inHand, visitStack>>
  BY DEF BeginCollection, GInv, TInv, SInv, VInv, heapVars, userVars, markVars
<1>2. /\ inProgress = {} /\ inHand = {} /\ visitStack = {}
      /\ \A t \in Mutators : visiting[t] = {}
  BY <1>1, NobodyVisits DEF GInv, TInv, SInv, VInv, Safe, NothingLeftOver, CollectorIsTidy, EmptyOutsideMarking,
                            Phases, Painting
<1>3. R \subseteq ReachableFrom(R) /\ ReachableFrom(R) \subseteq Alive'
  <2>1. R \subseteq Cells
    BY <1>1 DEF TypeOK
  <2> QED
    BY <2>1 DEF ReachableFrom, Alive, Garbage
<1>4. ASSUME NEW o \in Alive' PROVE refs[o] \subseteq Alive'
  <2>1. CASE o \in ReachableFrom(R)
    <3>1. refs[o] \subseteq ReachableFrom(R)
      <4>1. refs[o] \subseteq Cells
        BY <1>1, <2>1 DEF TypeOK, ReachableFrom
      <4>2. \A S \in SUBSET Cells : R \subseteq S /\ Closed(S) => refs[o] \subseteq S
        BY <2>1 DEF ReachableFrom, Closed
      <4> QED
        BY <4>1, <4>2 DEF ReachableFrom
    <3> QED
      BY <3>1, <1>3
  <2>2. CASE o \notin ReachableFrom(R)
    <3>1. o \in Cells /\ status[o] = "free"
      BY <2>2 DEF Alive, Garbage, Allocated
    <3> QED
      BY <3>1 DEF GInv, TInv, SInv, Safe, HeapIsTidy
  <2> QED
    BY <2>1, <2>2
<1>5. ASSUME NEW o \in Garbage PROVE status[o] # "free" /\ 0 <= o /\ o < bookLen
  <2>1. o \in Cells /\ status[o] # "free"
    BY DEF Garbage, Allocated
  <2>2. o \in Book
    BY <2>1 DEF GInv, TInv, SInv, VInv, BookIsClosed
  <2> QED
    BY <2>1, <2>2, <1>1 DEF Book, TypeOK
<1>6. roots \subseteq Alive' /\ \A t \in Mutators : fresh[t] \subseteq Alive'
  BY <1>3
<1> QED
  BY <1>1, <1>2, <1>4, <1>5, <1>6 DEF DeadIsDead

LEMMA CollectorDead ==
  ASSUME GInv, GcStep, dead' = IF gcPc' = "free" THEN {} ELSE dead
  PROVE  DeadIsDead'
<1> DEFINE Looking == gcPc \in {"white", "push", "drain", "transfer", "visit", "filter"}
<1>1. TypeOK /\ UNCHANGED <<roots, visiting, fresh>> /\ \A o \in dead : o \in Cells
  BY CollectorFrame DEF GInv, TInv, SInv, VInv
<1> SUFFICES ASSUME Looking' PROVE DeadIsDead'
  BY DEF DeadIsDead
<1>2. Looking /\ UNCHANGED refs
  BY DEF GcStep, PaintWhite, BeginPaintBlack, PushRoots, PopInProgress, Transfer, TransferInHand,
         GcVisit, DrainDone, NextIteration, StartIteration, EndPaintBlack, StartFilter, FilterCell,
         FilterColours, FilterDone, BeginFree, Free, EndFree, EndCollection, heapVars
<1>3. dead' = dead /\ Alive' = Alive
  BY DEF Alive
<1>4. /\ roots \subseteq Alive
      /\ \A s \in Mutators : visiting[s] \subseteq Alive /\ fresh[s] \subseteq Alive
      /\ \A o \in Alive : refs[o] \subseteq Alive
      /\ inProgress \subseteq Alive /\ inHand \subseteq Alive /\ visitStack \subseteq Alive
      /\ \A o \in dead : /\ status[o] # "free"
                         /\ status[o] = "unvisited" \/ (gcPc = "white" /\ cursor <= o /\ o < limit)
  BY <1>2 DEF GInv, DeadIsDead
<1> DEFINE Stacks == inProgress' \subseteq Alive /\ inHand' \subseteq Alive /\ visitStack' \subseteq Alive
           Colour == \A o \in dead : /\ status'[o] # "free"
                                     /\ status'[o] = "unvisited" \/ (gcPc' = "white" /\ cursor' <= o /\ o < limit')
<1>5. SUFFICES Stacks /\ Colour
  BY <1>1, <1>2, <1>3, <1>4 DEF DeadIsDead
<1>6. CASE PaintWhite
  <2>1. Stacks
    BY <1>4, <1>6 DEF PaintWhite, markVars
  <2>2. /\ gcPc' = "white" /\ cursor' = cursor + 1 /\ limit' = limit
        /\ \A x \in Cells : status'[x] = IF x = cursor /\ status[x] # "free" THEN "unvisited" ELSE status[x]
    BY <1>1, <1>6 DEF PaintWhite, TypeOK
  <2>3. ASSUME NEW o \in dead
        PROVE  /\ status'[o] # "free"
               /\ status'[o] = "unvisited" \/ (cursor + 1 <= o /\ o < limit)
    <3>1. cursor <= o /\ o # cursor => cursor + 1 <= o
      BY <1>1 DEF Cells, TypeOK
    <3> QED
      BY <3>1, <2>2, <1>1, <1>4
  <2> QED
    BY <2>1, <2>2, <2>3
<1>7. CASE BeginPaintBlack
  <2>1. Stacks /\ status' = status /\ cursor = limit
    BY <1>4, <1>7 DEF BeginPaintBlack, heapVars
  <2>2. \A o \in dead : ~(cursor <= o /\ o < limit)
    BY <1>1, <2>1 DEF Cells, TypeOK
  <2> QED
    BY <2>1, <2>2, <1>4
<1>8. ASSUME NEW o \in Cells, Transfer(o) \/ GcVisit(o)
      PROVE  Stacks /\ Colour
  <2>1. o \in Alive /\ gcPc # "white"
    BY <1>4, <1>8 DEF Transfer, TransferInHand, GcVisit
  <2>2. Stacks
    BY <2>1, <1>4, <1>8 DEF Transfer, TransferInHand, GcVisit, VisitObj
  <2>3. \A x \in Cells : x # o => status'[x] = status[x]
    BY <1>1, <1>8 DEF Transfer, TransferInHand, GcVisit, VisitObj, TypeOK
  <2> QED
    BY <2>1, <2>2, <2>3, <1>1, <1>4 DEF Alive
<1>9. CASE PushRoots \/ DrainDone \/ NextIteration \/ EndPaintBlack \/ FilterCell \/ \E o \in Cells : PopInProgress(o)
  <2>1. Stacks /\ status' = status /\ gcPc # "white"
    BY <1>4, <1>9 DEF PushRoots, DrainDone, NextIteration, StartIteration, EndPaintBlack, StartFilter, FilterCell,
                      FilterColours, PopInProgress, heapVars, markVars
  <2> QED
    BY <2>1, <1>4
<1>10. ~FilterDone /\ ~EndCollection /\ ~EndFree /\ \A o \in Cells : ~Free(o) /\ ~BeginFree(o)
  BY DEF FilterDone, EndCollection, EndFree, Free, BeginFree
<1> QED
  BY <1>6, <1>7, <1>8, <1>9, <1>10 DEF GcStep

\* Under the discipline the second guarantee holds (cs.c:38-39): all that was
\* garbage before paint white began is unvisited when marking ends, so that the
\* sweep frees it.
THEOREM GarbageIsSwept == Discipline => (GSpec => []GarbageIsUnvisited)
<1> SUFFICES ASSUME Discipline PROVE GSpec => []GarbageIsUnvisited
  OBVIOUS
<1>1. GInit => GInv
  BY InitVInv, InitSafe, InitTrue DEF GInit, GInv, TInv, SInv, DeadIsDead, Init
<1>2. GInv /\ [GNext]_<<vars, dead>> => GInv'
  <2> SUFFICES ASSUME GInv, [GNext]_<<vars, dead>> PROVE GInv'
    OBVIOUS
  <2>1. [Next]_vars
    BY DEF GNext
  <2>2. TInv'
    BY <2>1, TrueIsInductive DEF GInv
  <2>3. CASE UNCHANGED <<vars, dead>>
    <3>1. DeadIsDead'
      BY <2>3 DEF vars, heapVars, userVars, gcVars, markVars, scanVars, GInv, DeadIsDead, Alive
    <3> QED
      BY <2>2, <2>3, <3>1 DEF GInv
  <2>4. CASE BeginCollection /\ GNext
    <3>1. dead' = Garbage
      BY <2>4 DEF BeginCollection, GNext
    <3>2. dead' \in SUBSET Cells
      BY <3>1 DEF Garbage, Allocated
    <3> QED
      BY <2>2, <2>4, <3>1, <3>2, BeginDead DEF GInv
  <2>5. CASE GcStep /\ GNext
    <3>1. gcPc # "idle"
      BY <2>5 DEF GcStep, PaintWhite, BeginPaintBlack, PushRoots, PopInProgress, Transfer, TransferInHand,
             GcVisit, DrainDone, NextIteration, StartIteration, EndPaintBlack, StartFilter, FilterCell,
             FilterColours, FilterDone, BeginFree, Free, EndFree, EndCollection
    <3>2. dead' = IF gcPc' = "free" THEN {} ELSE dead
      BY <2>5, <3>1 DEF GNext
    <3>3. dead' \in SUBSET Cells
      BY <3>2 DEF GInv
    <3> QED
      BY <2>2, <2>5, <3>2, <3>3, CollectorDead DEF GInv
  <2>6. ASSUME NEW t \in Mutators, UserStep(t), GNext PROVE GInv'
    <3>1. gcPc' = gcPc
      BY <2>6, UserFrame
    <3>2. dead' = IF gcPc' = "free" THEN {} ELSE dead
      BY <2>6, <3>1 DEF GNext
    <3>3. dead' \in SUBSET Cells
      BY <3>2 DEF GInv
    <3> QED
      BY <2>2, <2>6, <3>2, <3>3, UserDead DEF GInv
  <2> QED
    BY <2>3, <2>4, <2>5, <2>6 DEF GNext, Next
<1>3. GInv => GarbageIsUnvisited
  BY DEF GInv, DeadIsDead, GarbageIsUnvisited
<1> QED
  BY <1>1, <1>2, <1>3, PTL DEF GSpec
=============================================================================
