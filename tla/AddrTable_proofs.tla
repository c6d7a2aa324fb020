-------------------------- MODULE AddrTable_proofs --------------------------
(***************************************************************************)
(* AddrTable for every set of threads, capacity and set of addresses: its  *)
(* invariants, and that it implements AddrSpace.                           *)
(***************************************************************************)
EXTENDS AddrTable, FiniteSetTheorems, TLAPS

\* A thread carries a physical address exactly while it is inside a put: what
\* the steps of AddrSpace need to know of the calls.
Asked ==
  \A t \in Threads :
    IF pc[t] \in {"put", "put_hold"} THEN arg[t] \in Blocks ELSE arg[t] = Null

\* Inductive as it stands: the place of a cell depends on the places of the
\* others, a lock on a cell keeps adt_free away from it through handles.
IInv == TypeOK /\ SlotsAreOwnedOnce /\ NothingLeaks /\ LockedAreInUse /\ Asked

USE AddrTableAssumption

-----------------------------------------------------------------------------
\* A stack without repetitions that misses a cell has room for it: the push in
\* adt_free stays inside the array.
LEMMA StackHasRoom ==
  ASSUME TypeOK, StackOnce, NEW c \in Cells, c \notin OnStack
  PROVE  stackFill < Cap
<1> USE DEF Cells
<1> SUFFICES ASSUME stackFill = Cap PROVE FALSE
  BY DEF TypeOK
<1>1. IsFiniteSet(Cells) /\ Cardinality(Cells) = Cap
  BY FS_Interval
<1>2. freeStack \in Injection(Cells, Cells)
  BY DEF TypeOK, StackOnce, Injection, IsInjective
<1>3. freeStack \in Surjection(Cells, Cells)
  BY <1>1, <1>2, FS_Injection
<1>4. PICK i \in Cells : freeStack[i] = c
  BY <1>3 DEF Surjection
<1> QED
  BY <1>4 DEF OnStack

LEMMA InitIInv == Init => IInv
<1> SUFFICES ASSUME Init PROVE IInv
  OBVIOUS
<1>1. TypeOK
  BY DEF Init, InitStack, TypeOK, Cells
<1>2. SlotsAreOwnedOnce
  BY DEF Init, InitStack, Cells, SlotsAreOwnedOnce, StackOnce, OnePlace, HandlesResolve, OnStack, Carried
<1>3. NothingLeaks
  BY DEF Init, InitStack, Cells, NothingLeaks, OnStack
<1>4. LockedAreInUse
  BY DEF Init, InitStack, LockedAreInUse, WriteFree
<1>5. Asked
  BY DEF Init, InitStack, Asked
<1> QED
  BY <1>1, <1>2, <1>3, <1>4, <1>5 DEF IInv

-----------------------------------------------------------------------------
(***************************************************************************)
(* One lemma per critical section.                                         *)
(***************************************************************************)
LEMMA PutPopStep ==
  ASSUME IInv, NEW t \in Threads, NEW p \in Blocks, NEW hold \in BOOLEAN, PutPop(t, p, hold)
  PROVE  IInv'
<1> DEFINE top == freeStack[stackFill - 1]
<1>1. top \in Cells /\ top \in OnStack /\ ~allocated[top]
  BY DEF IInv, TypeOK, Cells, PutPop, PutPopAt, OnStack, SlotsAreOwnedOnce, OnePlace
<1>2. OnStack' = OnStack \ {top}
  <2>1. stackFill \in 1..Cap /\ stackFill' = stackFill - 1 /\ freeStack' = freeStack
    BY DEF IInv, TypeOK, PutPop, PutPopAt
  <2>2. 0..(stackFill - 1) = 0..(stackFill - 2) \cup {stackFill - 1}
    BY <2>1
  <2>3. \A i \in 0..(stackFill - 2) : freeStack[i] # top
    BY <2>1 DEF IInv, SlotsAreOwnedOnce, StackOnce
  <2>4. OnStack' = {freeStack[i] : i \in 0..(stackFill - 2)}
    BY <2>1 DEF OnStack
  <2> QED
    BY <2>2, <2>3, <2>4 DEF OnStack
<1>3. \A u \in Threads : /\ Carried(u)' <=> Carried(u) \/ u = t
                         /\ index'[u] = IF u = t THEN top ELSE index[u]
  BY <1>1 DEF IInv, TypeOK, PutPop, PutPopAt, Carried
<1>4. TypeOK'
  <2>1. stackFill' \in 0..Cap
    BY DEF IInv, TypeOK, PutPop, PutPopAt
  <2>2. index' \in [Threads -> Cells] /\ arg' \in [Threads -> Blocks \cup {Null}]
    BY <1>1 DEF IInv, TypeOK, PutPop, PutPopAt
  <2>3. pc' \in [Threads -> {"idle", "put", "put_hold", "free", "push"}]
    BY DEF IInv, TypeOK, PutPop, PutPopAt
  <2> QED
    BY <2>1, <2>2, <2>3 DEF IInv, TypeOK, PutPop, PutPopAt
<1>5. StackOnce'
  <2>1. 0..(stackFill' - 1) \subseteq 0..(stackFill - 1) /\ freeStack' = freeStack
    BY DEF IInv, TypeOK, PutPop, PutPopAt
  <2> QED
    BY <2>1 DEF IInv, SlotsAreOwnedOnce, StackOnce
<1>6. OnePlace'
  BY <1>1, <1>2, <1>3 DEF IInv, PutPop, PutPopAt, SlotsAreOwnedOnce, OnePlace
<1>7. HandlesResolve'
  BY DEF IInv, TypeOK, PutPop, PutPopAt, SlotsAreOwnedOnce, HandlesResolve
<1>8. NothingLeaks'
  <2>1. \A u \in Threads : Carried(u) => Carried(u)' /\ index'[u] = index[u]
    BY <1>3 DEF PutPop, PutPopAt, Carried
  <2> QED
    BY <1>1, <1>2, <1>3, <2>1 DEF IInv, PutPop, PutPopAt, NothingLeaks
<1>9. LockedAreInUse' /\ Asked'
  BY DEF IInv, TypeOK, PutPop, PutPopAt, LockedAreInUse, WriteFree, Asked
<1> QED
  BY <1>4, <1>5, <1>6, <1>7, <1>8, <1>9 DEF IInv, SlotsAreOwnedOnce

LEMMA PutCellStep ==
  ASSUME IInv, NEW t \in Threads, PutCell(t)
  PROVE  IInv'
<1> DEFINE c == index[t]
<1>1. c \in Cells /\ c \notin OnStack /\ ~allocated[c] /\ Carried(t) /\ arg[t] \in Blocks
  BY DEF IInv, TypeOK, PutCell, Carried, SlotsAreOwnedOnce, OnePlace, Asked
<1>2. OnStack' = OnStack
  BY DEF PutCell, OnStack
<1>3. \A u \in Threads : /\ Carried(u)' <=> Carried(u) /\ u # t
                         /\ u # t => index'[u] = index[u] /\ pc'[u] = pc[u]
  BY DEF IInv, TypeOK, PutCell, Carried
<1>4. TypeOK'
  <2>1. allocated' \in [Cells -> BOOLEAN] /\ handles' \in SUBSET Cells
    BY <1>1 DEF IInv, TypeOK, PutCell
  <2>2. paddr' \in [Cells -> Blocks \cup {Null}]
    BY <1>1 DEF IInv, TypeOK, PutCell
  <2>3. writer' \in [Cells -> Threads \cup {Nobody}]
    BY <1>1 DEF IInv, TypeOK, PutCell
  <2>4. pc' \in [Threads -> {"idle", "put", "put_hold", "free", "push"}]
    BY DEF IInv, TypeOK, PutCell
  <2>5. index' \in [Threads -> Cells] /\ arg' \in [Threads -> Blocks \cup {Null}]
    BY DEF IInv, TypeOK, PutCell, Cells
  <2> QED
    BY <2>1, <2>2, <2>3, <2>4, <2>5 DEF IInv, TypeOK, PutCell
<1>5. StackOnce'
  BY DEF IInv, PutCell, SlotsAreOwnedOnce, StackOnce
<1>6. OnePlace'
  BY <1>1, <1>2, <1>3 DEF IInv, TypeOK, PutCell, SlotsAreOwnedOnce, OnePlace
<1>7. HandlesResolve'
  <2>1. pc'[t] = "idle"
    BY DEF IInv, TypeOK, PutCell
  <2> QED
    BY <1>1, <1>3, <2>1 DEF IInv, TypeOK, PutCell, SlotsAreOwnedOnce, HandlesResolve
<1>8. NothingLeaks'
  BY <1>1, <1>2, <1>3 DEF IInv, TypeOK, PutCell, NothingLeaks
<1>9. LockedAreInUse'
  BY <1>1 DEF IInv, TypeOK, PutCell, LockedAreInUse, WriteFree
<1>10. Asked'
  BY <1>1 DEF IInv, TypeOK, PutCell, Asked
<1> QED
  BY <1>4, <1>5, <1>6, <1>7, <1>8, <1>9, <1>10 DEF IInv, SlotsAreOwnedOnce

LEMMA FreeCallStep ==
  ASSUME IInv, NEW t \in Threads, NEW c \in Cells, FreeCall(t, c)
  PROVE  IInv'
<1>1. OnStack' = OnStack
  BY DEF FreeCall, OnStack
<1>2. \A u \in Threads : /\ Carried(u)' <=> Carried(u)
                         /\ Carried(u) => index'[u] = index[u]
  BY DEF IInv, TypeOK, FreeCall, Carried
<1>3. TypeOK'
  BY DEF IInv, TypeOK, FreeCall
<1>4. StackOnce' /\ OnePlace'
  BY <1>1, <1>2 DEF IInv, FreeCall, SlotsAreOwnedOnce, StackOnce, OnePlace
<1>5. HandlesResolve'
  BY DEF IInv, TypeOK, FreeCall, SlotsAreOwnedOnce, HandlesResolve
<1>6. NothingLeaks'
  BY <1>1, <1>2 DEF IInv, FreeCall, NothingLeaks
<1>7. LockedAreInUse' /\ Asked'
  BY DEF IInv, TypeOK, FreeCall, LockedAreInUse, WriteFree, Asked
<1> QED
  BY <1>3, <1>4, <1>5, <1>6, <1>7 DEF IInv, SlotsAreOwnedOnce

LEMMA FreeCellStep ==
  ASSUME IInv, NEW t \in Threads, FreeCell(t)
  PROVE  IInv'
<1> DEFINE c == index[t]
<1>1. c \in Cells /\ allocated[c] /\ c \notin handles /\ c \notin OnStack /\ ~Carried(t)
  BY DEF IInv, TypeOK, FreeCell, ClearCell, Carried, SlotsAreOwnedOnce, OnePlace, HandlesResolve
<1>2. OnStack' = OnStack
  BY DEF FreeCell, ClearCell, OnStack
<1>3. \A u \in Threads : /\ Carried(u)' <=> Carried(u) \/ u = t
                         /\ index'[u] = index[u]
                         /\ u # t => pc'[u] = pc[u]
  BY DEF IInv, TypeOK, FreeCell, ClearCell, Carried
<1>4. TypeOK'
  BY DEF IInv, TypeOK, FreeCell, ClearCell
<1>5. StackOnce'
  BY DEF IInv, FreeCell, ClearCell, SlotsAreOwnedOnce, StackOnce
<1>6. OnePlace'
  BY <1>1, <1>2, <1>3 DEF IInv, TypeOK, FreeCell, ClearCell, SlotsAreOwnedOnce, OnePlace
<1>7. HandlesResolve'
  <2>1. pc'[t] = "push" /\ pc[t] = "free"
    BY DEF IInv, TypeOK, FreeCell, ClearCell
  <2> QED
    BY <1>1, <1>3, <2>1 DEF IInv, TypeOK, FreeCell, ClearCell, SlotsAreOwnedOnce, HandlesResolve
<1>8. NothingLeaks'
  BY <1>1, <1>2, <1>3 DEF IInv, TypeOK, FreeCell, ClearCell, NothingLeaks
<1>9. LockedAreInUse' /\ Asked'
  BY DEF IInv, TypeOK, FreeCell, ClearCell, LockedAreInUse, WriteFree, Asked
<1> QED
  BY <1>4, <1>5, <1>6, <1>7, <1>8, <1>9 DEF IInv, SlotsAreOwnedOnce

LEMMA FreePushStep ==
  ASSUME IInv, NEW t \in Threads, FreePush(t)
  PROVE  IInv'
<1> DEFINE c == index[t]
<1>1. c \in Cells /\ c \notin OnStack /\ ~allocated[c] /\ Carried(t)
  BY DEF IInv, TypeOK, FreePush, Carried, SlotsAreOwnedOnce, OnePlace
<1>2. stackFill \in Cells
  <2>1. stackFill < Cap
    BY <1>1, StackHasRoom DEF IInv, SlotsAreOwnedOnce
  <2> QED
    BY <2>1 DEF IInv, TypeOK, Cells
<1>3. OnStack' = OnStack \cup {c}
  <2>1. 0..(stackFill' - 1) = 0..(stackFill - 1) \cup {stackFill}
    BY <1>2 DEF FreePush, Cells
  <2>2. freeStack'[stackFill] = c
    BY <1>2 DEF IInv, TypeOK, FreePush
  <2>3. \A i \in 0..(stackFill - 1) : freeStack'[i] = freeStack[i]
    BY <1>2 DEF IInv, TypeOK, FreePush, Cells
  <2> QED
    BY <2>1, <2>2, <2>3 DEF OnStack
<1>4. \A u \in Threads : /\ Carried(u)' <=> Carried(u) /\ u # t
                         /\ u # t => index'[u] = index[u] /\ pc'[u] = pc[u]
  BY DEF IInv, TypeOK, FreePush, Carried
<1>5. TypeOK'
  <2>1. freeStack' \in [Cells -> Cells] /\ stackFill' \in 0..Cap
    BY <1>1, <1>2 DEF IInv, TypeOK, FreePush, Cells
  <2>2. pc' \in [Threads -> {"idle", "put", "put_hold", "free", "push"}]
    BY DEF IInv, TypeOK, FreePush
  <2>3. index' \in [Threads -> Cells]
    BY DEF IInv, TypeOK, FreePush, Cells
  <2> QED
    BY <2>1, <2>2, <2>3 DEF IInv, TypeOK, FreePush
<1>6. StackOnce'
  <2>1. 0..(stackFill' - 1) = 0..(stackFill - 1) \cup {stackFill}
    BY <1>2 DEF FreePush, Cells
  <2>2. freeStack'[stackFill] = c
    BY <1>2 DEF IInv, TypeOK, FreePush
  <2>3. \A i \in 0..(stackFill - 1) : freeStack'[i] = freeStack[i] /\ freeStack[i] # c
    BY <1>1, <1>2 DEF IInv, TypeOK, FreePush, OnStack, Cells
  <2> QED
    BY <2>1, <2>2, <2>3 DEF IInv, SlotsAreOwnedOnce, StackOnce
<1>7. OnePlace'
  BY <1>1, <1>3, <1>4 DEF IInv, TypeOK, FreePush, SlotsAreOwnedOnce, OnePlace
<1>8. HandlesResolve'
  <2>1. pc'[t] = "idle"
    BY DEF IInv, TypeOK, FreePush
  <2> QED
    BY <1>4, <2>1 DEF IInv, TypeOK, FreePush, SlotsAreOwnedOnce, HandlesResolve
<1>9. NothingLeaks'
  BY <1>1, <1>3, <1>4 DEF IInv, TypeOK, FreePush, NothingLeaks
<1>10. LockedAreInUse' /\ Asked'
  BY DEF IInv, TypeOK, FreePush, LockedAreInUse, WriteFree, Asked
<1> QED
  BY <1>5, <1>6, <1>7, <1>8, <1>9, <1>10 DEF IInv, SlotsAreOwnedOnce

\* The calls that take and release the lock of a cell, and adt_move_p.
LEMMA CellLockStep ==
  ASSUME IInv, NEW t \in Threads, NEW c \in Cells,
         GetRead(t, c) \/ GetWrite(t, c) \/ AdtUnlock(t, c) \/ \E p \in Blocks : Move(t, c, p)
  PROVE  IInv'
<1>1. UNCHANGED <<freeStack, stackFill, allocated, pc, index, arg, handles>>
  BY DEF GetRead, GetWrite, AdtUnlock, Move, MoveCell
<1>2. /\ OnStack' = OnStack
      /\ \A u \in Threads : Carried(u)' <=> Carried(u)
  BY <1>1 DEF OnStack, Carried
<1>3. TypeOK'
  <2>1. paddr' \in [Cells -> Blocks \cup {Null}]
    BY DEF IInv, TypeOK, GetRead, GetWrite, AdtUnlock, Move, MoveCell
  <2>2. writer' \in [Cells -> Threads \cup {Nobody}]
    BY DEF IInv, TypeOK, GetRead, GetWrite, AdtUnlock, Move, MoveCell
  <2>3. readers' \in [Cells -> SUBSET Threads]
    BY DEF IInv, TypeOK, GetRead, GetWrite, AdtUnlock, Move, MoveCell
  <2> QED
    BY <1>1, <2>1, <2>2, <2>3 DEF IInv, TypeOK
<1>4. SlotsAreOwnedOnce' /\ NothingLeaks'
  BY <1>1, <1>2 DEF IInv, SlotsAreOwnedOnce, StackOnce, OnePlace, HandlesResolve, NothingLeaks
<1>5. LockedAreInUse'
  <2>1. CASE GetRead(t, c)
    BY <2>1 DEF IInv, TypeOK, GetRead, LockedAreInUse, WriteFree
  <2>2. CASE GetWrite(t, c)
    BY <2>2 DEF IInv, TypeOK, GetWrite, LockedAreInUse, WriteFree
  <2>3. CASE AdtUnlock(t, c)
    BY <2>3 DEF IInv, TypeOK, AdtUnlock, LockedAreInUse, WriteFree
  <2>4. CASE \E p \in Blocks : Move(t, c, p)
    BY <2>4 DEF IInv, Move, MoveCell, LockedAreInUse, WriteFree
  <2> QED
    BY <2>1, <2>2, <2>3, <2>4
<1>6. Asked'
  BY <1>1 DEF IInv, Asked
<1> QED
  BY <1>3, <1>4, <1>5, <1>6 DEF IInv

-----------------------------------------------------------------------------
LEMMA NextIInv == IInv /\ [Next]_vars => IInv'
<1> SUFFICES ASSUME IInv, [Next]_vars PROVE IInv'
  OBVIOUS
<1>1. CASE UNCHANGED vars
  BY <1>1 DEF vars, IInv, TypeOK, SlotsAreOwnedOnce, StackOnce, OnePlace, HandlesResolve,
              OnStack, Carried, NothingLeaks, LockedAreInUse, WriteFree, Asked
<1>2. ASSUME NEW t \in Threads, PutCell(t) \/ FreeCell(t) \/ FreePush(t)
      PROVE  IInv'
  BY <1>2, PutCellStep, FreeCellStep, FreePushStep
<1>3. ASSUME NEW t \in Threads, NEW p \in Blocks, NEW hold \in BOOLEAN, PutPop(t, p, hold)
      PROVE  IInv'
  BY <1>3, PutPopStep
<1>4. ASSUME NEW t \in Threads, NEW c \in Cells, FreeCall(t, c)
      PROVE  IInv'
  BY <1>4, FreeCallStep
<1>5. ASSUME NEW t \in Threads, NEW c \in Cells,
             GetRead(t, c) \/ GetWrite(t, c) \/ AdtUnlock(t, c) \/ \E p \in Blocks : Move(t, c, p)
      PROVE  IInv'
  BY <1>5, CellLockStep
<1> QED
  BY <1>1, <1>2, <1>3, <1>4, <1>5 DEF Next

THEOREM Invariance == Spec => []IInv
<1> QED
  BY InitIInv, NextIInv, PTL DEF Spec

\* Every variable of the table keeps its type; adt_free never pushes past the
\* end of the free stack.
THEOREM TypeCorrect == Spec => []TypeOK
<1>1. IInv => TypeOK
  BY DEF IInv
<1> QED
  BY <1>1, Invariance, PTL

\* adt_put_p never hands out an address that is in use, and adt_validate_cell
\* never ends the process of a caller that keeps to the contract.
THEOREM SlotsOwnedOnce == Spec => []SlotsAreOwnedOnce
<1>1. IInv => SlotsAreOwnedOnce
  BY DEF IInv
<1> QED
  BY <1>1, Invariance, PTL

\* No cell is ever lost between the free stack and the table.
THEOREM NoCellLost == Spec => []NothingLeaks
<1>1. IInv => NothingLeaks
  BY DEF IInv
<1> QED
  BY <1>1, Invariance, PTL

\* A locked cell is an address its owner has not given to free.
THEOREM LocksOnLiveAddresses == Spec => []LockedAreInUse
<1>1. IInv => LockedAreInUse
  BY DEF IInv
<1> QED
  BY <1>1, Invariance, PTL

-----------------------------------------------------------------------------
(***************************************************************************)
(* The refinement.  A put maps where it writes the cell, a free unmaps     *)
(* where its caller gives the address up; what adt_free does to the cell   *)
(* and to the stack afterwards is invisible.                               *)
(***************************************************************************)
Mem   == [c \in handles |-> paddr[c]]
Using == [c \in Cells |-> Users(c)]

LEMMA RefinesInit == Init => AS!Init
<1> SUFFICES ASSUME Init PROVE AS!Init
  OBVIOUS
<1>1. Mem = [a \in {} |-> Null]
  BY DEF Init, InitStack, Mem
<1>2. Using = [a \in Cells |-> {}]
  BY DEF Init, InitStack, Using, Users
<1> QED
  BY <1>1, <1>2 DEF Init, InitStack, Mem, Using, AS!Init, InitStack

\* The steps under the lock of one cell change the users of that cell only.
LEMMA UsingChanges ==
  ASSUME IInv, NEW c \in Cells, NEW S,
         \A d \in Cells : d # c => writer'[d] = writer[d] /\ readers'[d] = readers[d],
         Users(c)' = S
  PROVE  Using' = [Using EXCEPT ![c] = S]
  BY DEF Using, Users

LEMMA PutPopRefines ==
  ASSUME IInv, NEW t \in Threads, NEW p \in Blocks, NEW hold \in BOOLEAN, PutPop(t, p, hold)
  PROVE  AS!Ask(t, p)
<1>1. arg[t] = Null
  BY DEF IInv, PutPop, PutPopAt, Asked
<1>2. UNCHANGED Mem /\ UNCHANGED Using
  BY DEF PutPop, PutPopAt, Mem, Using, Users
<1> QED
  BY <1>1, <1>2 DEF PutPop, PutPopAt, AS!Ask, Mem, Using

LEMMA PutCellRefines ==
  ASSUME IInv, NEW t \in Threads, PutCell(t)
  PROVE  \E c \in Cells, hold \in BOOLEAN : AS!Map(t, c, hold)
<1>1. PICK c \in Cells : c = index[t]
  BY DEF IInv, TypeOK
<1>2. PICK hold \in BOOLEAN : hold <=> pc[t] = "put_hold"
  OBVIOUS
<1>3. arg[t] \in Blocks /\ c \notin handles
  BY <1>1 DEF IInv, PutCell, Asked, SlotsAreOwnedOnce, OnePlace, HandlesResolve, Carried
<1>4. Mem' = [b \in handles \cup {c} |-> IF b = c THEN arg[t] ELSE Mem[b]]
  <2>1. handles' = handles \cup {c} /\ paddr' = [paddr EXCEPT ![c] = arg[t]]
    BY <1>1 DEF PutCell
  <2> QED
    BY <2>1 DEF IInv, TypeOK, Mem
<1>5. Using' = [Using EXCEPT ![c] = IF hold THEN {t} ELSE {}]
  <2>1. /\ writer' = [writer EXCEPT ![c] = IF hold THEN t ELSE Nobody]
        /\ readers' = readers /\ readers[c] = {}
    BY <1>1, <1>2 DEF PutCell, WriteFree
  <2>2. Users(c)' = IF hold THEN {t} ELSE {}
    BY <2>1 DEF IInv, TypeOK, Users
  <2>3. \A d \in Cells : d # c => writer'[d] = writer[d] /\ readers'[d] = readers[d]
    BY <2>1 DEF IInv, TypeOK
  <2> QED
    BY <2>2, <2>3, UsingChanges
<1>6. arg[t] # Null /\ arg' = [arg EXCEPT ![t] = Null]
  BY <1>3 DEF PutCell
<1>7. AS!Map(t, c, hold)
  BY <1>3, <1>4, <1>5, <1>6 DEF AS!Map, Mem, Using
<1> QED
  BY <1>7

LEMMA FreeCallRefines ==
  ASSUME IInv, NEW t \in Threads, NEW c \in Cells, FreeCall(t, c)
  PROVE  AS!Unmap(c)
<1>1. Mem' = [b \in handles \ {c} |-> Mem[b]]
  BY DEF FreeCall, Mem
<1>2. UNCHANGED Using /\ UNCHANGED arg
  BY DEF FreeCall, Using, Users
<1>3. c \in handles /\ Users(c) = {}
  BY DEF FreeCall, WriteFree, Users
<1> QED
  BY <1>1, <1>2, <1>3 DEF AS!Unmap, Mem, Using

LEMMA FreeCellRefines ==
  ASSUME IInv, NEW t \in Threads, FreeCell(t)
  PROVE  UNCHANGED <<Mem, arg, Using>>
<1>1. index[t] \in Cells /\ index[t] \notin handles
  BY DEF IInv, TypeOK, FreeCell, ClearCell, SlotsAreOwnedOnce, HandlesResolve
<1>2. UNCHANGED Mem
  BY <1>1 DEF IInv, TypeOK, FreeCell, ClearCell, Mem
<1>3. UNCHANGED Using
  <2>1. writer' = writer /\ readers' = readers
    BY <1>1 DEF IInv, TypeOK, FreeCell, ClearCell, WriteFree
  <2> QED
    BY <2>1 DEF Using, Users
<1> QED
  BY <1>2, <1>3 DEF FreeCell, ClearCell

LEMMA FreePushRefines ==
  ASSUME NEW t \in Threads, FreePush(t)
  PROVE  UNCHANGED <<Mem, arg, Using>>
  BY DEF FreePush, Mem, Using, Users

LEMMA LockRefines ==
  ASSUME IInv, NEW t \in Threads, NEW c \in Cells, GetRead(t, c) \/ GetWrite(t, c)
  PROVE  AS!Lock(t, c)
<1>1. UNCHANGED Mem /\ UNCHANGED arg /\ c \in handles
  BY DEF GetRead, GetWrite, Mem
<1>2. Users(c)' = Users(c) \cup {t}
  <2>1. CASE GetRead(t, c)
    BY <2>1 DEF IInv, TypeOK, GetRead, Users
  <2>2. CASE GetWrite(t, c)
    BY <2>2 DEF IInv, TypeOK, GetWrite, WriteFree, Users
  <2> QED
    BY <2>1, <2>2
<1>3. \A d \in Cells : d # c => writer'[d] = writer[d] /\ readers'[d] = readers[d]
  BY DEF IInv, TypeOK, GetRead, GetWrite
<1>4. Using' = [Using EXCEPT ![c] = Users(c) \cup {t}]
  BY <1>2, <1>3, UsingChanges
<1> QED
  BY <1>1, <1>4 DEF AS!Lock, Mem, Using

LEMMA UnlockRefines ==
  ASSUME IInv, NEW t \in Threads, NEW c \in Cells, AdtUnlock(t, c)
  PROVE  AS!Unlock(t, c)
<1>1. UNCHANGED Mem /\ UNCHANGED arg
  BY DEF AdtUnlock, Mem
<1>2. Users(c)' = Users(c) \ {t}
  <2>1. writer'[c] = Nobody /\ readers'[c] = readers[c] \ {t}
    BY DEF IInv, TypeOK, AdtUnlock
  <2>2. writer[c] # Nobody => writer[c] = t
    BY DEF IInv, TypeOK, AdtUnlock, LockedAreInUse, WriteFree
  <2> QED
    BY <2>1, <2>2 DEF Users
<1>3. \A d \in Cells : d # c => writer'[d] = writer[d] /\ readers'[d] = readers[d]
  BY DEF IInv, TypeOK, AdtUnlock
<1>4. Using' = [Using EXCEPT ![c] = Users(c) \ {t}]
  BY <1>2, <1>3, UsingChanges
<1> QED
  BY <1>1, <1>4 DEF AS!Unlock, Mem, Using

LEMMA MoveRefines ==
  ASSUME IInv, NEW t \in Threads, NEW c \in Cells, NEW p \in Blocks, Move(t, c, p)
  PROVE  AS!Remap(t, c, p)
<1>1. c \in handles /\ UNCHANGED arg
  BY DEF Move, MoveCell
<1>2. Mem' = [Mem EXCEPT ![c] = p]
  BY DEF IInv, TypeOK, Move, MoveCell, Mem
<1>3. UNCHANGED Using
  BY DEF Move, MoveCell, Using, Users
<1>4. Users(c) \subseteq {t}
  BY DEF IInv, Move, MoveCell, LockedAreInUse, WriteFree, Users
<1> QED
  BY <1>1, <1>2, <1>3, <1>4 DEF AS!Remap, Mem, Using

LEMMA RefinesNext == IInv /\ [Next]_vars => [AS!Next]_<<Mem, arg, Using>>
<1> SUFFICES ASSUME IInv, [Next]_vars PROVE AS!Next \/ UNCHANGED <<Mem, arg, Using>>
  OBVIOUS
<1>1. CASE UNCHANGED vars
  BY <1>1 DEF vars, Mem, Using, Users
<1>2. ASSUME NEW t \in Threads, NEW p \in Blocks, NEW hold \in BOOLEAN, PutPop(t, p, hold)
      PROVE  AS!Next
  BY <1>2, PutPopRefines DEF AS!Next
<1>3. ASSUME NEW t \in Threads, PutCell(t)
      PROVE  AS!Next
  BY <1>3, PutCellRefines DEF AS!Next
<1>4. ASSUME NEW t \in Threads, NEW c \in Cells, FreeCall(t, c)
      PROVE  AS!Next
  BY <1>4, FreeCallRefines DEF AS!Next
<1>5. ASSUME NEW t \in Threads, FreeCell(t) \/ FreePush(t)
      PROVE  UNCHANGED <<Mem, arg, Using>>
  BY <1>5, FreeCellRefines, FreePushRefines
<1>6. ASSUME NEW t \in Threads, NEW c \in Cells, GetRead(t, c) \/ GetWrite(t, c)
      PROVE  AS!Next
  BY <1>6, LockRefines DEF AS!Next
<1>7. ASSUME NEW t \in Threads, NEW c \in Cells, AdtUnlock(t, c)
      PROVE  AS!Next
  BY <1>7, UnlockRefines DEF AS!Next
<1>8. ASSUME NEW t \in Threads, NEW c \in Cells, NEW p \in Blocks, Move(t, c, p)
      PROVE  AS!Next
  BY <1>8, MoveRefines DEF AS!Next
<1> QED
  BY <1>1, <1>2, <1>3, <1>4, <1>5, <1>6, <1>7, <1>8 DEF Next

\* The table with its stack, its locks and its windows between them hands out,
\* moves and takes back addresses as virt.h:58-141 has it.
THEOREM Refinement == Spec => ImplementsAddrSpace
<1> QED
  BY RefinesInit, RefinesNext, Invariance, PTL
     DEF Spec, ImplementsAddrSpace, AS!Spec, Mem, Using
=============================================================================
