----------------------------- MODULE AddrTable -----------------------------
(***************************************************************************)
(* The address table of gc_src/virt.c: Cap cells, each with a              *)
(* reader/writer lock of its own, and a stack of the indices of the free   *)
(* cells under a lock of its own.  adt_put_p and adt_free cross from one   *)
(* lock to the other; between the two an index is in neither place.        *)
(*                                                                         *)
(* A critical section under the stack lock is one step; so is one under a  *)
(* cell lock that is released before the call returns.                     *)
(***************************************************************************)
EXTENDS Naturals, FiniteSets

CONSTANTS
  Threads,   \* the callers
  Nobody,    \* the owner of a lock nobody holds
  Cap,       \* adt_h->cap
  Blocks,    \* physical addresses
  Null       \* the NULL physical address

ASSUME AddrTableAssumption ==
  /\ Nobody \notin Threads
  /\ Cap \in Nat \ {0}
  /\ Null \notin Blocks

Cells == 0..(Cap - 1)

VARIABLES
  freeStack,   \* the array of indices behind the header
  stackFill,   \* how many of its entries count
  allocated,   \* the allocated flag of each cell
  paddr,       \* its physical address
  writer,      \* who has its write lock
  readers,     \* who has its read lock
  pc,          \* where a thread is in a call
  index,       \* the cell that call is about
  arg,         \* the physical address being put
  handles      \* addresses returned by a put and not given to free yet

vars == <<freeStack, stackFill, allocated, paddr, writer, readers, pc, index,
          arg, handles>>

TypeOK ==
  /\ freeStack \in [Cells -> Cells]
  /\ stackFill \in 0..Cap
  /\ allocated \in [Cells -> BOOLEAN]
  /\ paddr \in [Cells -> Blocks \cup {Null}]
  /\ writer \in [Cells -> Threads \cup {Nobody}]
  /\ readers \in [Cells -> SUBSET Threads]
  /\ pc \in [Threads -> {"idle", "put", "put_hold", "free", "push"}]
  /\ index \in [Threads -> Cells]
  /\ arg \in [Threads -> Blocks \cup {Null}]
  /\ handles \in SUBSET Cells

\* A table of unallocated cells, its free stack full of indices from first on.
InitStack(first) ==
  /\ freeStack = [i \in Cells |-> first + i]
  /\ stackFill = Cap
  /\ allocated = [c \in Cells |-> FALSE]
  /\ paddr = [c \in Cells |-> Null]
  /\ writer = [c \in Cells |-> Nobody]
  /\ readers = [c \in Cells |-> {}]
  /\ pc = [t \in Threads |-> "idle"]
  /\ index = [t \in Threads |-> 0]
  /\ arg = [t \in Threads |-> Null]
  /\ handles = {}

\* new_addr_table: the stack starts full, in the order of the cells.
Init == InitStack(0)

WriteFree(c) == writer[c] = Nobody /\ readers[c] = {}

-----------------------------------------------------------------------------
\* adt_put_p takes the index at place i of the stack and lowers its top.
PutPopAt(t, p, hold, i) ==
  /\ pc[t] = "idle"
  /\ stackFill > 0
  /\ stackFill' = stackFill - 1
  /\ index' = [index EXCEPT ![t] = freeStack[i]]
  /\ arg' = [arg EXCEPT ![t] = p]
  /\ pc' = [pc EXCEPT ![t] = IF hold THEN "put_hold" ELSE "put"]
  /\ UNCHANGED <<freeStack, allocated, paddr, writer, readers, handles>>

\* Mutant of PutPop: the bottom of the stack, not its top.
PutPopBottom(t, p, hold) == PutPopAt(t, p, hold, 0)

\* adt_put_p up to the unlock of the stack.  With an empty stack it answers
\* ADT_NO_SPACE and changes nothing.
PutPop(t, p, hold) == PutPopAt(t, p, hold, stackFill - 1)

\* The rest of adt_put_p, under the lock of the cell.
PutCell(t) ==
  LET c == index[t] IN
  /\ pc[t] \in {"put", "put_hold"}
  /\ WriteFree(c)
  /\ allocated' = [allocated EXCEPT ![c] = TRUE]
  /\ paddr' = [paddr EXCEPT ![c] = arg[t]]
  /\ writer' = [writer EXCEPT ![c] = IF pc[t] = "put_hold" THEN t ELSE Nobody]
  /\ handles' = handles \cup {c}
  /\ pc' = [pc EXCEPT ![t] = "idle"]
  /\ index' = [index EXCEPT ![t] = 0]
  /\ arg' = [arg EXCEPT ![t] = Null]
  /\ UNCHANGED <<freeStack, stackFill, readers>>

\* A caller gives up an address of its own that nobody has locked: virt.c:303-310
\* leaves any other call undefined.
FreeCall(t, c) ==
  /\ pc[t] = "idle"
  /\ c \in handles
  /\ WriteFree(c)
  /\ handles' = handles \ {c}
  /\ pc' = [pc EXCEPT ![t] = "free"]
  /\ index' = [index EXCEPT ![t] = c]
  /\ UNCHANGED <<freeStack, stackFill, allocated, paddr, writer, readers, arg>>

\* Its cell is no longer allocated; owner has the lock on it afterwards.
ClearCell(t, owner) ==
  LET c == index[t] IN
  /\ pc[t] = "free"
  /\ WriteFree(c)
  /\ allocated[c]
  /\ allocated' = [allocated EXCEPT ![c] = FALSE]
  /\ paddr' = [paddr EXCEPT ![c] = Null]
  /\ writer' = [writer EXCEPT ![c] = owner]
  /\ UNCHANGED <<freeStack, stackFill, readers, arg, handles>>

\* Mutant of FreeCell: an early return, so that the index is never pushed.
FreeCellReturns(t) ==
  /\ ClearCell(t, Nobody)
  /\ pc' = [pc EXCEPT ![t] = "idle"]
  /\ index' = [index EXCEPT ![t] = 0]

\* adt_free up to the unlock of the cell.  An unallocated cell ends the process.
FreeCell(t) ==
  /\ ClearCell(t, Nobody)
  /\ pc' = [pc EXCEPT ![t] = "push"]
  /\ UNCHANGED index

\* The rest of adt_free, under the lock of the stack.
FreePush(t) ==
  /\ pc[t] = "push"
  /\ freeStack' = [freeStack EXCEPT ![stackFill] = index[t]]
  /\ stackFill' = stackFill + 1
  /\ pc' = [pc EXCEPT ![t] = "idle"]
  /\ index' = [index EXCEPT ![t] = 0]
  /\ UNCHANGED <<allocated, paddr, writer, readers, arg, handles>>

\* adt_get_read_p and adt_get_write_p, blocking or not: the try variants return
\* NULL and change nothing where the blocking ones wait.
GetRead(t, c) ==
  /\ pc[t] = "idle"
  /\ c \in handles
  /\ writer[c] = Nobody /\ t \notin readers[c]
  /\ readers' = [readers EXCEPT ![c] = @ \cup {t}]
  /\ UNCHANGED <<freeStack, stackFill, allocated, paddr, writer, pc, index, arg, handles>>

GetWrite(t, c) ==
  /\ pc[t] = "idle"
  /\ c \in handles
  /\ WriteFree(c)
  /\ writer' = [writer EXCEPT ![c] = t]
  /\ UNCHANGED <<freeStack, stackFill, allocated, paddr, readers, pc, index, arg, handles>>

AdtUnlock(t, c) ==
  /\ pc[t] = "idle"
  /\ writer[c] = t \/ t \in readers[c]
  /\ writer' = [writer EXCEPT ![c] = Nobody]
  /\ readers' = [readers EXCEPT ![c] = @ \ {t}]
  /\ UNCHANGED <<freeStack, stackFill, allocated, paddr, pc, index, arg, handles>>

MoveCell(t, c, p) ==
  /\ pc[t] = "idle"
  /\ c \in handles
  /\ paddr' = [paddr EXCEPT ![c] = p]
  /\ UNCHANGED <<freeStack, stackFill, allocated, writer, readers, pc, index, arg, handles>>

\* Mutant of Move: with lck it does not take the lock of the cell.
MoveNoLock(t, c, p) == MoveCell(t, c, p)

\* adt_move_p: with lck it takes and releases the cell's lock itself, without
\* it the caller has the lock already.
Move(t, c, p) == (WriteFree(c) \/ writer[c] = t) /\ MoveCell(t, c, p)

Next ==
  \E t \in Threads :
    \/ \E p \in Blocks, hold \in BOOLEAN : PutPop(t, p, hold)
    \/ PutCell(t)
    \/ \E c \in Cells : FreeCall(t, c)
    \/ FreeCell(t)
    \/ FreePush(t)
    \/ \E c \in Cells : GetRead(t, c)
    \/ \E c \in Cells : GetWrite(t, c)
    \/ \E c \in Cells : AdtUnlock(t, c)
    \/ \E c \in Cells, p \in Blocks : Move(t, c, p)

Spec == Init /\ [][Next]_vars

-----------------------------------------------------------------------------
(***************************************************************************)
(* Properties.                                                             *)
(***************************************************************************)
OnStack == {freeStack[i] : i \in 0..(stackFill - 1)}

Carried(t) == pc[t] \in {"put", "put_hold", "push"}

\* A cell is in exactly one place: on the free stack (once), on its way
\* between the stack and the table in one thread's call, or allocated.  An
\* index in two places is an address handed out twice.
StackOnce ==
  \A i, j \in 0..(stackFill - 1) : freeStack[i] = freeStack[j] => i = j

OnePlace ==
  /\ \A t \in Threads : Carried(t) => index[t] \notin OnStack /\ ~allocated[index[t]]
  /\ \A t, u \in Threads : Carried(t) /\ Carried(u) /\ index[t] = index[u] => t = u
  /\ \A c \in OnStack : ~allocated[c]

\* The address of a put stays good until it is given to free, and one that is
\* being freed is owned by that call alone: adt_validate_cell, which ends the
\* process, never fails for a caller that keeps to the contract.
HandlesResolve ==
  /\ \A c \in handles : allocated[c]
  /\ \A t \in Threads : pc[t] = "free" => allocated[index[t]] /\ index[t] \notin handles
  /\ \A t, u \in Threads : pc[t] = "free" /\ pc[u] = "free" /\ index[t] = index[u] => t = u

SlotsAreOwnedOnce == StackOnce /\ OnePlace /\ HandlesResolve

\* No index is lost: with no call under way the cells that are not allocated
\* are the ones on the stack, so adt_get_fill counts the allocated cells.
NothingLeaks ==
  \A c \in Cells : \/ c \in OnStack
                   \/ allocated[c]
                   \/ \E t \in Threads : Carried(t) /\ index[t] = c

\* A lock on a cell is a lock on an address in use: no put, free or reuse of a
\* cell happens under somebody's read or write lock.
LockedAreInUse ==
  \A c \in Cells : ~WriteFree(c) => c \in handles /\ (readers[c] # {} => writer[c] = Nobody)

\* AddrTable implements AddrSpace: the addresses in use are the ones callers
\* have, with the physical address their cell holds.  So a put never returns an
\* address somebody has, a free or a put never changes what is behind another
\* one, and nothing moves under a thread that has it locked.
Users(c) == readers[c] \cup ({writer[c]} \ {Nobody})

AS == INSTANCE AddrSpace WITH
        Addrs   <- Cells,
        NoBlock <- Null,
        mem     <- [c \in handles |-> paddr[c]],
        asked   <- arg,
        users   <- [c \in Cells |-> Users(c)]

ImplementsAddrSpace == AS!Spec
=============================================================================
