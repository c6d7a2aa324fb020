----------------------------- MODULE AddrBook -----------------------------
(***************************************************************************)
(* The address book of gc_src/virt.c: a growing array of address tables    *)
(* and a doubly linked list, threaded through the array, of the tables     *)
(* that have space.  Putting and freeing touch a table under the table's   *)
(* own lock and repair the list later under the lock of the book, so the   *)
(* list and the tables disagree in between.                                *)
(*                                                                         *)
(* Of a table only stack_fill is kept: AddrTable shows what the cells do.  *)
(* Each critical section under the lock of the book is one step.           *)
(***************************************************************************)
EXTENDS Naturals, FiniteSets

CONSTANTS
  Threads,     \* the callers
  TableCap,    \* adb->table_cap
  MaxTables,   \* bound: tables in the book
  MaxLive,     \* bound: addresses allocated or being allocated at a time
  Null         \* ADB_NULL_INDEX

Entries == 0..(MaxTables - 1)

ASSUME AddrBookAssumption ==
  /\ IsFiniteSet(Threads)
  /\ TableCap \in Nat \ {0}
  /\ MaxTables \in Nat \ {0}
  /\ MaxLive \in Nat
  /\ Null \notin Nat

VARIABLES
  bookLen,    \* tables in the book
  bookCap,    \* entries the array has room for
  freeList,   \* head of the free list
  next, prev, \* its links
  inList,     \* in_free_list
  fill,       \* stack_fill of each table: its free cells
  used,       \* addresses of each table that callers hold
  pc,         \* where a thread is in adb_put_p or adb_free
  entry       \* the table it is working on

listVars == <<freeList, next, prev, inList>>
vars == <<bookLen, bookCap, listVars, fill, used, pc, entry>>

Links == Entries \cup {Null}

TypeOK ==
  /\ bookLen \in 0..MaxTables
  /\ bookCap \in Nat
  /\ freeList \in Links
  /\ next \in [Entries -> Links]
  /\ prev \in [Entries -> Links]
  /\ inList \in [Entries -> BOOLEAN]
  /\ fill \in [Entries -> 0..TableCap]
  /\ used \in [Entries -> 0..TableCap]
  /\ pc \in [Threads -> {"idle", "head", "expand", "table", "remove", "push", "add"}]
  /\ entry \in [Threads -> Entries]

Init ==
  /\ bookLen = 0
  /\ bookCap = 1
  /\ freeList = Null
  /\ next = [e \in Entries |-> Null]
  /\ prev = [e \in Entries |-> Null]
  /\ inList = [e \in Entries |-> FALSE]
  /\ fill = [e \in Entries |-> 0]
  /\ used = [e \in Entries |-> 0]
  /\ pc = [t \in Threads |-> "idle"]
  /\ entry = [t \in Threads |-> 0]

Goto(t, label) == pc' = [pc EXCEPT ![t] = label]

\* unsafe_adb_push_free_list: e becomes the head.
PushFreeList(e) ==
  /\ prev' = [f \in Entries |-> IF f = freeList THEN e
                                ELSE IF f = e THEN Null ELSE prev[f]]
  /\ next' = [next EXCEPT ![e] = freeList]
  /\ freeList' = e
  /\ inList' = [inList EXCEPT ![e] = TRUE]

\* Mutant of Unlink: the head of the list is dropped with all that follows it.
UnlinkDropsRest(e) ==
  /\ next' = [f \in Entries |-> IF f \in {e, prev[e]} THEN Null ELSE next[f]]
  /\ prev' = [f \in Entries |-> IF f \in {e, next[e]} THEN Null ELSE prev[f]]
  /\ freeList' = IF prev[e] = Null THEN Null ELSE freeList
  /\ inList' = [inList EXCEPT ![e] = FALSE]

\* The unlinking in adb_try_removal.
Unlink(e) ==
  /\ next' = [f \in Entries |-> IF f = e THEN Null
                                ELSE IF f = prev[e] THEN next[e] ELSE next[f]]
  /\ prev' = [f \in Entries |-> IF f = e THEN Null
                                ELSE IF f = next[e] THEN prev[e] ELSE prev[f]]
  /\ freeList' = IF prev[e] = Null THEN next[e] ELSE freeList
  /\ inList' = [inList EXCEPT ![e] = FALSE]

-----------------------------------------------------------------------------
(***************************************************************************)
(* adb_put_p.                                                              *)
(***************************************************************************)
Putting == {t \in Threads : pc[t] \in {"head", "expand", "table"}}

Live[n \in 0..MaxTables] == IF n = 0 THEN 0 ELSE Live[n - 1] + used[n - 1]

BeginPut(t) ==
  /\ pc[t] = "idle"
  /\ Live[MaxTables] + Cardinality(Putting) < MaxLive
  /\ Goto(t, "head")
  /\ UNCHANGED <<bookLen, bookCap, listVars, fill, used, entry>>

ReadHead(t) ==
  /\ pc[t] = "head"
  /\ IF freeList = Null
       THEN Goto(t, "expand") /\ UNCHANGED entry
       ELSE Goto(t, "table") /\ entry' = [entry EXCEPT ![t] = freeList]
  /\ UNCHANGED <<bookLen, bookCap, listVars, fill, used>>

\* adb_try_expand: another thread may have put a table on the list meanwhile.
SkipExpand(t) ==
  /\ pc[t] = "expand"
  /\ freeList # Null
  /\ Goto(t, "head")
  /\ UNCHANGED <<bookLen, bookCap, listVars, fill, used, entry>>

\* A table with n free cells is added to an array that has room for cap.
AddTable(t, cap, n) ==
  /\ pc[t] = "expand"
  /\ bookLen < MaxTables
  /\ bookCap' = cap
  /\ bookLen' = bookLen + 1
  /\ fill' = [fill EXCEPT ![bookLen] = n]
  /\ PushFreeList(bookLen)
  /\ Goto(t, "head")
  /\ UNCHANGED <<used, entry>>

GrownCap == IF bookLen = bookCap THEN 2 * bookCap ELSE bookCap

\* Mutants of Expand: the free list is not looked at again under the lock; the
\* new table hides a cell.
ExpandUnchecked(t) == AddTable(t, GrownCap, TableCap)

ExpandShort(t) == freeList = Null /\ AddTable(t, GrownCap, TableCap - 1)

Expand(t) == freeList = Null /\ AddTable(t, GrownCap, TableCap)

\* adt_put_p answers ADT_NO_SPACE, ADT_NEWLY_FULL or ADT_SUCCESS.
TableFull(t) ==
  /\ pc[t] = "table"
  /\ fill[entry[t]] = 0
  /\ Goto(t, "head")
  /\ entry' = [entry EXCEPT ![t] = 0]
  /\ UNCHANGED <<bookLen, bookCap, listVars, fill, used>>

TakeCell(t) ==
  LET e == entry[t] IN
  /\ pc[t] = "table"
  /\ fill' = [fill EXCEPT ![e] = @ - 1]
  /\ used' = [used EXCEPT ![e] = @ + 1]
  /\ IF fill[e] = 1
       THEN Goto(t, "remove") /\ UNCHANGED entry
       ELSE Goto(t, "idle") /\ entry' = [entry EXCEPT ![t] = 0]
  /\ UNCHANGED <<bookLen, bookCap, listVars>>

\* Mutant of PutInTable: stack_fill is not tested first.
PutInTableUnchecked(t) == TakeCell(t)

PutInTable(t) == fill[entry[t]] > 0 /\ TakeCell(t)

EndPut(t, remove) ==
  /\ pc[t] = "remove"
  /\ IF remove THEN Unlink(entry[t]) ELSE UNCHANGED listVars
  /\ Goto(t, "idle")
  /\ entry' = [entry EXCEPT ![t] = 0]
  /\ UNCHANGED <<bookLen, bookCap, fill, used>>

\* Mutants of TryRemoval: no second look at stack_fill; no removal at all.
TryRemovalUnchecked(t) == EndPut(t, inList[entry[t]])

TryRemovalNever(t) == EndPut(t, FALSE)

\* adb_try_removal, under the lock of the book and the stack lock of the table.
TryRemoval(t) == EndPut(t, inList[entry[t]] /\ fill[entry[t]] = 0)

-----------------------------------------------------------------------------
(***************************************************************************)
(* adb_free.                                                               *)
(***************************************************************************)
BeginFree(t, e) ==
  /\ pc[t] = "idle"
  /\ used[e] > 0
  /\ used' = [used EXCEPT ![e] = @ - 1]
  /\ Goto(t, "push")
  /\ entry' = [entry EXCEPT ![t] = e]
  /\ UNCHANGED <<bookLen, bookCap, listVars, fill>>

\* The end of adt_free: ADT_NEWLY_FREE if the table was full.
PushFree(t) ==
  LET e == entry[t] IN
  /\ pc[t] = "push"
  /\ fill' = [fill EXCEPT ![e] = @ + 1]
  /\ IF fill[e] = 0
       THEN Goto(t, "add") /\ UNCHANGED entry
       ELSE Goto(t, "idle") /\ entry' = [entry EXCEPT ![t] = 0]
  /\ UNCHANGED <<bookLen, bookCap, listVars, used>>

\* adb_try_addition, under the same two locks.
TryAddition(t) ==
  LET e == entry[t] IN
  /\ pc[t] = "add"
  /\ IF ~inList[e] /\ fill[e] > 0 THEN PushFreeList(e) ELSE UNCHANGED listVars
  /\ Goto(t, "idle")
  /\ entry' = [entry EXCEPT ![t] = 0]
  /\ UNCHANGED <<bookLen, bookCap, fill, used>>

\* What a thread inside a call does next.
Step(t) ==
  \/ ReadHead(t)
  \/ SkipExpand(t)
  \/ Expand(t)
  \/ TableFull(t)
  \/ PutInTable(t)
  \/ TryRemoval(t)
  \/ PushFree(t)
  \/ TryAddition(t)

Next ==
  \E t \in Threads : BeginPut(t) \/ Step(t) \/ \E e \in Entries : BeginFree(t, e)

Spec == Init /\ [][Next]_vars

\* The locks of the book and of a table are held for a few instructions only:
\* a thread that is inside a call goes on.
FairSpec == Spec /\ \A t \in Threads : WF_vars(Step(t))

-----------------------------------------------------------------------------
(***************************************************************************)
(* Properties.                                                             *)
(***************************************************************************)
Adding(e)   == \E t \in Threads : pc[t] = "add" /\ entry[t] = e
Removing(e) == \E t \in Threads : pc[t] = "remove" /\ entry[t] = e
Pushing(e)  == {t \in Threads : pc[t] = "push" /\ entry[t] = e}

\* The links agree with each other and with in_free_list at every entry.
ListIsLinked ==
  /\ freeList # Null => inList[freeList]
  /\ \A e \in Entries :
       /\ inList[e] => e < bookLen
       /\ inList[e] /\ next[e] # Null => inList[next[e]] /\ prev[next[e]] = e
       /\ inList[e] /\ prev[e] # Null => inList[prev[e]] /\ next[prev[e]] = e
       /\ inList[e] => (prev[e] = Null <=> freeList = e)

\* Every listed table is met on the way from the head: no removal or addition
\* beside another one cuts a piece of the list off, or ties it into a ring.
ListIsWhole ==
  \A S \in SUBSET Entries :
    freeList \in S \cup {Null} /\ (\A e \in S : next[e] \in S \cup {Null})
      => \A e \in Entries : inList[e] => e \in S

ListIsSound == ListIsLinked /\ ListIsWhole

\* Where the list and the tables disagree, a thread is on its way to repair it:
\* a table with space that is off the list would otherwise never be used again,
\* a full table on the list would keep adb_put_p spinning on it for ever.
SpaceIsListed == \A e \in Entries : fill[e] > 0 /\ ~inList[e] => Adding(e)
FullIsUnlisted == \A e \in Entries : fill[e] = 0 /\ inList[e] => Removing(e)

ListRepairPending == SpaceIsListed /\ FullIsUnlisted

\* Every cell of a table is free, held by a caller, or about to be pushed.
CellsAccountedFor ==
  \A e \in Entries :
    e < bookLen => fill[e] + used[e] + Cardinality(Pushing(e)) = TableCap

\* The book never writes past its array.
BookFits == bookLen <= bookCap

\* The book grows only when no table is usable: each is full, or just got space
\* and is about to be listed.
GrowsOnlyWhenFull ==
  [][bookLen' > bookLen => \A e \in 0..(bookLen - 1) : fill[e] = 0 \/ Adding(e)]_vars

\* adb_put_p's loop gets somewhere: once callers do not free any more, every
\* put that has begun returns.  (While they do, a put can lose every cell to
\* the others.)
FreesEnd == <>[](\A t \in Threads : pc[t] \notin {"push", "add"})

PutReturns == FreesEnd => \A t \in Threads : (pc[t] = "head") ~> (pc[t] = "idle")
=============================================================================
