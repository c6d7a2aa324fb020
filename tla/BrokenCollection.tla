-------------------------- MODULE BrokenCollection --------------------------
(***************************************************************************)
(* The broken collection of util_src/data.c: a deque of cells kept in a    *)
(* doubly linked chain of tables of equal size.  The back is advanced      *)
(* eagerly, as soon as a table is full, the front lazily, when the next    *)
(* cell is pushed.  Tables that become empty stay in the chain, unless the *)
(* collection was made with delete_empty_tables.                           *)
(*                                                                         *)
(* A collection has one user at a time (the collector keeps a lock around  *)
(* each call), so every call is one step.                                  *)
(***************************************************************************)
EXTENDS Naturals, Sequences, FiniteSets

CONSTANTS
  Cell,        \* what a cell can hold
  TableSize,   \* bc->table_size
  Tables,      \* addresses that malloc can return; a bound on the tables alive
  Null,        \* the null pointer
  None         \* no collection, so no sequence of cells; a cell that has not been written

ASSUME BrokenCollectionAssumption ==
  /\ TableSize \in Nat \ {0}
  /\ Tables \subseteq Nat /\ IsFiniteSet(Tables) /\ Tables # {}
  /\ Null \notin Tables
  /\ None \notin Cell

\* "No collection" is not mistaken for the contents of one.
ASSUME NoCollectionAssumption == None \notin Seq(Cell)

VARIABLES
  exists,             \* between new_broken_collection and delete_broken_collection
  delEmpty,           \* bc->delete_empty_tables
  alive,              \* tables that are allocated
  next, prev,         \* headers of the tables
  cells,              \* their cells; None where there is no element, whatever is left there
  first, firstStart,  \* table and index of the first element
  last, lastEnd,      \* table and index behind the last element
  dest                \* what the last call has written, None unless it was a pop

bcVars == <<exists, delEmpty, alive, next, prev, cells, first, firstStart, last, lastEnd, dest>>

Indices == 0..(TableSize - 1)

BcInit ==
  /\ exists = FALSE
  /\ delEmpty = FALSE
  /\ alive = {}
  /\ next = [t \in Tables |-> Null]
  /\ prev = [t \in Tables |-> Null]
  /\ cells = [t \in Tables |-> [i \in Indices |-> None]]
  /\ first = Null /\ firstStart = 0
  /\ last = Null /\ lastEnd = 0
  /\ dest = None

\* The table malloc returns: which of the free addresses makes no difference.
NewTable == CHOOSE t \in Tables \ alive : \A u \in Tables \ alive : t <= u

HasMemory == alive # Tables

\* new_broken_collection.
NewCollection(del) ==
  /\ ~exists
  /\ exists' = TRUE
  /\ delEmpty' = del
  /\ alive' = {NewTable}
  /\ next' = [next EXCEPT ![NewTable] = Null]
  /\ prev' = [prev EXCEPT ![NewTable] = Null]
  /\ first' = NewTable /\ firstStart' = 0
  /\ last' = NewTable /\ lastEnd' = 0
  /\ dest' = None
  /\ UNCHANGED cells

-----------------------------------------------------------------------------
\* The tables met from t on along a link, until the link is null (or, in a
\* broken chain, until there have been as many steps as there are tables).
Along(link, t) ==
  LET met[n \in 0..Cardinality(Tables)] ==
        IF n = 0 THEN {t} \ {Null}
        ELSE met[n - 1] \cup ({link[u] : u \in met[n - 1]} \ {Null})
  IN met[Cardinality(Tables)]

\* The tables bc_get_num_tables counts: backward from the first, then forward.
Chain == (Along(prev, first) \ {first}) \cup Along(next, first)

\* Mutant of DeletedTables: the tables in front of the first are forgotten.
DeletedForward == Along(next, first)

\* What delete_broken_collection frees.
DeletedTables == Chain

DeleteCollection ==
  /\ exists
  /\ exists' = FALSE
  /\ alive' = alive \ DeletedTables
  /\ first' = Null /\ firstStart' = 0
  /\ last' = Null /\ lastEnd' = 0
  /\ delEmpty' = FALSE
  /\ cells' = [t \in Tables |-> [i \in Indices |-> None]]
  /\ next' = [t \in Tables |-> Null]
  /\ prev' = [t \in Tables |-> Null]
  /\ dest' = None

\* bc_empty.
Empty == first = last /\ firstStart = lastEnd

\* The place behind the place p, a table and an index: where bc_foreach goes on.
After(p) == IF p[2] + 1 = TableSize THEN <<next[p[1]], 0>> ELSE <<p[1], p[2] + 1>>

\* bc_foreach: the cells from the first to the last, in the order the consumer
\* is called on them.  A walk that falls off the chain sees None.
Contents ==
  LET walk[p \in (Tables \cup {Null}) \X Indices] ==
        IF p = <<last, lastEnd>> THEN <<>>
        ELSE IF p[1] = Null THEN <<None>>
        ELSE <<cells[p[1]][p[2]]>> \o walk[After(p)]
  IN walk[<<first, firstStart>>]

\* There is memory for n more cells at the back.
RoomFor(n) ==
  (lastEnd + n) \div TableSize <= Cardinality(Along(next, last) \ {last})
                                    + Cardinality(Tables \ alive)

-----------------------------------------------------------------------------
\* bc_push_back: a table that is full after the write is left for the next one,
\* which is allocated when the chain ends here.
PushBack(v) ==
  /\ exists
  /\ cells' = [cells EXCEPT ![last][lastEnd] = v]
  /\ IF lastEnd + 1 < TableSize
       THEN lastEnd' = lastEnd + 1 /\ UNCHANGED <<alive, next, prev, last>>
       ELSE /\ lastEnd' = 0
            /\ IF next[last] = Null
                 THEN /\ HasMemory
                      /\ alive' = alive \cup {NewTable}
                      /\ next' = [next EXCEPT ![last] = NewTable, ![NewTable] = Null]
                      /\ prev' = [prev EXCEPT ![NewTable] = last]
                      /\ last' = NewTable
                 ELSE last' = next[last] /\ UNCHANGED <<alive, next, prev>>
  /\ dest' = None
  /\ UNCHANGED <<exists, delEmpty, first, firstStart>>

\* bc_push_front.
PushFront(v) ==
  /\ exists
  /\ IF firstStart > 0
       THEN /\ firstStart' = firstStart - 1
            /\ cells' = [cells EXCEPT ![first][firstStart - 1] = v]
            /\ UNCHANGED <<alive, next, prev, first>>
       ELSE /\ firstStart' = TableSize - 1
            /\ IF prev[first] = Null
                 THEN /\ HasMemory
                      /\ alive' = alive \cup {NewTable}
                      /\ next' = [next EXCEPT ![NewTable] = first]
                      /\ prev' = [prev EXCEPT ![first] = NewTable, ![NewTable] = Null]
                      /\ cells' = [cells EXCEPT ![NewTable][TableSize - 1] = v]
                      /\ first' = NewTable
                 ELSE /\ first' = prev[first]
                      /\ cells' = [cells EXCEPT ![prev[first]][TableSize - 1] = v]
                      /\ UNCHANGED <<alive, next, prev>>
  /\ dest' = None
  /\ UNCHANGED <<exists, delEmpty, last, lastEnd>>

\* The table dropped when an end leaves it, and the link to it that is cut.
DropTable(t) == alive' = IF delEmpty THEN alive \ {t} ELSE alive

\* Mutant of PopBack: it never backs up.
PopBackInTable ==
  /\ exists /\ ~Empty
  /\ lastEnd' = IF lastEnd = 0 THEN 0 ELSE lastEnd - 1
  /\ dest' = cells[last][lastEnd']
  /\ cells' = [cells EXCEPT ![last][lastEnd'] = None]
  /\ UNCHANGED <<exists, delEmpty, alive, next, prev, first, firstStart, last>>

\* bc_pop_back.  (An empty collection ends the process: the callers ask first.)
PopBack ==
  /\ exists /\ ~Empty
  /\ IF lastEnd = 0
       THEN /\ last' = prev[last] /\ lastEnd' = TableSize - 1
            /\ DropTable(last)
            /\ next' = IF delEmpty THEN [next EXCEPT ![prev[last]] = Null] ELSE next
       ELSE /\ lastEnd' = lastEnd - 1
            /\ UNCHANGED <<last, alive, next>>
  /\ dest' = cells[last'][lastEnd']
  /\ cells' = [cells EXCEPT ![last'][lastEnd'] = None]
  /\ UNCHANGED <<exists, delEmpty, prev, first, firstStart>>

\* bc_pop_front.
PopFront ==
  /\ exists /\ ~Empty
  /\ dest' = cells[first][firstStart]
  /\ cells' = [cells EXCEPT ![first][firstStart] = None]
  /\ IF firstStart + 1 = TableSize
       THEN /\ first' = next[first] /\ firstStart' = 0
            /\ DropTable(first)
            /\ prev' = IF delEmpty THEN [prev EXCEPT ![next[first]] = Null] ELSE prev
       ELSE /\ firstStart' = firstStart + 1
            /\ UNCHANGED <<first, alive, prev>>
  /\ UNCHANGED <<exists, delEmpty, next, last, lastEnd>>

-----------------------------------------------------------------------------
(***************************************************************************)
(* Properties.                                                             *)
(***************************************************************************)
\* The links of the tables alive agree in both directions and lead from the
\* first to the last, both ends point into a table ("last_end will always be a
\* valid index to place into"), and the chain holds every table that was
\* allocated: none is leaked by a push or used after a pop has freed it, and
\* after delete_broken_collection nothing is left.  With delete_empty_tables
\* there is no table beyond either end.
ChainIsSound ==
  IF ~exists THEN alive = {}
  ELSE /\ {first, last} \subseteq alive
       /\ firstStart \in Indices /\ lastEnd \in Indices
       /\ last \in Along(next, first)
       /\ first = last => firstStart <= lastEnd
       /\ \A t \in alive : /\ next[t] # Null => next[t] \in alive /\ prev[next[t]] = t
                           /\ prev[t] # Null => prev[t] \in alive /\ next[prev[t]] = t
       /\ alive = Chain
       /\ delEmpty => prev[first] = Null /\ next[last] = Null

Deq == INSTANCE Deque WITH contents <- IF exists THEN Contents ELSE None
=============================================================================
