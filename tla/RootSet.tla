------------------------------ MODULE RootSet ------------------------------
(***************************************************************************)
(* The root set of gc_src/cs.c: an array of entries that doubles when it   *)
(* is full.  An entry that is free holds, where another has its address,   *)
(* the index of the next free one.  Every operation is one critical        *)
(* section of root_set_lock, so every operation is one step.               *)
(***************************************************************************)
EXTENDS Naturals, FiniteSets

CONSTANTS
  Addrs,    \* addresses that can be rooted
  MaxRoots, \* bound: entries in the array
  NoId,     \* UINT64_MAX, the end of the free list
  NoAddr    \* NULL_VADDR

ASSUME RootSetAssumption ==
  /\ MaxRoots \in Nat \ {0}
  /\ NoId \notin Nat
  /\ NoAddr \notin Addrs

VARIABLES
  rootSet,   \* the entries: allocated, and the union of next_free and vaddr
  rootCap,   \* root_set_cap
  freeHead   \* free_head

rootVars == <<rootSet, rootCap, freeHead>>

Ids == 0..(MaxRoots - 1)

FreeEntry(n) == [allocated |-> FALSE, word |-> n]
RootEntry(v) == [allocated |-> TRUE, word |-> v]

RootInit ==
  /\ rootSet = [id \in Ids |-> FreeEntry(NoId)]
  /\ rootCap = 1
  /\ freeHead = 0

\* Mutant of Grown: the last entry points behind the array.
GrownOpenEnded ==
  [id \in Ids |-> IF id \in rootCap..(2 * rootCap - 1) THEN FreeEntry(id + 1) ELSE rootSet[id]]

\* The array after the resize in cs_root: the new entries are a list.
Grown ==
  [id \in Ids |-> IF id \in rootCap..(2 * rootCap - 2) THEN FreeEntry(id + 1)
                  ELSE IF id = 2 * rootCap - 1 THEN FreeEntry(NoId) ELSE rootSet[id]]

\* Takes the head h off the free list of the array set.
TakeEntry(set, h, v) ==
  /\ rootSet' = [set EXCEPT ![h] = RootEntry(v)]
  /\ freeHead' = set[h].word

\* cs_root.
Root(v) ==
  IF freeHead = NoId
    THEN /\ 2 * rootCap <= MaxRoots
         /\ rootCap' = 2 * rootCap
         /\ TakeEntry(Grown, rootCap, v)
    ELSE /\ TakeEntry(rootSet, freeHead, v)
         /\ UNCHANGED rootCap

\* The identifiers for which cs_deroot and cs_get_root_vaddr answer CS_SUCCESS.
Valid(id) == id < rootCap /\ rootSet[id].allocated

\* Mutant of Deroot: an identifier that is free already is put on the list again.
DerootTwice(id) ==
  /\ id < rootCap
  /\ rootSet' = [rootSet EXCEPT ![id] = FreeEntry(freeHead)]
  /\ freeHead' = id
  /\ UNCHANGED rootCap

\* cs_deroot.  (With any other identifier it changes nothing.)
Deroot(id) ==
  /\ Valid(id)
  /\ rootSet' = [rootSet EXCEPT ![id] = FreeEntry(freeHead)]
  /\ freeHead' = id
  /\ UNCHANGED rootCap

\* cs_get_root_vaddr: what it answers; it changes nothing.
RootVaddr(id) == IF Valid(id) THEN rootSet[id].word ELSE NoAddr

-----------------------------------------------------------------------------
\* What the free list reaches from its head.
FreeListFrom ==
  LET reached[n \in 0..MaxRoots] ==
        IF n = 0 THEN {freeHead} \ {NoId}
        ELSE reached[n - 1] \cup ({rootSet[id].word : id \in reached[n - 1] \cap Ids} \ {NoId})
  IN reached[MaxRoots]

\* The free list holds the entries of the array that are not allocated, each
\* once: an identifier is neither lost nor given out twice, and a resize takes
\* place only when every entry is in use.
FreeListHasFreeEntries ==
  LET free == {id \in 0..(rootCap - 1) : ~rootSet[id].allocated}
  IN /\ FreeListFrom = free
     /\ \A id, other \in free : rootSet[id].word = rootSet[other].word => id = other
     /\ freeHead \notin {rootSet[id].word : id \in free} \ {NoId}

Map == INSTANCE RootMap
  WITH rooted <- [id \in Ids |-> RootVaddr(id)]
=============================================================================
