--------------------------- MODULE AddrBook_proofs ---------------------------
(***************************************************************************)
(* AddrBook for every set of threads and every capacity of its tables.     *)
(***************************************************************************)
EXTENDS AddrBook, FiniteSetTheorems, WellFoundedInduction, TLAPS

\* Entries past the end of the book are untouched, and no call works on one.
BookSound ==
  /\ bookLen \in 0..MaxTables /\ bookCap \in Nat \ {0} /\ bookLen <= bookCap
  /\ \A e \in Entries : e >= bookLen => fill[e] = 0 /\ used[e] = 0 /\ ~inList[e]
  /\ \A t \in Threads :
       pc[t] \in {"table", "remove", "push", "add"} => entry[t] < bookLen

\* Following next from a listed table leads away from the head: no rings.
RankedBy(r) ==
  \A e \in Entries : inList[e] /\ next[e] # Null => r[e] < r[next[e]]

Ranked == \E r \in [Entries -> Nat] : RankedBy(r)

ListInv == ListIsLinked /\ Ranked

IInv == TypeOK /\ BookSound /\ ListInv /\ ListRepairPending /\ CellsAccountedFor

USE AddrBookAssumption

-----------------------------------------------------------------------------
(***************************************************************************)
(* The list.                                                               *)
(***************************************************************************)

LEMMA NullIsNoEntry == Null \notin Entries
  BY DEF Entries

LessThan == {ss \in Nat \X Nat : ss[1] < ss[2]}

LEMMA LeastNatural ==
  ASSUME NEW T, T \subseteq Nat, T # {}
  PROVE  \E k \in T : \A n \in T : ~(n < k)
<1>1. IsWellFoundedOn(LessThan, Nat)
  BY NatLessThanWellFounded DEF OpToRel, LessThan
<1>2. PICK k \in T : \A n \in T : ~(<<n, k>> \in LessThan)
  BY <1>1, WFMin
<1> QED
  BY <1>2 DEF LessThan

\* What ListIsLinked and Ranked say together: from the head every listed table
\* is met.  A listed table outside a closed set that holds the head would have
\* one of least rank, and its predecessor would be another.
LEMMA LinkedIsWhole ==
  ASSUME TypeOK, ListInv
  PROVE  ListIsWhole
<1> SUFFICES ASSUME NEW S \in SUBSET Entries,
                    freeList \in S \cup {Null},
                    \A e \in S : next[e] \in S \cup {Null},
                    NEW x \in Entries, inList[x], x \notin S
             PROVE  FALSE
  BY DEF ListIsWhole
<1>1. PICK r \in [Entries -> Nat] : RankedBy(r)
  BY DEF ListInv, Ranked
<1> DEFINE Lost == {e \in Entries : inList[e] /\ e \notin S}
           Ranks == {r[e] : e \in Lost}
<1>2. PICK k \in Ranks : \A n \in Ranks : ~(n < k)
  <2>1. Ranks \subseteq Nat /\ Ranks # {}
    BY <1>1
  <2> HIDE DEF Ranks
  <2> QED
    BY <2>1, LeastNatural
<1>3. PICK e \in Lost : r[e] = k
  OBVIOUS
<1>4. prev[e] # Null /\ prev[e] \in Entries
  <2>1. freeList # e
    BY NullIsNoEntry
  <2>2. prev[e] # Null
    BY <2>1 DEF ListInv, ListIsLinked
  <2> QED
    BY <2>2 DEF TypeOK, Links
<1>5. inList[prev[e]] /\ next[prev[e]] = e /\ e # Null
  BY <1>3, <1>4, NullIsNoEntry DEF ListInv, ListIsLinked
<1>6. prev[e] \in Lost
  BY <1>3, <1>4, <1>5
<1>7. r[prev[e]] < r[e]
  BY <1>1, <1>4, <1>5 DEF RankedBy
<1>8. r[prev[e]] \in Ranks
  BY <1>6
<1> QED
  BY <1>1, <1>2, <1>3, <1>7, <1>8

\* Adding a table that is not listed keeps the list a list.
LEMMA PushKeepsList ==
  ASSUME TypeOK, ListInv, NEW e \in Entries, ~inList[e], e < bookLen',
         PushFreeList(e), bookLen \in Nat, bookLen' \in Nat, bookLen' >= bookLen
  PROVE  ListInv' /\ freeList' \in Links /\ next' \in [Entries -> Links]
                  /\ prev' \in [Entries -> Links] /\ inList' \in [Entries -> BOOLEAN]
<1>1. /\ freeList' = e
      /\ inList' \in [Entries -> BOOLEAN]
      /\ \A f \in Entries : inList'[f] = (f = e \/ inList[f])
  BY DEF PushFreeList, TypeOK
<1>2. /\ next' \in [Entries -> Links]
      /\ \A f \in Entries : next'[f] = IF f = e THEN freeList ELSE next[f]
  BY DEF PushFreeList, TypeOK
<1>3. /\ prev' \in [Entries -> Links]
      /\ \A f \in Entries : prev'[f] = IF f = freeList THEN e ELSE IF f = e THEN Null ELSE prev[f]
  BY DEF PushFreeList, TypeOK, Links
<1>4. e # Null /\ freeList # e
  BY NullIsNoEntry DEF ListInv, ListIsLinked
<1>5. freeList # Null => freeList \in Entries /\ inList[freeList] /\ prev[freeList] = Null
  BY DEF ListInv, ListIsLinked, TypeOK, Links
<1>6. \A f \in Entries : /\ inList[f] => f # e
                         /\ inList[f] /\ next[f] # Null => next[f] # e /\ next[f] \in Entries
                         /\ inList[f] /\ prev[f] # Null => prev[f] # e /\ prev[f] \in Entries
  BY DEF ListInv, ListIsLinked, TypeOK, Links
<1>7. ListIsLinked'
  <2> SUFFICES ASSUME NEW f \in Entries, inList'[f]
               PROVE  /\ f < bookLen'
                      /\ next'[f] # Null => inList'[next'[f]] /\ prev'[next'[f]] = f
                      /\ prev'[f] # Null => inList'[prev'[f]] /\ next'[prev'[f]] = f
                      /\ prev'[f] = Null <=> freeList' = f
    BY <1>1 DEF ListIsLinked
  <2>1. CASE f = e
    BY <2>1, <1>1, <1>2, <1>3, <1>4, <1>5
  <2>2. CASE f # e
    <3>1. inList[f] /\ f < bookLen
      BY <2>2, <1>1 DEF ListInv, ListIsLinked
    <3>2. f < bookLen'
      BY <3>1 DEF Entries
    <3>3. next'[f] # Null => inList'[next'[f]] /\ prev'[next'[f]] = f
      <4> SUFFICES ASSUME next[f] # Null
                   PROVE  inList'[next[f]] /\ prev'[next[f]] = f
        BY <1>2, <2>2
      <4>1. next[f] \in Entries /\ next[f] # e /\ inList[next[f]] /\ prev[next[f]] = f
        BY <3>1, <1>6 DEF ListInv, ListIsLinked
      <4>2. f # Null
        BY NullIsNoEntry
      <4>3. next[f] # freeList
        BY <4>1, <4>2, <1>5
      <4> QED
        BY <4>1, <4>3, <1>1, <1>3
    <3>4. /\ prev'[f] # Null => inList'[prev'[f]] /\ next'[prev'[f]] = f
          /\ prev'[f] # Null
      <4>1. CASE f = freeList
        BY <4>1, <1>1, <1>2, <1>3, <1>4
      <4>2. CASE f # freeList
        <5>1. prev'[f] = prev[f] /\ prev[f] # Null
          BY <4>2, <2>2, <3>1, <1>3 DEF ListInv, ListIsLinked
        <5>2. prev[f] \in Entries /\ prev[f] # e /\ inList[prev[f]] /\ next[prev[f]] = f
          BY <3>1, <5>1, <1>6 DEF ListInv, ListIsLinked
        <5> QED
          BY <5>1, <5>2, <1>1, <1>2
      <4> QED
        BY <4>1, <4>2
    <3> QED
      BY <3>2, <3>3, <3>4, <2>2, <1>1
  <2> QED
    BY <2>1, <2>2
<1>8. Ranked'
  <2>1. PICK r \in [Entries -> Nat] : RankedBy(r)
    BY DEF ListInv, Ranked
  <2> DEFINE s == [f \in Entries |-> IF f = e THEN 0 ELSE r[f] + 1]
  <2>2. s \in [Entries -> Nat]
    BY <2>1
  <2>3. RankedBy(s)'
    <3> SUFFICES ASSUME NEW f \in Entries, inList'[f], next'[f] # Null
                 PROVE  s[f] < s[next'[f]]
      BY DEF RankedBy
    <3>1. CASE f = e
      <4>1. next'[f] = freeList /\ freeList \in Entries /\ freeList # e
        BY <3>1, <1>2, <1>4, <1>5
      <4> QED
        BY <4>1, <3>1, <2>1
    <3>2. CASE f # e
      <4>1. inList[f] /\ next'[f] = next[f] /\ next[f] \in Entries /\ next[f] # e
        BY <3>2, <1>1, <1>2, <1>6
      <4>2. r[f] < r[next[f]]
        BY <4>1, <2>1 DEF RankedBy
      <4> QED
        BY <4>1, <4>2, <3>2, <2>1
    <3> QED
      BY <3>1, <3>2
  <2> QED
    BY <2>2, <2>3 DEF Ranked
<1> QED
  BY <1>1, <1>2, <1>3, <1>7, <1>8 DEF ListInv, Links

\* So does removing one that is.
LEMMA UnlinkKeepsList ==
  ASSUME TypeOK, ListInv, NEW e \in Entries, inList[e], Unlink(e), bookLen' = bookLen
  PROVE  ListInv' /\ freeList' \in Links /\ next' \in [Entries -> Links]
                  /\ prev' \in [Entries -> Links] /\ inList' \in [Entries -> BOOLEAN]
<1>1. /\ inList' \in [Entries -> BOOLEAN]
      /\ \A f \in Entries : inList'[f] = (f # e /\ inList[f])
  BY DEF Unlink, TypeOK
<1>2. /\ next' \in [Entries -> Links]
      /\ \A f \in Entries : next'[f] = IF f = e THEN Null
                                       ELSE IF f = prev[e] THEN next[e] ELSE next[f]
  BY DEF Unlink, TypeOK, Links
<1>3. /\ prev' \in [Entries -> Links]
      /\ \A f \in Entries : prev'[f] = IF f = e THEN Null
                                       ELSE IF f = next[e] THEN prev[e] ELSE prev[f]
  BY DEF Unlink, TypeOK, Links
<1>4. freeList' = IF prev[e] = Null THEN next[e] ELSE freeList
  BY DEF Unlink
<1>5. \A f \in Entries : inList[f] =>
        /\ f < bookLen
        /\ next[f] # Null => next[f] \in Entries /\ inList[next[f]] /\ prev[next[f]] = f
        /\ prev[f] # Null => prev[f] \in Entries /\ inList[prev[f]] /\ next[prev[f]] = f
        /\ prev[f] = Null <=> freeList = f
  BY DEF ListInv, ListIsLinked, TypeOK, Links
<1>6. PICK r \in [Entries -> Nat] : RankedBy(r)
  BY DEF ListInv, Ranked
<1>7. \A f \in Entries : inList[f] => next[f] # f /\ prev[f] # f
  <2> SUFFICES ASSUME NEW f \in Entries, inList[f]
               PROVE  next[f] # f /\ prev[f] # f
    OBVIOUS
  <2>1. next[f] # f
    BY <1>6, NullIsNoEntry DEF RankedBy
  <2> QED
    BY <2>1, <1>5, NullIsNoEntry
<1>8. ListIsLinked'
  <2>1. freeList' # Null => freeList' \in Entries /\ inList'[freeList']
    <3>1. CASE prev[e] = Null
      BY <3>1, <1>1, <1>4, <1>5, <1>7
    <3>2. CASE prev[e] # Null
      <4>1. freeList # e
        BY <3>2, <1>5
      <4>2. freeList # Null => freeList \in Entries /\ inList[freeList]
        BY DEF ListInv, ListIsLinked, TypeOK, Links
      <4> QED
        BY <4>1, <4>2, <3>2, <1>1, <1>4
    <3> QED
      BY <3>1, <3>2
  <2>2. ASSUME NEW f \in Entries, inList'[f]
        PROVE  /\ f < bookLen'
               /\ next'[f] # Null => inList'[next'[f]] /\ prev'[next'[f]] = f
               /\ prev'[f] # Null => inList'[prev'[f]] /\ next'[prev'[f]] = f
               /\ prev'[f] = Null <=> freeList' = f
    <3>1. f # e /\ inList[f] /\ e # Null /\ f # Null
      BY <2>2, <1>1, NullIsNoEntry
    <3>2. next'[f] # Null => inList'[next'[f]] /\ prev'[next'[f]] = f
      <4>1. CASE f = prev[e]
        BY <4>1, <3>1, <1>1, <1>2, <1>3, <1>5, <1>7
      <4>2. CASE f # prev[e]
        <5>1. next'[f] = next[f]
          BY <4>2, <3>1, <1>2
        <5>2. next[f] # Null => next[f] # e /\ next[f] # next[e]
          BY <4>2, <3>1, <1>5
        <5> QED
          BY <5>1, <5>2, <3>1, <1>1, <1>3, <1>5
      <4> QED
        BY <4>1, <4>2
    <3>3. prev'[f] # Null => inList'[prev'[f]] /\ next'[prev'[f]] = f
      <4>1. CASE f = next[e]
        BY <4>1, <3>1, <1>1, <1>2, <1>3, <1>5, <1>7
      <4>2. CASE f # next[e]
        <5>1. prev'[f] = prev[f]
          BY <4>2, <3>1, <1>3
        <5>2. prev[f] # Null => prev[f] # e /\ prev[f] # prev[e]
          BY <4>2, <3>1, <1>5
        <5> QED
          BY <5>1, <5>2, <3>1, <1>1, <1>2, <1>5
      <4> QED
        BY <4>1, <4>2
    <3>4. prev'[f] = Null <=> freeList' = f
      <4>1. CASE f = next[e]
        <5>1. prev'[f] = prev[e] /\ prev[f] = e
          BY <4>1, <3>1, <1>3, <1>5
        <5>2. freeList # f
          BY <5>1, <3>1, <1>5
        <5> QED
          BY <5>1, <5>2, <4>1, <1>4
      <4>2. CASE f # next[e]
        <5>1. prev'[f] = prev[f]
          BY <4>2, <3>1, <1>3
        <5>2. prev[e] = Null => freeList = e
          BY <1>5
        <5> QED
          BY <5>1, <5>2, <4>2, <3>1, <1>4, <1>5
      <4> QED
        BY <4>1, <4>2
    <3> QED
      BY <3>1, <3>2, <3>3, <3>4, <1>5
  <2> QED
    BY <2>1, <2>2 DEF ListIsLinked
<1>9. Ranked'
  <2>1. RankedBy(r)'
    <3> SUFFICES ASSUME NEW f \in Entries, inList'[f], next'[f] # Null
                 PROVE  r[f] < r[next'[f]]
      BY DEF RankedBy
    <3>1. f # e /\ inList[f]
      BY <1>1
    <3>2. CASE f = prev[e]
      <4>1. next'[f] = next[e] /\ next[f] = e /\ e # Null /\ next[e] \in Entries
        BY <3>1, <3>2, <1>2, <1>5, NullIsNoEntry
      <4>2. r[f] < r[e] /\ r[e] < r[next[e]]
        BY <4>1, <3>1, <1>6 DEF RankedBy
      <4> QED
        BY <4>1, <4>2
    <3>3. CASE f # prev[e]
      <4>1. next'[f] = next[f]
        BY <3>1, <3>3, <1>2
      <4> QED
        BY <4>1, <3>1, <1>6 DEF RankedBy
    <3> QED
      BY <3>2, <3>3
  <2> QED
    BY <2>1 DEF Ranked
<1>10. freeList' \in Links
  BY <1>4 DEF TypeOK
<1> QED
  BY <1>1, <1>2, <1>3, <1>8, <1>9, <1>10 DEF ListInv

-----------------------------------------------------------------------------
(***************************************************************************)
(* The steps.                                                              *)
(***************************************************************************)
Labels == {"idle", "head", "expand", "table", "remove", "push", "add"}

LEMMA PushingIsFinite ==
  \A e : IsFiniteSet(Pushing(e)) /\ Cardinality(Pushing(e)) \in Nat
<1> TAKE e
<1>1. Pushing(e) \in SUBSET Threads
  BY DEF Pushing
<1> QED
  BY <1>1, FS_Subset, FS_CardinalityType DEF AddrBookAssumption

\* While t is not in adt_free before the step nor after it.
LEMMA NotPushing ==
  ASSUME TypeOK, NEW t \in Threads, NEW label \in Labels \ {"push"}, pc[t] # "push",
         Goto(t, label), \A u \in Threads \ {t} : entry'[u] = entry[u]
  PROVE  /\ \A e : Pushing(e)' = Pushing(e)
         /\ pc' \in [Threads -> Labels]
         /\ \A u \in Threads : pc'[u] = IF u = t THEN label ELSE pc[u]
<1>1. \A u \in Threads : pc'[u] = IF u = t THEN label ELSE pc[u]
  BY DEF TypeOK, Goto
<1>2. pc' \in [Threads -> Labels]
  BY DEF TypeOK, Goto, Labels
<1> QED
  BY <1>1, <1>2 DEF Pushing

LEMMA InitIInv == Init => IInv
<1> SUFFICES ASSUME Init PROVE IInv
  OBVIOUS
<1>1. TypeOK
  BY DEF Init, TypeOK, Entries, Links
<1>2. BookSound
  BY DEF Init, BookSound, Entries
<1>3. ListInv
  <2>1. ListIsLinked
    BY DEF Init, ListIsLinked
  <2>2. [e \in Entries |-> 0] \in [Entries -> Nat] /\ RankedBy([e \in Entries |-> 0])
    BY DEF Init, RankedBy
  <2> QED
    BY <2>1, <2>2 DEF ListInv, Ranked
<1>4. ListRepairPending
  BY DEF Init, ListRepairPending, SpaceIsListed, FullIsUnlisted
<1>5. CellsAccountedFor
  BY DEF Init, CellsAccountedFor, Entries
<1> QED
  BY <1>1, <1>2, <1>3, <1>4, <1>5 DEF IInv

\* Steps that touch neither the list nor a table.
LEMMA QuietStep ==
  ASSUME IInv, NEW t \in Threads,
         BeginPut(t) \/ ReadHead(t) \/ SkipExpand(t) \/ TableFull(t)
  PROVE  IInv'
<1>1. UNCHANGED <<bookLen, bookCap, listVars, fill, used>>
  BY DEF BeginPut, ReadHead, SkipExpand, TableFull
<1>2. pc[t] \in {"idle", "head", "expand", "table"}
  BY DEF BeginPut, ReadHead, SkipExpand, TableFull
<1>3. PICK label \in {"head", "expand", "table"} :
        /\ Goto(t, label)
        /\ \/ entry' = entry /\ label # "table"
           \/ label = "table" /\ freeList # Null /\ entry' = [entry EXCEPT ![t] = freeList]
           \/ label = "head" /\ entry' = [entry EXCEPT ![t] = 0]
  BY DEF BeginPut, ReadHead, SkipExpand, TableFull
<1>4. freeList # Null => freeList \in Entries /\ inList[freeList] /\ freeList < bookLen
  BY DEF IInv, ListInv, ListIsLinked, TypeOK, Links
<1>5. entry' \in [Threads -> Entries] /\ \A u \in Threads \ {t} : entry'[u] = entry[u]
  <2>1. 0 \in Entries
    BY DEF Entries
  <2> QED
    BY <2>1, <1>3, <1>4 DEF IInv, TypeOK
<1>6. /\ \A e : Pushing(e)' = Pushing(e)
      /\ pc' \in [Threads -> Labels]
      /\ \A u \in Threads : pc'[u] = IF u = t THEN label ELSE pc[u]
  BY <1>2, <1>3, <1>5, NotPushing DEF IInv, Labels
<1>7. TypeOK'
  BY <1>1, <1>5, <1>6 DEF IInv, TypeOK, listVars, Labels, Links
<1>8. BookSound'
  <2>1. label = "table" => entry'[t] < bookLen
    BY <1>3, <1>4 DEF IInv, TypeOK
  <2> QED
    BY <2>1, <1>1, <1>3, <1>5, <1>6 DEF IInv, BookSound, listVars
<1>9. ListInv'
  BY <1>1 DEF IInv, ListInv, ListIsLinked, Ranked, RankedBy, listVars
<1>10. ListRepairPending'
  BY <1>1, <1>2, <1>5, <1>6
     DEF IInv, ListRepairPending, SpaceIsListed, FullIsUnlisted, Adding, Removing, listVars
<1>11. CellsAccountedFor'
  BY <1>1, <1>6 DEF IInv, CellsAccountedFor
<1> QED
  BY <1>7, <1>8, <1>9, <1>10, <1>11 DEF IInv

LEMMA ExpandStep ==
  ASSUME IInv, NEW t \in Threads, Expand(t)
  PROVE  IInv'
<1>1. /\ bookLen \in Entries /\ bookLen \in Nat /\ bookLen' = bookLen + 1
      /\ bookLen' \in 0..MaxTables
  BY DEF IInv, BookSound, Expand, AddTable, Entries, AddrBookAssumption
<1>2. ~inList[bookLen] /\ fill[bookLen] = 0 /\ used[bookLen] = 0
  BY <1>1 DEF IInv, BookSound
<1>3. /\ ListInv' /\ freeList' \in Links /\ next' \in [Entries -> Links]
      /\ prev' \in [Entries -> Links] /\ inList' \in [Entries -> BOOLEAN]
  BY <1>1, <1>2, PushKeepsList DEF IInv, Expand, AddTable
<1>4. \A e \in Entries : /\ inList'[e] = (e = bookLen \/ inList[e])
                         /\ fill'[e] = IF e = bookLen THEN TableCap ELSE fill[e]
  BY <1>1 DEF IInv, TypeOK, Expand, AddTable, PushFreeList
<1>5. /\ \A e : Pushing(e)' = Pushing(e)
      /\ pc' \in [Threads -> Labels]
      /\ \A u \in Threads : pc'[u] = IF u = t THEN "head" ELSE pc[u]
  BY NotPushing DEF IInv, Expand, AddTable, Labels
<1>6. bookCap' \in Nat \ {0} /\ bookLen' <= bookCap'
  BY <1>1 DEF IInv, BookSound, Expand, AddTable, GrownCap
<1>7. TypeOK'
  <2>1. fill' \in [Entries -> 0..TableCap]
    BY <1>1 DEF IInv, TypeOK, Expand, AddTable, AddrBookAssumption
  <2> QED
    BY <2>1, <1>1, <1>3, <1>5, <1>6 DEF IInv, TypeOK, Expand, AddTable, Labels
<1>8. BookSound'
  <2>1. \A e \in Entries : e >= bookLen' => e >= bookLen /\ e # bookLen
    BY <1>1 DEF Entries
  <2>2. \A e \in Entries : e < bookLen => e < bookLen'
    BY <1>1 DEF Entries
  <2> QED
    BY <2>1, <2>2, <1>1, <1>4, <1>5, <1>6 DEF IInv, TypeOK, BookSound, Expand, AddTable
<1>9. ListRepairPending'
  <2>1. \A e \in Entries : (Adding(e) => Adding(e)') /\ (Removing(e) => Removing(e)')
    BY <1>5 DEF Expand, AddTable, Adding, Removing
  <2>2. TableCap > 0
    BY DEF AddrBookAssumption
  <2> QED
    BY <2>1, <2>2, <1>4 DEF IInv, ListRepairPending, SpaceIsListed, FullIsUnlisted
<1>10. CellsAccountedFor'
  <2> SUFFICES ASSUME NEW e \in Entries, e < bookLen'
               PROVE  fill'[e] + used'[e] + Cardinality(Pushing(e)') = TableCap
    BY DEF CellsAccountedFor
  <2>1. CASE e = bookLen
    <3>1. Pushing(e) = {}
      BY <2>1, <1>1 DEF IInv, BookSound, Pushing
    <3>2. fill'[e] = TableCap /\ used'[e] = 0 /\ Cardinality(Pushing(e)') = 0
      BY <2>1, <3>1, <1>2, <1>4, <1>5, FS_EmptySet DEF Expand, AddTable
    <3> QED
      BY <3>2 DEF AddrBookAssumption
  <2>2. CASE e # bookLen
    <3>1. e < bookLen
      BY <2>2, <1>1 DEF Entries
    <3> QED
      BY <2>2, <3>1, <1>4, <1>5 DEF IInv, CellsAccountedFor, Expand, AddTable
  <2> QED
    BY <2>1, <2>2
<1> QED
  BY <1>3, <1>7, <1>8, <1>9, <1>10 DEF IInv

LEMMA PutInTableStep ==
  ASSUME IInv, NEW t \in Threads, PutInTable(t)
  PROVE  IInv'
<1> PICK e \in Entries : e = entry[t]
  BY DEF IInv, TypeOK
<1>1. e \in Entries /\ e < bookLen /\ pc[t] = "table" /\ fill[e] \in 1..TableCap
  BY DEF IInv, TypeOK, BookSound, PutInTable, TakeCell
<1>2. UNCHANGED <<bookLen, bookCap, listVars>>
  BY DEF PutInTable, TakeCell
<1>3. PICK label \in {"remove", "idle"} :
        /\ Goto(t, label)
        /\ IF fill[e] = 1 THEN label = "remove" /\ entry' = entry
                          ELSE label = "idle" /\ entry' = [entry EXCEPT ![t] = 0]
  BY DEF PutInTable, TakeCell
<1>4. entry' \in [Threads -> Entries] /\ \A u \in Threads \ {t} : entry'[u] = entry[u]
  <2>1. 0 \in Entries
    BY DEF Entries, AddrBookAssumption
  <2> QED
    BY <2>1, <1>3 DEF IInv, TypeOK
<1>5. /\ \A d : Pushing(d)' = Pushing(d)
      /\ pc' \in [Threads -> Labels]
      /\ \A u \in Threads : pc'[u] = IF u = t THEN label ELSE pc[u]
  BY <1>1, <1>3, <1>4, NotPushing DEF IInv, Labels
<1>6. /\ fill[e] + used[e] + Cardinality(Pushing(e)) = TableCap
      /\ fill[e] \in Nat /\ used[e] \in Nat /\ Cardinality(Pushing(e)) \in Nat
  BY <1>1, PushingIsFinite DEF IInv, CellsAccountedFor, TypeOK
<1>7. \A d \in Entries : /\ fill'[d] = IF d = e THEN fill[e] - 1 ELSE fill[d]
                         /\ used'[d] = IF d = e THEN used[e] + 1 ELSE used[d]
  BY <1>1 DEF IInv, TypeOK, PutInTable, TakeCell
<1>8. TypeOK'
  <2>1. fill[e] - 1 \in 0..TableCap /\ used[e] + 1 \in 0..TableCap
    BY <1>1, <1>6 DEF AddrBookAssumption
  <2>2. fill' \in [Entries -> 0..TableCap] /\ used' \in [Entries -> 0..TableCap]
    BY <2>1 DEF IInv, TypeOK, PutInTable, TakeCell
  <2> QED
    BY <2>2, <1>2, <1>4, <1>5 DEF IInv, TypeOK, listVars, Labels, Links
<1>9. BookSound'
  BY <1>1, <1>2, <1>3, <1>4, <1>5, <1>7 DEF IInv, BookSound, listVars, Entries
<1>10. ListInv'
  BY <1>2 DEF IInv, ListInv, ListIsLinked, Ranked, RankedBy, listVars
<1>11. ListRepairPending'
  <2>1. \A d \in Entries : Adding(d) => Adding(d)'
    BY <1>1, <1>4, <1>5 DEF Adding
  <2>2. \A d \in Entries : Removing(d) => Removing(d)'
    BY <1>1, <1>4, <1>5 DEF Removing
  <2>3. SpaceIsListed'
    <3>1. \A d \in Entries \ {e} : fill'[d] = fill[d]
      BY <1>7
    <3>2. fill[e] > 0
      BY <1>1 DEF AddrBookAssumption
    <3> QED
      BY <2>1, <3>1, <3>2, <1>2 DEF IInv, ListRepairPending, SpaceIsListed, listVars
  <2>4. FullIsUnlisted'
    <3>1. fill'[e] = 0 => Removing(e)'
      BY <1>1, <1>3, <1>5, <1>7 DEF Removing
    <3>2. \A d \in Entries \ {e} : fill'[d] = fill[d]
      BY <1>7
    <3> QED
      BY <2>2, <3>1, <3>2, <1>2 DEF IInv, ListRepairPending, FullIsUnlisted, listVars
  <2> QED
    BY <2>3, <2>4 DEF ListRepairPending
<1>12. CellsAccountedFor'
  <2>1. fill[e] - 1 + (used[e] + 1) + Cardinality(Pushing(e)) = TableCap
    BY <1>6 DEF AddrBookAssumption
  <2> SUFFICES ASSUME NEW d \in Entries, d < bookLen
               PROVE  fill'[d] + used'[d] + Cardinality(Pushing(d)') = TableCap
    BY <1>2 DEF CellsAccountedFor
  <2>2. CASE d = e
    BY <2>1, <2>2, <1>5, <1>7
  <2>3. CASE d # e
    BY <2>3, <1>5, <1>7 DEF IInv, CellsAccountedFor
  <2> QED
    BY <2>2, <2>3
<1> QED
  BY <1>8, <1>9, <1>10, <1>11, <1>12 DEF IInv

LEMMA TryRemovalStep ==
  ASSUME IInv, NEW t \in Threads, TryRemoval(t)
  PROVE  IInv'
<1> PICK e \in Entries : e = entry[t]
  BY DEF IInv, TypeOK
<1>1. e \in Entries /\ pc[t] = "remove"
  BY DEF IInv, TypeOK, TryRemoval, EndPut
<1>2. /\ UNCHANGED <<bookLen, bookCap, fill, used>>
      /\ Goto(t, "idle") /\ entry' = [entry EXCEPT ![t] = 0]
  BY DEF TryRemoval, EndPut
<1>3. entry' \in [Threads -> Entries] /\ \A u \in Threads \ {t} : entry'[u] = entry[u]
  <2>1. 0 \in Entries
    BY DEF Entries, AddrBookAssumption
  <2> QED
    BY <2>1, <1>2 DEF IInv, TypeOK
<1>4. /\ \A d : Pushing(d)' = Pushing(d)
      /\ pc' \in [Threads -> Labels]
      /\ \A u \in Threads : pc'[u] = IF u = t THEN "idle" ELSE pc[u]
  BY <1>1, <1>2, <1>3, NotPushing DEF IInv, Labels
<1>5. /\ ListInv' /\ freeList' \in Links /\ next' \in [Entries -> Links]
      /\ prev' \in [Entries -> Links] /\ inList' \in [Entries -> BOOLEAN]
      /\ \A d \in Entries : inList'[d] = (inList[d] /\ (d # e \/ fill[e] > 0))
  <2>1. CASE inList[e] /\ fill[e] = 0
    <3>1. Unlink(e)
      BY <2>1 DEF TryRemoval, EndPut
    <3>2. \A d \in Entries : inList'[d] = (inList[d] /\ d # e)
      BY <3>1 DEF IInv, TypeOK, Unlink
    <3> QED
      BY <2>1, <3>1, <3>2, <1>1, <1>2, UnlinkKeepsList DEF IInv
  <2>2. CASE ~(inList[e] /\ fill[e] = 0)
    <3>1. UNCHANGED listVars
      BY <2>2 DEF TryRemoval, EndPut
    <3>2. ListInv'
      BY <3>1, <1>2 DEF IInv, ListInv, ListIsLinked, Ranked, RankedBy, listVars
    <3>3. inList[e] => fill[e] > 0
      BY <2>2, <1>1 DEF IInv, TypeOK, AddrBookAssumption
    <3> QED
      BY <3>1, <3>2, <3>3 DEF IInv, TypeOK, listVars
  <2> QED
    BY <2>1, <2>2
<1>6. TypeOK'
  BY <1>2, <1>3, <1>4, <1>5 DEF IInv, TypeOK, Labels
<1>7. BookSound'
  BY <1>2, <1>3, <1>4, <1>5 DEF IInv, BookSound
<1>8. ListRepairPending'
  <2>1. \A d \in Entries : Adding(d) => Adding(d)'
    BY <1>1, <1>3, <1>4 DEF Adding
  <2>2. \A d \in Entries \ {e} : Removing(d) => Removing(d)'
    BY <1>1, <1>3, <1>4 DEF Removing
  <2>3. SpaceIsListed'
    BY <2>1, <1>2, <1>5 DEF IInv, ListRepairPending, SpaceIsListed
  <2>4. FullIsUnlisted'
    BY <2>2, <1>2, <1>5 DEF IInv, ListRepairPending, FullIsUnlisted
  <2> QED
    BY <2>3, <2>4 DEF ListRepairPending
<1>9. CellsAccountedFor'
  BY <1>2, <1>4 DEF IInv, CellsAccountedFor
<1> QED
  BY <1>5, <1>6, <1>7, <1>8, <1>9 DEF IInv

LEMMA TryAdditionStep ==
  ASSUME IInv, NEW t \in Threads, TryAddition(t)
  PROVE  IInv'
<1> PICK e \in Entries : e = entry[t]
  BY DEF IInv, TypeOK
<1>1. e \in Entries /\ e < bookLen /\ pc[t] = "add" /\ bookLen \in Nat
  BY DEF IInv, TypeOK, BookSound, TryAddition, AddrBookAssumption
<1>2. /\ UNCHANGED <<bookLen, bookCap, fill, used>>
      /\ Goto(t, "idle") /\ entry' = [entry EXCEPT ![t] = 0]
  BY DEF TryAddition
<1>3. entry' \in [Threads -> Entries] /\ \A u \in Threads \ {t} : entry'[u] = entry[u]
  <2>1. 0 \in Entries
    BY DEF Entries, AddrBookAssumption
  <2> QED
    BY <2>1, <1>2 DEF IInv, TypeOK
<1>4. /\ \A d : Pushing(d)' = Pushing(d)
      /\ pc' \in [Threads -> Labels]
      /\ \A u \in Threads : pc'[u] = IF u = t THEN "idle" ELSE pc[u]
  BY <1>1, <1>2, <1>3, NotPushing DEF IInv, Labels
<1>5. /\ ListInv' /\ freeList' \in Links /\ next' \in [Entries -> Links]
      /\ prev' \in [Entries -> Links] /\ inList' \in [Entries -> BOOLEAN]
      /\ \A d \in Entries : inList'[d] = (inList[d] \/ (d = e /\ fill[e] > 0))
  <2>1. CASE ~inList[e] /\ fill[e] > 0
    <3>1. PushFreeList(e)
      BY <2>1 DEF TryAddition
    <3>2. \A d \in Entries : inList'[d] = (inList[d] \/ d = e)
      BY <3>1 DEF IInv, TypeOK, PushFreeList
    <3>3. e < bookLen' /\ bookLen' >= bookLen /\ bookLen' \in Nat
      BY <1>1, <1>2
    <3> QED
      BY <2>1, <3>1, <3>2, <3>3, <1>1, PushKeepsList DEF IInv
  <2>2. CASE ~(~inList[e] /\ fill[e] > 0)
    <3>1. UNCHANGED listVars
      BY <2>2 DEF TryAddition
    <3>2. ListInv'
      BY <3>1, <1>2 DEF IInv, ListInv, ListIsLinked, Ranked, RankedBy, listVars
    <3>3. \A d \in Entries : inList[d] \in BOOLEAN
      BY DEF IInv, TypeOK
    <3>4. fill[e] > 0 => inList[e]
      BY <2>2, <1>1, <3>3
    <3> QED
      BY <3>1, <3>2, <3>4 DEF IInv, TypeOK, listVars
  <2> QED
    BY <2>1, <2>2
<1>6. TypeOK'
  BY <1>2, <1>3, <1>4, <1>5 DEF IInv, TypeOK, Labels
<1>7. BookSound'
  <2>1. \A d \in Entries : d >= bookLen => d # e
    BY <1>1 DEF Entries
  <2> QED
    BY <2>1, <1>2, <1>3, <1>4, <1>5 DEF IInv, BookSound
<1>8. ListRepairPending'
  <2>1. \A d \in Entries \ {e} : Adding(d) => Adding(d)'
    BY <1>1, <1>3, <1>4 DEF Adding
  <2>2. \A d \in Entries : Removing(d) => Removing(d)'
    BY <1>1, <1>3, <1>4 DEF Removing
  <2>3. SpaceIsListed'
    BY <2>1, <1>2, <1>5 DEF IInv, ListRepairPending, SpaceIsListed
  <2>4. FullIsUnlisted'
    <3>1. \A d \in Entries : fill[d] = 0 => ~(fill[d] > 0)
      OBVIOUS
    <3> QED
      BY <2>2, <3>1, <1>2, <1>5 DEF IInv, ListRepairPending, FullIsUnlisted
  <2> QED
    BY <2>3, <2>4 DEF ListRepairPending
<1>9. CellsAccountedFor'
  BY <1>2, <1>4 DEF IInv, CellsAccountedFor
<1> QED
  BY <1>5, <1>6, <1>7, <1>8, <1>9 DEF IInv

LEMMA BeginFreeStep ==
  ASSUME IInv, NEW t \in Threads, NEW e \in Entries, BeginFree(t, e)
  PROVE  IInv'
<1>1. /\ used[e] \in 1..TableCap /\ e < bookLen /\ pc[t] = "idle"
      /\ t \notin Pushing(e)
  <2>1. used[e] \in 1..TableCap /\ pc[t] = "idle"
    BY DEF IInv, TypeOK, BeginFree
  <2>2. e < bookLen
    BY <2>1 DEF IInv, BookSound, TypeOK, Entries
  <2> QED
    BY <2>1, <2>2 DEF Pushing
<1>2. UNCHANGED <<bookLen, bookCap, listVars, fill>>
  BY DEF BeginFree
<1>3. /\ entry' \in [Threads -> Entries]
      /\ \A u \in Threads : entry'[u] = IF u = t THEN e ELSE entry[u]
  BY DEF IInv, TypeOK, BeginFree
<1>4. /\ pc' \in [Threads -> Labels]
      /\ \A u \in Threads : pc'[u] = IF u = t THEN "push" ELSE pc[u]
  BY DEF IInv, TypeOK, BeginFree, Goto, Labels
<1>5. \A d \in Entries : Pushing(d)' = IF d = e THEN Pushing(d) \cup {t} ELSE Pushing(d)
  BY <1>1, <1>3, <1>4 DEF Pushing
<1>6. \A d \in Entries : used'[d] = IF d = e THEN used[e] - 1 ELSE used[d]
  BY DEF IInv, TypeOK, BeginFree
<1>7. TypeOK'
  <2>1. used[e] - 1 \in 0..TableCap
    BY <1>1 DEF AddrBookAssumption
  <2>2. used' \in [Entries -> 0..TableCap]
    BY <2>1 DEF IInv, TypeOK, BeginFree
  <2> QED
    BY <2>2, <1>2, <1>3, <1>4 DEF IInv, TypeOK, listVars, Labels, Links
<1>8. BookSound'
  BY <1>1, <1>2, <1>3, <1>4, <1>6 DEF IInv, BookSound, listVars, Entries
<1>9. ListInv'
  BY <1>2 DEF IInv, ListInv, ListIsLinked, Ranked, RankedBy, listVars
<1>10. ListRepairPending'
  <2>1. \A d \in Entries : (Adding(d) => Adding(d)') /\ (Removing(d) => Removing(d)')
    BY <1>1, <1>3, <1>4 DEF Adding, Removing
  <2> QED
    BY <2>1, <1>2 DEF IInv, ListRepairPending, SpaceIsListed, FullIsUnlisted, listVars
<1>11. CellsAccountedFor'
  <2> SUFFICES ASSUME NEW d \in Entries, d < bookLen
               PROVE  fill'[d] + used'[d] + Cardinality(Pushing(d)') = TableCap
    BY <1>2 DEF CellsAccountedFor
  <2>1. fill[d] + used[d] + Cardinality(Pushing(d)) = TableCap
    BY DEF IInv, CellsAccountedFor
  <2>2. CASE d = e
    <3>1. Cardinality(Pushing(d)') = Cardinality(Pushing(d)) + 1
      BY <2>2, <1>1, <1>5, PushingIsFinite, FS_AddElement
    <3>2. fill'[d] = fill[d] /\ used'[d] = used[d] - 1
      BY <2>2, <1>2, <1>6
    <3>3. fill[d] \in Int /\ used[d] \in Int /\ Cardinality(Pushing(d)) \in Int
      BY PushingIsFinite DEF IInv, TypeOK, AddrBookAssumption
    <3> QED
      BY <2>1, <3>1, <3>2, <3>3
  <2>3. CASE d # e
    BY <2>1, <2>3, <1>2, <1>5, <1>6
  <2> QED
    BY <2>2, <2>3
<1> QED
  BY <1>7, <1>8, <1>9, <1>10, <1>11 DEF IInv

LEMMA PushFreeStep ==
  ASSUME IInv, NEW t \in Threads, PushFree(t)
  PROVE  IInv'
<1> PICK e \in Entries : e = entry[t]
  BY DEF IInv, TypeOK
<1>1. e \in Entries /\ e < bookLen /\ pc[t] = "push" /\ t \in Pushing(e)
  BY DEF IInv, TypeOK, BookSound, PushFree, Pushing
<1>2. UNCHANGED <<bookLen, bookCap, listVars, used>>
  BY DEF PushFree
<1>3. PICK label \in {"add", "idle"} :
        /\ Goto(t, label)
        /\ IF fill[e] = 0 THEN label = "add" /\ entry' = entry
                          ELSE label = "idle" /\ entry' = [entry EXCEPT ![t] = 0]
  BY DEF PushFree
<1>4. entry' \in [Threads -> Entries] /\ \A u \in Threads \ {t} : entry'[u] = entry[u]
  <2>1. 0 \in Entries
    BY DEF Entries, AddrBookAssumption
  <2> QED
    BY <2>1, <1>3 DEF IInv, TypeOK
<1>5. /\ pc' \in [Threads -> Labels]
      /\ \A u \in Threads : pc'[u] = IF u = t THEN label ELSE pc[u]
  BY <1>3 DEF IInv, TypeOK, Goto, Labels
<1>6. \A d \in Entries : Pushing(d)' = IF d = e THEN Pushing(d) \ {t} ELSE Pushing(d)
  BY <1>1, <1>4, <1>5 DEF Pushing
<1>7. \A d \in Entries : fill'[d] = IF d = e THEN fill[e] + 1 ELSE fill[d]
  BY <1>1 DEF IInv, TypeOK, PushFree
<1>8. /\ fill[e] + used[e] + Cardinality(Pushing(e)) = TableCap
      /\ fill[e] \in Nat /\ used[e] \in Nat /\ Cardinality(Pushing(e)) \in Nat
  BY <1>1, PushingIsFinite DEF IInv, CellsAccountedFor, TypeOK
<1>9. /\ Cardinality(Pushing(e)') = Cardinality(Pushing(e)) - 1
      /\ Cardinality(Pushing(e)) > 0
  <2>1. IsFiniteSet(Pushing(e)) /\ IsFiniteSet(Pushing(e) \ {t})
    BY PushingIsFinite, FS_RemoveElement
  <2>2. Cardinality(Pushing(e) \ {t}) = Cardinality(Pushing(e)) - 1
    BY <2>1, <1>1, FS_RemoveElement
  <2>3. Cardinality(Pushing(e)) # 0
    BY <2>1, <1>1, FS_EmptySet
  <2>4. Pushing(e)' = Pushing(e) \ {t}
    BY <1>1, <1>6
  <2> QED
    BY <2>2, <2>3, <2>4, <1>8
<1>10. TypeOK'
  <2>1. fill[e] + 1 \in 0..TableCap
    BY <1>8, <1>9 DEF AddrBookAssumption
  <2>2. fill' \in [Entries -> 0..TableCap]
    BY <2>1 DEF IInv, TypeOK, PushFree
  <2> QED
    BY <2>2, <1>2, <1>4, <1>5 DEF IInv, TypeOK, listVars, Labels, Links
<1>11. BookSound'
  <2>1. \A d \in Entries : d >= bookLen => d # e
    BY <1>1 DEF IInv, TypeOK, Entries
  <2>2. label = "add" => entry'[t] < bookLen
    BY <1>1, <1>3
  <2> QED
    BY <2>1, <2>2, <1>2, <1>3, <1>4, <1>5, <1>7 DEF IInv, BookSound, listVars
<1>12. ListInv'
  BY <1>2 DEF IInv, ListInv, ListIsLinked, Ranked, RankedBy, listVars
<1>13. ListRepairPending'
  <2>1. \A d \in Entries : (Adding(d) => Adding(d)') /\ (Removing(d) => Removing(d)')
    BY <1>1, <1>4, <1>5 DEF Adding, Removing
  <2>2. fill[e] = 0 => Adding(e)'
    BY <1>1, <1>3, <1>5 DEF Adding
  <2>3. fill[e] # 0 => fill[e] > 0
    BY <1>8
  <2>4. \A d \in Entries \ {e} : fill'[d] = fill[d]
    BY <1>7
  <2>5. fill'[e] # 0
    BY <1>1, <1>7, <1>8
  <2>6. SpaceIsListed'
    BY <2>1, <2>2, <2>3, <2>4, <1>2 DEF IInv, ListRepairPending, SpaceIsListed, listVars
  <2>7. FullIsUnlisted'
    BY <2>1, <2>4, <2>5, <1>2 DEF IInv, ListRepairPending, FullIsUnlisted, listVars
  <2> QED
    BY <2>6, <2>7 DEF ListRepairPending
<1>14. CellsAccountedFor'
  <2> SUFFICES ASSUME NEW d \in Entries, d < bookLen
               PROVE  fill'[d] + used'[d] + Cardinality(Pushing(d)') = TableCap
    BY <1>2 DEF CellsAccountedFor
  <2>1. CASE d = e
    <3>1. fill'[d] = fill[d] + 1 /\ used'[d] = used[d]
      BY <2>1, <1>1, <1>2, <1>7
    <3> QED
      BY <2>1, <3>1, <1>8, <1>9 DEF AddrBookAssumption
  <2>2. CASE d # e
    BY <2>2, <1>2, <1>6, <1>7 DEF IInv, CellsAccountedFor
  <2> QED
    BY <2>1, <2>2
<1> QED
  BY <1>10, <1>11, <1>12, <1>13, <1>14 DEF IInv

-----------------------------------------------------------------------------
LEMMA NextIInv == IInv /\ [Next]_vars => IInv'
<1> SUFFICES ASSUME IInv, [Next]_vars PROVE IInv'
  OBVIOUS
<1>1. CASE UNCHANGED vars
  <2>1. /\ UNCHANGED <<bookLen, bookCap, fill, used, pc, entry>>
        /\ UNCHANGED <<freeList, next, prev, inList>>
    BY <1>1 DEF vars, listVars
  <2>2. TypeOK' /\ BookSound'
    BY <2>1 DEF IInv, TypeOK, BookSound, Links
  <2>3. ListInv'
    BY <2>1 DEF IInv, ListInv, ListIsLinked, Ranked, RankedBy
  <2>4. ListRepairPending'
    BY <2>1 DEF IInv, ListRepairPending, SpaceIsListed, FullIsUnlisted, Adding, Removing
  <2>5. \A e \in Entries : Pushing(e)' = Pushing(e)
    BY <2>1 DEF Pushing
  <2>6. CellsAccountedFor'
    BY <2>1, <2>5 DEF IInv, CellsAccountedFor
  <2> QED
    BY <2>2, <2>3, <2>4, <2>6 DEF IInv
<1>2. ASSUME NEW t \in Threads, BeginPut(t) \/ Step(t)
      PROVE  IInv'
  BY <1>2, QuietStep, ExpandStep, PutInTableStep, TryRemovalStep, PushFreeStep,
     TryAdditionStep DEF Step
<1>3. ASSUME NEW t \in Threads, NEW e \in Entries, BeginFree(t, e)
      PROVE  IInv'
  BY <1>3, BeginFreeStep
<1> QED
  BY <1>1, <1>2, <1>3 DEF Next

THEOREM Invariance == Spec => []IInv
<1> QED
  BY InitIInv, NextIInv, PTL DEF Spec

\* Every variable of the book keeps its type: a table never counts more free
\* cells than it has.
THEOREM TypeCorrect == Spec => []TypeOK
<1>1. IInv => TypeOK
  BY DEF IInv
<1> QED
  BY <1>1, Invariance, PTL

\* The links of the free list agree with each other and with in_free_list, and
\* the list never loses a table it lists, whatever the interleaving of removals
\* and additions.
THEOREM ListSound == Spec => []ListIsSound
<1>1. IInv => ListIsSound
  BY LinkedIsWhole DEF IInv, ListInv, ListIsSound
<1> QED
  BY <1>1, Invariance, PTL

\* Where the list and the tables disagree, some call is about to repair it.
THEOREM RepairPending == Spec => []ListRepairPending
<1>1. IInv => ListRepairPending
  BY DEF IInv
<1> QED
  BY <1>1, Invariance, PTL

\* No cell of a table is lost or counted twice.
THEOREM CellsAccounted == Spec => []CellsAccountedFor
<1>1. IInv => CellsAccountedFor
  BY DEF IInv
<1> QED
  BY <1>1, Invariance, PTL

\* adb_try_expand never writes past the array.
THEOREM NoOverrun == Spec => []BookFits
<1>1. IInv => BookFits
  BY DEF IInv, BookSound, BookFits
<1> QED
  BY <1>1, Invariance, PTL

\* The book grows only when every table is full, or is about to be listed.
THEOREM GrowthIsNeeded == Spec => GrowsOnlyWhenFull
<1>1. ASSUME IInv, [Next]_vars
      PROVE  [bookLen' > bookLen => \A e \in 0..(bookLen - 1) : fill[e] = 0 \/ Adding(e)]_vars
  <2> SUFFICES ASSUME bookLen' > bookLen, NEW e \in 0..(bookLen - 1)
               PROVE  fill[e] = 0 \/ Adding(e)
    OBVIOUS
  <2>1. bookLen' # bookLen /\ e \in Entries
    BY <1>1 DEF IInv, TypeOK, Entries, AddrBookAssumption
  <2>2. freeList = Null
    BY <1>1, <2>1 DEF Next, Step, vars, BeginPut, ReadHead, SkipExpand, Expand, AddTable, TableFull,
                      PutInTable, TakeCell, TryRemoval, EndPut, BeginFree, PushFree, TryAddition
  <2>3. ListIsWhole
    BY <1>1, LinkedIsWhole DEF IInv
  <2>4. ~inList[e]
    <3>1. {} \in SUBSET Entries /\ freeList \in {} \cup {Null}
      BY <2>2
    <3>2. inList[e] => e \in {}
      BY <2>1, <2>3, <3>1 DEF ListIsWhole
    <3> QED
      BY <3>2
  <2>5. fill[e] # 0 => fill[e] > 0
    BY <1>1, <2>1 DEF IInv, TypeOK, AddrBookAssumption
  <2> QED
    BY <1>1, <2>1, <2>4, <2>5 DEF IInv, ListRepairPending, SpaceIsListed
<1> QED
  BY <1>1, Invariance, PTL DEF Spec, GrowsOnlyWhenFull
=============================================================================
