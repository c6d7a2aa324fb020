-------------------------- MODULE MarkStack_proofs --------------------------
(***************************************************************************)
(* The root set of MarkStack, for any set of addresses and any number of   *)
(* entries: identifiers are recycled as RootMap promises.  The broken      *)
(* collection, for any number and size of tables: what bc_foreach meets is *)
(* a deque, the tables of which form one chain.  And the two together: the *)
(* roots are copied onto the collection, all of them and in order.         *)
(*                                                                         *)
(* A collection is laid out along a row of tables, a function from the     *)
(* integers from lo to hi, with its first element in table a and the place *)
(* behind its last in table b.  A call moves an end by one place along the *)
(* row, after it has made the row longer or shorter by a table at that     *)
(* end, where it does so.                                                  *)
(***************************************************************************)
EXTENDS MarkStack, Integers, FiniteSetTheorems, SequenceTheorems, WellFoundedInduction, TLAPS

\* The entries of the array that are not allocated.
Free == {id \in 0..(rootCap - 1) : ~rootSet[id].allocated}

\* Each free entry is pointed to once, by the head or by another free entry, so
\* taking the head off leaves a head that is free.
RootsWellFormed ==
  /\ rootCap \in 1..MaxRoots
  /\ rootSet \in [Ids -> [allocated : BOOLEAN, word : Addrs \cup Nat \cup {NoId}]]
  /\ \A id \in Ids : rootSet[id].allocated => id < rootCap /\ rootSet[id].word \in Addrs
  /\ freeHead \in Free \cup {NoId}
  /\ \A id \in Free : rootSet[id].word \in Free \cup {NoId}
  /\ \A id, other \in Free :
       rootSet[id].word = rootSet[other].word /\ rootSet[id].word # NoId => id = other
  /\ \A id \in Free : rootSet[id].word = freeHead => freeHead = NoId

USE RootSetAssumption

LEMMA InitRoots == Init => RootsWellFormed /\ Map!Init
<1> SUFFICES ASSUME Init PROVE RootsWellFormed /\ Map!Init
  OBVIOUS
<1>1. /\ rootSet = [id \in Ids |-> [allocated |-> FALSE, word |-> NoId]]
      /\ rootCap = 1 /\ freeHead = 0
  BY DEF Init, RootInit, FreeEntry
<1>2. Free = {0}
  BY <1>1 DEF Free, Ids
<1>3. RootsWellFormed
  BY <1>1, <1>2 DEF RootsWellFormed, Ids
<1>4. Map!Init
  BY <1>1 DEF Map!Init, RootVaddr, Valid
<1> QED
  BY <1>3, <1>4

-----------------------------------------------------------------------------
\* The address of an identifier depends on its entry and on the length alone.
LEMMA TakeFree ==
  ASSUME RootsWellFormed, NEW v \in Addrs, freeHead # NoId,
         TakeEntry(rootSet, freeHead, v), UNCHANGED rootCap
  PROVE  RootsWellFormed' /\ Map!Root(v)
<1> DEFINE h == freeHead
<1>1. /\ h \in Free /\ h \in Ids /\ h < rootCap /\ ~rootSet[h].allocated
      /\ rootSet' = [rootSet EXCEPT ![h] = [allocated |-> TRUE, word |-> v]]
      /\ freeHead' = rootSet[h].word
  BY DEF RootsWellFormed, TakeEntry, RootEntry, Free, Ids
<1>2. Free' = Free \ {h}
  BY <1>1 DEF Free, RootsWellFormed, Ids
<1>3. rootSet[h].word # h
  BY <1>1 DEF RootsWellFormed
<1>4. RootsWellFormed'
  <2>1. rootCap' \in 1..MaxRoots
    BY DEF RootsWellFormed
  <2>2. rootSet' \in [Ids -> [allocated : BOOLEAN, word : Addrs \cup Nat \cup {NoId}]]
    BY <1>1 DEF RootsWellFormed
  <2>3. \A id \in Ids : rootSet'[id].allocated => id < rootCap' /\ rootSet'[id].word \in Addrs
    BY <1>1 DEF RootsWellFormed
  <2>4. freeHead' \in Free' \cup {NoId}
    BY <1>1, <1>2, <1>3 DEF RootsWellFormed
  <2>5. \A id \in Free' : id \in Free /\ id # h /\ rootSet'[id] = rootSet[id]
    BY <1>1, <1>2 DEF RootsWellFormed, Free, Ids
  <2>6. \A id \in Free' : rootSet'[id].word \in Free' \cup {NoId}
    BY <1>1, <1>2, <2>5 DEF RootsWellFormed
  <2>7. \A id, other \in Free' :
          rootSet'[id].word = rootSet'[other].word /\ rootSet'[id].word # NoId => id = other
    BY <2>5 DEF RootsWellFormed
  <2>8. \A id \in Free' : rootSet'[id].word = freeHead' => freeHead' = NoId
    BY <1>1, <2>5 DEF RootsWellFormed
  <2> QED
    BY <2>1, <2>2, <2>3, <2>4, <2>6, <2>7, <2>8 DEF RootsWellFormed
<1>5. Map!Root(v)
  <2>1. \A id \in Ids : RootVaddr(id)' = IF id = h THEN v ELSE RootVaddr(id)
    BY <1>1 DEF RootVaddr, Valid, RootsWellFormed
  <2>2. RootVaddr(h) = NoAddr
    BY <1>1 DEF RootVaddr, Valid
  <2> QED
    BY <1>1, <2>1, <2>2 DEF Map!Root
<1> QED
  BY <1>4, <1>5

\* The doubled array is well formed, with its new entries as the free list, and
\* no identifier changes its meaning.
LEMMA TakeGrown ==
  ASSUME RootsWellFormed, NEW v \in Addrs, freeHead = NoId, 2 * rootCap <= MaxRoots,
         rootCap' = 2 * rootCap, TakeEntry(Grown, rootCap, v)
  PROVE  RootsWellFormed' /\ Map!Root(v)
<1> DEFINE h == rootCap
           end == 2 * rootCap - 1
           New(id) == [allocated |-> FALSE, word |-> IF id = end THEN NoId ELSE id + 1]
<1>1. /\ h \in Nat /\ end \in Nat /\ h \in Ids /\ end \in Ids /\ h <= end /\ Ids \subseteq Nat
      /\ ~rootSet[h].allocated
  BY DEF RootsWellFormed, Ids
<1>2. \A id \in Ids : Grown[id] = IF id \in h..end THEN New(id) ELSE rootSet[id]
  <2> SUFFICES ASSUME NEW id \in Ids
               PROVE  Grown[id] = IF id \in h..end THEN New(id) ELSE rootSet[id]
    OBVIOUS
  <2>1. Grown[id] = IF id \in h..(2 * h - 2) THEN [allocated |-> FALSE, word |-> id + 1]
                    ELSE IF id = end THEN [allocated |-> FALSE, word |-> NoId] ELSE rootSet[id]
    BY DEF Grown, FreeEntry
  <2>2. id \in Nat /\ (id \in h..end <=> id \in h..(2 * h - 2) \/ id = end) /\ end \notin h..(2 * h - 2)
    BY <1>1
  <2>3. CASE id = end
    BY <2>1, <2>2, <2>3
  <2>4. CASE id # end
    BY <2>1, <2>2, <2>4
  <2> QED
    BY <2>3, <2>4
<1>3. /\ Grown \in [Ids -> [allocated : BOOLEAN, word : Addrs \cup Nat \cup {NoId}]]
  <2>1. \A id \in Ids : New(id) \in [allocated : BOOLEAN, word : Addrs \cup Nat \cup {NoId}]
    BY <1>1
  <2>2. \A id \in Ids : Grown[id] \in [allocated : BOOLEAN, word : Addrs \cup Nat \cup {NoId}]
    <3> SUFFICES ASSUME NEW id \in Ids
                 PROVE  Grown[id] \in [allocated : BOOLEAN, word : Addrs \cup Nat \cup {NoId}]
      OBVIOUS
    <3>1. rootSet[id] \in [allocated : BOOLEAN, word : Addrs \cup Nat \cup {NoId}]
      BY DEF RootsWellFormed
    <3> HIDE DEF New
    <3> QED
      BY <1>2, <2>1, <3>1
  <2> QED
    BY <2>2 DEF Grown
<1>4. /\ rootSet' \in [Ids -> [allocated : BOOLEAN, word : Addrs \cup Nat \cup {NoId}]]
      /\ rootSet'[h] = [allocated |-> TRUE, word |-> v]
      /\ \A id \in Ids : id \in (h + 1)..end => rootSet'[id] = New(id)
      /\ \A id \in Ids : id \notin h..end => rootSet'[id] = rootSet[id]
      /\ freeHead' = IF h = end THEN NoId ELSE h + 1
  <2>1. /\ rootSet' = [Grown EXCEPT ![h] = [allocated |-> TRUE, word |-> v]]
        /\ freeHead' = Grown[h].word
    BY DEF TakeEntry, RootEntry
  <2>2. \A id \in Ids : rootSet'[id] = IF id = h THEN [allocated |-> TRUE, word |-> v] ELSE Grown[id]
    BY <1>1, <1>3, <2>1
  <2>3. rootSet' \in [Ids -> [allocated : BOOLEAN, word : Addrs \cup Nat \cup {NoId}]]
    BY <1>1, <1>3, <2>1
  <2>4. Grown[h] = New(h)
    <3> HIDE DEF New
    <3> QED
      BY <1>1, <1>2
  <2>5. \A id \in Ids : id \in (h + 1)..end => rootSet'[id] = New(id)
    <3>1. \A id \in Ids : id \in (h + 1)..end => id # h /\ id \in h..end
      BY <1>1
    <3> HIDE DEF New
    <3> QED
      BY <1>2, <2>2, <3>1
  <2>6. \A id \in Ids : id \notin h..end => rootSet'[id] = rootSet[id]
    <3>1. \A id \in Ids : id \notin h..end => id # h
      BY <1>1
    <3> QED
      BY <1>2, <2>2, <3>1
  <2> HIDE DEF New
  <2>7. /\ rootSet'[h] = [allocated |-> TRUE, word |-> v]
        /\ freeHead' = IF h = end THEN NoId ELSE h + 1
    BY <1>1, <2>1, <2>2, <2>4 DEF New
  <2> QED
    BY <2>3, <2>5, <2>6, <2>7
<1>5. \A id \in (h + 1)..end :
        id \in Ids /\ ~rootSet'[id].allocated /\ rootSet'[id].word = IF id = end THEN NoId ELSE id + 1
  BY <1>1, <1>4 DEF Ids
<1> HIDE DEF New
<1>6. Free' = Free \cup (h + 1)..end
  <2>1. \A id \in Ids : id < h => rootSet'[id] = rootSet[id]
    BY <1>1, <1>4
  <2>2. \A id \in 0..(rootCap' - 1) : id \in Ids /\ (id < h \/ id = h \/ id \in (h + 1)..end)
    BY <1>1 DEF Ids
  <2>3. \A id \in (h + 1)..end : id \in 0..(rootCap' - 1)
    BY <1>1
  <2> QED
    BY <1>1, <1>4, <1>5, <2>1, <2>2, <2>3 DEF Free
<1>7. Free \subseteq 0..(h - 1)
  BY DEF Free
<1>8. RootsWellFormed'
  <2>1. rootCap' \in 1..MaxRoots
    BY DEF RootsWellFormed
  <2>2. \A id \in Ids : rootSet'[id].allocated => id < rootCap' /\ rootSet'[id].word \in Addrs
    BY <1>1, <1>4, <1>5 DEF RootsWellFormed, Ids
  <2>3. freeHead' \in Free' \cup {NoId}
    BY <1>1, <1>4, <1>6
  <2>4. \A id \in Free : id \in Ids /\ id < h /\ rootSet'[id] = rootSet[id]
    BY <1>1, <1>4, <1>7 DEF Ids, RootsWellFormed
  <2>5. \A id \in (h + 1)..end : rootSet'[id].word = IF id = end THEN NoId ELSE id + 1
    BY <1>5
  <2>6. \A id \in Free' : rootSet'[id].word \in Free' \cup {NoId}
    BY <1>1, <1>6, <2>4, <2>5 DEF RootsWellFormed
  <2>7. \A id, other \in Free' :
          rootSet'[id].word = rootSet'[other].word /\ rootSet'[id].word # NoId => id = other
    <3> SUFFICES ASSUME NEW id \in Free', NEW other \in Free',
                        rootSet'[id].word = rootSet'[other].word, rootSet'[id].word # NoId
                 PROVE  id = other
      OBVIOUS
    <3>1. CASE id \in Free /\ other \in Free
      BY <3>1, <2>4 DEF RootsWellFormed
    <3>2. CASE id \in (h + 1)..end /\ other \in (h + 1)..end
      BY <3>2, <2>5, <1>1
    <3>3. \A i \in Free, j \in (h + 1)..end :
            rootSet'[i].word = rootSet'[j].word => rootSet'[i].word = NoId
      BY <1>1, <1>7, <2>4, <2>5 DEF RootsWellFormed
    <3> QED
      BY <1>6, <3>1, <3>2, <3>3
  <2>8. \A id \in Free' : rootSet'[id].word = freeHead' => freeHead' = NoId
    <3> SUFFICES ASSUME NEW id \in Free', rootSet'[id].word = freeHead', freeHead' # NoId
                 PROVE  FALSE
      OBVIOUS
    <3>1. freeHead' = h + 1 /\ h + 1 # NoId
      BY <1>1, <1>4
    <3>2. CASE id \in Free
      BY <3>1, <3>2, <1>1, <1>7, <2>4 DEF RootsWellFormed
    <3>3. CASE id \in (h + 1)..end
      BY <3>1, <3>3, <1>1, <2>5
    <3> QED
      BY <3>2, <3>3, <1>6
  <2> QED
    BY <2>1, <1>4, <2>2, <2>3, <2>6, <2>7, <2>8 DEF RootsWellFormed
<1>9. Map!Root(v)
  <2>1. \A id \in Ids : RootVaddr(id)' = IF id = h THEN v ELSE RootVaddr(id)
    <3> SUFFICES ASSUME NEW id \in Ids
                 PROVE  RootVaddr(id)' = IF id = h THEN v ELSE RootVaddr(id)
      OBVIOUS
    <3>1. CASE id = h
      BY <3>1, <1>1, <1>4 DEF RootVaddr, Valid
    <3>2. CASE id \in (h + 1)..end
      BY <3>2, <1>1, <1>5 DEF RootVaddr, Valid
    <3>3. CASE id \notin h..end
      <4>1. rootSet'[id] = rootSet[id]
        BY <3>3, <1>4
      <4>2. id < h \/ (id > end /\ ~rootSet[id].allocated)
        BY <3>3, <1>1 DEF RootsWellFormed
      <4> QED
        BY <4>1, <4>2, <1>1 DEF RootVaddr, Valid
    <3> QED
      BY <3>1, <3>2, <3>3, <1>1
  <2>2. RootVaddr(h) = NoAddr
    BY <1>1 DEF RootVaddr, Valid
  <2> QED
    BY <1>1, <2>1, <2>2 DEF Map!Root
<1> QED
  BY <1>8, <1>9

LEMMA RootStep ==
  ASSUME RootsWellFormed, NEW v \in Addrs, Root(v)
  PROVE  RootsWellFormed' /\ Map!Root(v)
<1>1. CASE freeHead = NoId
  BY <1>1, TakeGrown DEF Root
<1>2. CASE freeHead # NoId
  BY <1>2, TakeFree DEF Root
<1> QED
  BY <1>1, <1>2

LEMMA DerootStep ==
  ASSUME RootsWellFormed, NEW id \in Ids, Deroot(id)
  PROVE  RootsWellFormed' /\ Map!Deroot(id)
<1>1. /\ id < rootCap /\ rootSet[id].allocated /\ id \in Nat /\ id # NoId /\ id \notin Free
      /\ rootSet' = [rootSet EXCEPT ![id] = [allocated |-> FALSE, word |-> freeHead]]
      /\ freeHead' = id
      /\ rootCap' = rootCap
  BY DEF Deroot, Valid, FreeEntry, Free, Ids
<1>2. Free' = Free \cup {id}
  BY <1>1 DEF Free, RootsWellFormed, Ids
<1>3. RootsWellFormed'
  <2>1. rootSet' \in [Ids -> [allocated : BOOLEAN, word : Addrs \cup Nat \cup {NoId}]]
    BY <1>1 DEF RootsWellFormed, Free
  <2>2. \A i \in Ids : rootSet'[i].allocated => i < rootCap' /\ rootSet'[i].word \in Addrs
    BY <1>1 DEF RootsWellFormed
  <2>3. \A i \in Free : i # id /\ rootSet'[i] = rootSet[i]
    BY <1>1 DEF RootsWellFormed, Free, Ids
  <2>4. rootSet'[id].word = freeHead
    BY <1>1 DEF RootsWellFormed
  <2>5. \A i \in Free' : rootSet'[i].word \in Free' \cup {NoId}
    BY <1>2, <2>3, <2>4 DEF RootsWellFormed
  <2>6. \A i, other \in Free' :
          rootSet'[i].word = rootSet'[other].word /\ rootSet'[i].word # NoId => i = other
    BY <1>2, <2>3, <2>4 DEF RootsWellFormed
  <2>7. \A i \in Free' : rootSet'[i].word = freeHead' => freeHead' = NoId
    BY <1>1, <1>2, <2>3, <2>4 DEF RootsWellFormed
  <2> QED
    BY <1>1, <1>2, <2>1, <2>2, <2>5, <2>6, <2>7 DEF RootsWellFormed
<1>4. Map!Deroot(id)
  <2>1. \A i \in Ids : RootVaddr(i)' = IF i = id THEN NoAddr ELSE RootVaddr(i)
    BY <1>1 DEF RootVaddr, Valid, RootsWellFormed
  <2>2. RootVaddr(id) # NoAddr
    BY <1>1 DEF RootVaddr, Valid, RootsWellFormed
  <2> QED
    BY <2>1, <2>2 DEF Map!Deroot
<1> QED
  BY <1>3, <1>4

-----------------------------------------------------------------------------
\* Only RootCall touches the root set.
LEMMA OtherStep ==
  ASSUME RootsWellFormed, UNCHANGED rootVars
  PROVE  RootsWellFormed' /\ UNCHANGED [id \in Ids |-> RootVaddr(id)]
<1>1. /\ rootSet' = rootSet /\ rootCap' = rootCap /\ freeHead' = freeHead
  BY DEF rootVars
<1>2. Free' = Free
  BY <1>1 DEF Free
<1>3. RootsWellFormed'
  BY <1>1, <1>2 DEF RootsWellFormed
<1>4. \A id \in Ids : RootVaddr(id)' = RootVaddr(id)
  BY <1>1 DEF RootVaddr, Valid
<1> QED
  BY <1>3, <1>4

LEMMA NextStep ==
  ASSUME RootsWellFormed, [Next]_vars
  PROVE  RootsWellFormed' /\ [Map!Next]_([id \in Ids |-> RootVaddr(id)])
<1>1. ASSUME NEW v \in Addrs, Root(v)
      PROVE  RootsWellFormed' /\ Map!Next
  BY <1>1, RootStep DEF Map!Next
<1>2. ASSUME NEW id \in Ids, Deroot(id)
      PROVE  RootsWellFormed' /\ Map!Next
  BY <1>2, DerootStep DEF Map!Next
<1>3. CASE RootCall
  BY <1>1, <1>2, <1>3 DEF RootCall
<1>4. CASE UNCHANGED rootVars
  BY <1>4, OtherStep
<1>5. CASE StackCall \/ BeginPush \/ LockStack \/ PushRoot \/ EndPush \/ UNCHANGED vars
  <2>1. UNCHANGED rootVars
    BY <1>5 DEF StackCall, BeginPush, LockStack, PushRoot, EndPush, vars
  <2> QED
    BY <2>1, <1>4
<1> QED
  BY <1>3, <1>5 DEF Next

\* For any set of addresses and any bound on the array, the root set with its
\* recycled entries and its doublings is the map cs.h promises: cs_root never
\* gives out an identifier that is in use, and cs_deroot frees just one.
THEOREM RootsAreAMap == Spec => ImplementsRootMap
<1>1. Init => RootsWellFormed /\ Map!Init
  BY InitRoots
<1>2. RootsWellFormed /\ [Next]_vars
        => RootsWellFormed' /\ [Map!Next]_([id \in Ids |-> RootVaddr(id)])
  BY NextStep
<1> QED
  BY <1>1, <1>2, PTL DEF Spec, ImplementsRootMap, Map!Spec

-----------------------------------------------------------------------------
(***************************************************************************)
(* Sets that a link is followed in, step by step.                          *)
(***************************************************************************)
\* Induction on the naturals for a set of them, from the order of finite sets, in
\* which 0..k grows with k.
LEMMA InductiveSet ==
  ASSUME NEW P \in SUBSET Nat, 0 \in P, \A n \in P : n + 1 \in P
  PROVE  \A n \in Nat : n \in P
<1> DEFINE R == StrictSubsetOrdering(Nat)
           F == {0..k : k \in Nat \ P}
<1> SUFFICES ASSUME NEW missing \in Nat \ P PROVE FALSE
  OBVIOUS
<1>1. F \subseteq FiniteSubsetsOf(Nat) /\ F # {}
  <2>1. ASSUME NEW k \in Nat PROVE 0..k \in FiniteSubsetsOf(Nat)
    BY FS_Interval DEF FiniteSubsetsOf
  <2> QED
    BY <2>1
<1>2. IsWellFoundedOn(R, FiniteSubsetsOf(Nat))
  BY FS_StrictSubsetOrderingWellFounded
<1>3. \E x \in F : \A y \in F : ~(<<y, x>> \in R)
  <2> HIDE DEF F, R
  <2> QED
    BY <1>1, <1>2, WFMin
<1>4. PICK k \in Nat \ P : \A y \in F : ~(<<y, 0..k>> \in R)
  BY <1>3
<1>5. k # 0 /\ k - 1 \in Nat /\ (k - 1) + 1 = k
  BY <1>4
<1>6. k - 1 \notin P
  BY <1>4, <1>5
<1>7. ~(<<0..(k - 1), 0..k>> \in R)
  BY <1>4, <1>5, <1>6
<1>8. 0..(k - 1) \subseteq 0..k /\ 0..(k - 1) # 0..k /\ 0..(k - 1) \in SUBSET Nat /\ 0..k \in SUBSET Nat
  BY <1>5
<1> QED
  BY <1>7, <1>8 DEF R, StrictSubsetOrdering

\* A sequence of steps can be taken one after another, the n-th being G[n].
Repeated(X, s, G, N) ==
  \E f \in [0..N -> X] : f[0] = s /\ \A n \in 1..N : f[n] = G[n][f[n - 1]]

LEMMA Repeats ==
  ASSUME NEW X, NEW s \in X, NEW N \in Nat, NEW G \in [1..N -> [X -> X]]
  PROVE  Repeated(X, s, G, N)
<1> DEFINE Good(f, k) == f \in [0..k -> X] /\ f[0] = s /\ \A n \in 1..k : f[n] = G[n][f[n - 1]]
           P == {k \in Nat : k <= N => \E f : Good(f, k)}
<1>1. 0 \in P
  <2>1. Good([n \in 0..0 |-> s], 0)
    OBVIOUS
  <2> QED
    BY <2>1
<1>2. ASSUME NEW k \in P, k + 1 <= N PROVE \E f : Good(f, k + 1)
  <2>1. k \in Nat /\ k <= N /\ k + 1 \in 1..N
    BY <1>2
  <2>2. PICK f : Good(f, k)
    BY <2>1
  <2> DEFINE g == [n \in 0..(k + 1) |-> IF n = k + 1 THEN G[k + 1][f[k]] ELSE f[n]]
  <2>3. f[k] \in X /\ G[k + 1] \in [X -> X]
    BY <2>1, <2>2
  <2>4. g \in [0..(k + 1) -> X]
    BY <2>1, <2>2, <2>3
  <2>5. \A n \in 0..k : g[n] = f[n]
    BY <2>1
  <2>6. g[k + 1] = G[k + 1][g[k]]
    BY <2>1
  <2>7. ASSUME NEW n \in 1..(k + 1) PROVE g[n] = G[n][g[n - 1]]
    <3>1. CASE n = k + 1
      BY <2>1, <2>6, <3>1
    <3>2. CASE n # k + 1
      <4>1. n \in 1..k /\ n \in 0..k /\ n - 1 \in 0..k
        BY <2>1, <3>2
      <4> HIDE DEF g
      <4> QED
        BY <2>2, <2>5, <4>1
    <3> QED
      BY <3>1, <3>2
  <2>8. g[0] = s
    BY <2>1, <2>2, <2>5
  <2>9. Good(g, k + 1)
    <3> HIDE DEF g
    <3> QED
      BY <2>4, <2>7, <2>8
  <2> QED
    <3> HIDE DEF g, Good
    <3> QED
      BY <2>9
<1>3. ASSUME NEW k \in P PROVE k + 1 \in P
  <2> HIDE DEF Good
  <2> QED
    BY <1>2
<1>4. N \in P
  <2> HIDE DEF P
  <2>1. P \in SUBSET Nat
    BY DEF P
  <2> QED
    BY <1>1, <1>3, <2>1, InductiveSet
<1> QED
  BY <1>4 DEF Repeated

\* One step can be taken any number of times.
Iterated(X, s, G, N) ==
  \E f \in [0..N -> X] : f[0] = s /\ \A n \in 1..N : f[n] = G[f[n - 1]]

LEMMA Iterates ==
  ASSUME NEW X, NEW s \in X, NEW G \in [X -> X], NEW N \in Nat
  PROVE  Iterated(X, s, G, N)
<1> DEFINE H == [n \in 1..N |-> G]
<1>1. H \in [1..N -> [X -> X]] /\ \A n \in 1..N : H[n] = G
  OBVIOUS
<1> HIDE DEF H
<1>2. Repeated(X, s, H, N)
  BY <1>1, Repeats
<1> QED
  BY <1>1, <1>2 DEF Repeated, Iterated

\* Following a link N times from s in a set of at most N elements arrives at the
\* least set with s in it that the link does not leave.
Ends(link, S, nil) == \A u \in S : link[u] \in S \cup {nil}

Follows(m, link, nil, U, N) ==
  \A n \in 0..(N - 1) : m[n] \subseteq U => m[n + 1] = m[n] \cup ({link[u] : u \in m[n]} \ {nil})

LEMMA Reaches ==
  ASSUME NEW U, IsFiniteSet(U), NEW N \in Nat, Cardinality(U) <= N,
         NEW s \in SUBSET U, NEW link, NEW nil, Ends(link, U, nil),
         NEW m, m[0] = s,
         Follows(m, link, nil, U, N)
  PROVE  /\ s \subseteq m[N] /\ m[N] \subseteq U /\ Ends(link, m[N], nil)
         /\ \A C \in SUBSET U : s \subseteq C /\ Ends(link, C, nil) => m[N] \subseteq C
<1>1. ASSUME NEW C \in SUBSET U, s \subseteq C, Ends(link, C, nil)
      PROVE  \A n \in 0..N : m[n] \subseteq C
  <2> DEFINE P == {n \in Nat : n <= N => m[n] \subseteq C}
  <2>1. 0 \in P
    BY <1>1
  <2>2. ASSUME NEW n \in P PROVE n + 1 \in P
    <3> SUFFICES ASSUME n + 1 <= N PROVE m[n + 1] \subseteq C
      OBVIOUS
    <3>1. n \in 0..(N - 1) /\ m[n] \subseteq C
      OBVIOUS
    <3>2. m[n + 1] = m[n] \cup ({link[u] : u \in m[n]} \ {nil})
      BY <1>1, <3>1 DEF Follows
    <3> QED
      BY <1>1, <3>1, <3>2 DEF Ends
  <2>3. \A n \in Nat : n \in P
    <3> HIDE DEF P
    <3>1. P \in SUBSET Nat
      BY DEF P
    <3> QED
      BY <2>1, <2>2, <3>1, InductiveSet
  <2> QED
    BY <2>3
<1>2. \A n \in 0..N : m[n] \subseteq U
  BY <1>1
<1>3. \A n \in 0..(N - 1) : m[n + 1] = m[n] \cup ({link[u] : u \in m[n]} \ {nil})
  BY <1>2 DEF Follows
<1>4. \A n \in 0..N : s \subseteq m[n]
  <2> DEFINE P == {n \in Nat : n <= N => s \subseteq m[n]}
  <2>1. 0 \in P
    OBVIOUS
  <2>2. ASSUME NEW n \in P PROVE n + 1 \in P
    BY <1>3
  <2>3. \A n \in Nat : n \in P
    <3> HIDE DEF P
    <3>1. P \in SUBSET Nat
      BY DEF P
    <3> QED
      BY <2>1, <2>2, <3>1, InductiveSet
  <2> QED
    BY <2>3
\* A step that leads nowhere new is followed by such steps.
<1>5. ASSUME NEW n \in 0..(N - 1), Ends(link, m[n], nil) PROVE m[n + 1] = m[n] /\ Ends(link, m[n + 1], nil)
  <2>1. m[n + 1] = m[n] \cup ({link[u] : u \in m[n]} \ {nil})
    BY <1>3
  <2>2. {link[u] : u \in m[n]} \ {nil} \subseteq m[n]
    BY <1>5 DEF Ends
  <2>3. m[n + 1] = m[n]
    BY <2>1, <2>2
  <2> QED
    BY <1>5, <2>3
<1>6. ASSUME ~Ends(link, m[N], nil) PROVE FALSE
  <2>1. \A n \in 0..N : ~Ends(link, m[n], nil)
    <3> DEFINE P == {j \in Nat : j <= N => ~Ends(link, m[N - j], nil)}
    <3>1. 0 \in P
      BY <1>6
    <3>2. ASSUME NEW j \in P PROVE j + 1 \in P
      <4> SUFFICES ASSUME j + 1 <= N PROVE ~Ends(link, m[N - (j + 1)], nil)
        OBVIOUS
      <4>1. N - (j + 1) \in 0..(N - 1) /\ (N - (j + 1)) + 1 = N - j /\ j <= N
        OBVIOUS
      <4> QED
        BY <1>5, <4>1
    <3>3. \A j \in Nat : j \in P
      <4> HIDE DEF P
      <4>1. P \in SUBSET Nat
        BY DEF P
      <4> QED
        BY <3>1, <3>2, <4>1, InductiveSet
    <3> SUFFICES ASSUME NEW n \in 0..N PROVE ~Ends(link, m[n], nil)
      OBVIOUS
    <3>4. N - n \in Nat /\ N - n <= N /\ N - (N - n) = n
      OBVIOUS
    <3>5. N - n \in P
      BY <3>3, <3>4
    <3> QED
      BY <3>4, <3>5
  <2>2. ASSUME NEW n \in 0..(N - 1)
        PROVE  Cardinality(m[n]) < Cardinality(m[n + 1])
    <3>1. m[n] \subseteq m[n + 1] /\ m[n + 1] # m[n] /\ m[n + 1] \subseteq U
      BY <1>2, <1>3, <2>1 DEF Ends
    <3>2. IsFiniteSet(m[n + 1])
      BY <3>1, FS_Subset
    <3>3. Cardinality(m[n]) \in Nat /\ Cardinality(m[n + 1]) \in Nat
      BY <3>1, <3>2, FS_Subset, FS_CardinalityType
    <3> QED
      BY <3>1, <3>2, <3>3, FS_Subset
  <2>3. \A n \in 0..N : Cardinality(m[n]) \in Nat
    BY <1>2, FS_Subset, FS_CardinalityType
  <2> DEFINE P == {n \in Nat : n <= N => Cardinality(m[n]) >= n}
  <2>4. 0 \in P
    BY <2>3
  <2>5. ASSUME NEW n \in P PROVE n + 1 \in P
    <3> SUFFICES ASSUME n + 1 <= N PROVE Cardinality(m[n + 1]) >= n + 1
      OBVIOUS
    <3>1. n \in 0..(N - 1) /\ n \in 0..N /\ n + 1 \in 0..N /\ Cardinality(m[n]) >= n
      OBVIOUS
    <3> QED
      BY <2>2, <2>3, <3>1
  <2>6. \A n \in Nat : n \in P
    <3> HIDE DEF P
    <3>1. P \in SUBSET Nat
      BY DEF P
    <3> QED
      BY <2>4, <2>5, <3>1, InductiveSet
  <2>7. Cardinality(m[N]) >= N
    BY <2>6
  <2>8. Cardinality(m[N]) = Cardinality(U)
    BY <1>2, <2>3, <2>7, FS_Subset, FS_CardinalityType
  <2>9. m[N] = U
    BY <1>2, <2>8, FS_Subset
  <2> QED
    BY <1>6, <2>9
<1> QED
  BY <1>1, <1>2, <1>4, <1>6

-----------------------------------------------------------------------------
(***************************************************************************)
(* The free list, from its head to its end.                                *)
(***************************************************************************)
\* Each free entry is pointed to once, and only all of them are a set that the
\* list begins in and does not leave: no entry is on a loop beside the list.
ListedOnce ==
  /\ \A id, other \in Free : rootSet[id].word = rootSet[other].word => id = other
  /\ \A S \in SUBSET Free :
       /\ freeHead \in S \cup {NoId}
       /\ \A id \in S : rootSet[id].word \in S \cup {NoId}
       => Free \subseteq S

FreeInv == RootsWellFormed /\ ListedOnce

LEMMA InitListed == Init => ListedOnce
<1> SUFFICES ASSUME Init PROVE ListedOnce
  OBVIOUS
<1>1. /\ rootSet = [id \in Ids |-> [allocated |-> FALSE, word |-> NoId]]
      /\ rootCap = 1 /\ freeHead = 0
  BY DEF Init, RootInit, FreeEntry
<1>2. Free = {0}
  BY <1>1 DEF Free, Ids
<1> QED
  BY <1>1, <1>2 DEF ListedOnce

\* The empty set is closed: a list that does not begin holds nothing.
LEMMA EmptyList ==
  ASSUME ListedOnce, freeHead = NoId
  PROVE  Free = {}
<1>1. {} \in SUBSET Free /\ freeHead \in {} \cup {NoId} /\ \A id \in {} : rootSet[id].word \in {} \cup {NoId}
  OBVIOUS
<1>2. Free \subseteq {}
  BY <1>1, Zenon DEF ListedOnce
<1> QED
  BY <1>2

\* The entry taken off the head is the one that a set closed afterwards lacked.
LEMMA ListedTake ==
  ASSUME FreeInv, NEW v \in Addrs, freeHead # NoId,
         TakeEntry(rootSet, freeHead, v), UNCHANGED rootCap
  PROVE  ListedOnce'
<1> DEFINE h == freeHead
<1>1. /\ h \in Free /\ h \in Ids /\ h < rootCap /\ ~rootSet[h].allocated
      /\ rootSet' = [rootSet EXCEPT ![h] = [allocated |-> TRUE, word |-> v]]
      /\ freeHead' = rootSet[h].word
  BY DEF FreeInv, RootsWellFormed, TakeEntry, RootEntry, Free, Ids
<1>2. Free' = Free \ {h}
  BY <1>1 DEF Free, FreeInv, RootsWellFormed, Ids
<1>3. \A id \in Free' : id \in Free /\ id # h /\ rootSet'[id] = rootSet[id]
  BY <1>1, <1>2 DEF FreeInv, RootsWellFormed, Free, Ids
<1>4. \A id, other \in Free' : rootSet'[id].word = rootSet'[other].word => id = other
  BY <1>3 DEF FreeInv, ListedOnce
<1>5. ASSUME NEW S \in SUBSET Free', freeHead' \in S \cup {NoId},
             \A id \in S : rootSet'[id].word \in S \cup {NoId}
      PROVE  Free' \subseteq S
  <2> DEFINE T == S \cup {h}
  <2>1. T \in SUBSET Free /\ h \in T
    BY <1>1, <1>2
  <2>2. \A id \in T : rootSet[id].word \in T \cup {NoId}
    BY <1>1, <1>3, <1>5
  <2>3. Free \subseteq T
    <3> HIDE DEF T
    <3> QED
      BY <2>1, <2>2 DEF FreeInv, ListedOnce
  <2> QED
    BY <1>2, <2>3
<1> QED
  BY <1>4, <1>5 DEF ListedOnce

\* The new entries of the doubled array follow each other to the last.
LEMMA ListedGrown ==
  ASSUME FreeInv, NEW v \in Addrs, freeHead = NoId, 2 * rootCap <= MaxRoots,
         rootCap' = 2 * rootCap, TakeEntry(Grown, rootCap, v)
  PROVE  ListedOnce'
<1> DEFINE h == rootCap
           end == 2 * rootCap - 1
<1>1. /\ h \in Nat /\ end \in Nat /\ h \in Ids /\ end \in Ids /\ h <= end /\ 2 * h = end + 1
      /\ Ids \subseteq Nat /\ Free = {} /\ NoId \notin Nat
  BY EmptyList DEF FreeInv, RootsWellFormed, Ids
<1>2. /\ rootSet' = [Grown EXCEPT ![h] = [allocated |-> TRUE, word |-> v]]
      /\ freeHead' = Grown[h].word
  BY DEF TakeEntry, RootEntry
<1>3. \A id \in h..end : id \in Ids /\ ~Grown[id].allocated
                         /\ Grown[id].word = IF id = end THEN NoId ELSE id + 1
  <2> SUFFICES ASSUME NEW id \in h..end
               PROVE  id \in Ids /\ ~Grown[id].allocated
                      /\ Grown[id].word = IF id = end THEN NoId ELSE id + 1
    OBVIOUS
  <2>1. id \in Ids /\ (id \in h..(2 * h - 2) <=> id # end)
    BY <1>1 DEF Ids
  <2>2. Grown[id] = IF id \in h..(2 * h - 2) THEN [allocated |-> FALSE, word |-> id + 1]
                    ELSE IF id = end THEN [allocated |-> FALSE, word |-> NoId] ELSE rootSet[id]
    BY <2>1 DEF Grown, FreeEntry
  <2>3. CASE id = end
    BY <2>1, <2>2, <2>3
  <2>4. CASE id # end
    BY <2>1, <2>2, <2>4
  <2> QED
    BY <2>3, <2>4
<1>4. \A id \in Ids : id < h => Grown[id] = rootSet[id]
  BY <1>1 DEF Grown
<1>5. Free' = (h + 1)..end
  <2>1. \A id \in 0..(h - 1) : rootSet'[id].allocated
    <3>1. \A id \in 0..(h - 1) : id \in Ids /\ id < h /\ id # h /\ rootSet[id].allocated
      BY <1>1 DEF Free, Ids
    <3>2. \A id \in 0..(h - 1) : rootSet'[id] = Grown[id]
      BY <1>2, <3>1 DEF Grown
    <3> QED
      BY <1>4, <3>1, <3>2
  <2>2. rootSet'[h].allocated
    BY <1>1, <1>2 DEF Grown
  <2>3. \A id \in (h + 1)..end : ~rootSet'[id].allocated
    <3>1. \A id \in (h + 1)..end : id # h /\ id \in h..end
      BY <1>1
    <3>2. \A id \in (h + 1)..end : rootSet'[id] = Grown[id]
      BY <1>2, <1>3, <3>1 DEF Grown
    <3> QED
      BY <1>3, <3>1, <3>2
  <2>4. \A id \in 0..(rootCap' - 1) : id \in 0..(h - 1) \/ id = h \/ id \in (h + 1)..end
    BY <1>1
  <2>5. \A id \in (h + 1)..end : id \in 0..(rootCap' - 1)
    BY <1>1
  <2> QED
    BY <2>1, <2>2, <2>3, <2>4, <2>5 DEF Free
<1>6. \A id \in Free' : rootSet'[id].word = IF id = end THEN NoId ELSE id + 1
  <2>1. \A id \in (h + 1)..end : id # h /\ id \in h..end
    BY <1>1
  <2>2. \A id \in (h + 1)..end : rootSet'[id] = Grown[id]
    BY <1>2, <1>3, <2>1 DEF Grown
  <2> QED
    BY <1>3, <1>5, <2>1, <2>2
<1>7. freeHead' = IF h = end THEN NoId ELSE h + 1
  BY <1>1, <1>2, <1>3
<1>8. \A id, other \in Free' : rootSet'[id].word = rootSet'[other].word => id = other
  BY <1>1, <1>5, <1>6
<1>9. ASSUME NEW S \in SUBSET Free', freeHead' \in S \cup {NoId},
             \A id \in S : rootSet'[id].word \in S \cup {NoId}
      PROVE  Free' \subseteq S
  <2> DEFINE P == {n \in Nat : h + 1 + n <= end => h + 1 + n \in S}
  <2>1. 0 \in P
    BY <1>1, <1>7, <1>9
  <2>2. ASSUME NEW n \in P PROVE n + 1 \in P
    <3> SUFFICES ASSUME h + 1 + (n + 1) <= end PROVE h + 1 + (n + 1) \in S
      BY <1>1
    <3>1. n \in Nat /\ h + 1 + n \in S /\ h + 1 + n # end /\ (h + 1 + n) + 1 = h + 1 + (n + 1)
      BY <1>1
    <3>2. rootSet'[h + 1 + n].word = (h + 1 + n) + 1
      BY <1>6, <3>1
    <3> QED
      BY <1>1, <1>9, <3>1, <3>2
  <2>3. \A n \in Nat : n \in P
    <3> HIDE DEF P
    <3>1. P \in SUBSET Nat
      BY DEF P
    <3> QED
      BY <2>1, <2>2, <3>1, InductiveSet
  <2> SUFFICES ASSUME NEW id \in Free' PROVE id \in S
    OBVIOUS
  <2>4. id - (h + 1) \in Nat /\ h + 1 + (id - (h + 1)) = id /\ id <= end
    BY <1>1, <1>5
  <2>5. id - (h + 1) \in P
    BY <2>3, <2>4
  <2> QED
    BY <2>4, <2>5
<1> QED
  BY <1>8, <1>9 DEF ListedOnce

\* An entry given back is a new head before the old one.
LEMMA ListedDeroot ==
  ASSUME FreeInv, NEW id \in Ids, Deroot(id)
  PROVE  ListedOnce'
<1>1. /\ id < rootCap /\ rootSet[id].allocated /\ id \in Nat /\ id # NoId /\ id \notin Free
      /\ rootSet' = [rootSet EXCEPT ![id] = [allocated |-> FALSE, word |-> freeHead]]
      /\ freeHead' = id
      /\ rootCap' = rootCap
  BY DEF Deroot, Valid, FreeEntry, Free, Ids
<1>2. Free' = Free \cup {id}
  BY <1>1 DEF Free, FreeInv, RootsWellFormed, Ids
<1>3. \A i \in Free : i # id /\ rootSet'[i] = rootSet[i]
  BY <1>1 DEF FreeInv, RootsWellFormed, Free, Ids
<1>4. rootSet'[id].word = freeHead
  BY <1>1 DEF FreeInv, RootsWellFormed
<1>5. \A i \in Free : rootSet[i].word # freeHead
  BY EmptyList DEF FreeInv, RootsWellFormed
<1>6. \A i, other \in Free' : rootSet'[i].word = rootSet'[other].word => i = other
  BY <1>2, <1>3, <1>4, <1>5 DEF FreeInv, ListedOnce
<1>7. ASSUME NEW S \in SUBSET Free', freeHead' \in S \cup {NoId},
             \A i \in S : rootSet'[i].word \in S \cup {NoId}
      PROVE  Free' \subseteq S
  <2> DEFINE T == S \ {id}
  <2>1. id \in S /\ T \in SUBSET Free
    BY <1>1, <1>2, <1>7
  <2>2. freeHead \in T \cup {NoId}
    BY <1>1, <1>4, <1>7, <2>1 DEF FreeInv, RootsWellFormed
  <2>3. \A i \in T : rootSet[i].word \in T \cup {NoId}
    BY <1>1, <1>3, <1>7, <2>1 DEF FreeInv, RootsWellFormed
  <2>4. Free \subseteq T
    <3> HIDE DEF T
    <3> QED
      BY <2>1, <2>2, <2>3 DEF FreeInv, ListedOnce
  <2> QED
    BY <1>2, <2>1, <2>4
<1> QED
  BY <1>6, <1>7 DEF ListedOnce

LEMMA ListedStep ==
  ASSUME FreeInv, [Next]_vars
  PROVE  FreeInv'
<1>1. RootsWellFormed'
  BY NextStep DEF FreeInv
<1>2. ASSUME NEW v \in Addrs, Root(v) PROVE ListedOnce'
  BY <1>2, ListedTake, ListedGrown DEF Root
<1>3. ASSUME NEW id \in Ids, Deroot(id) PROVE ListedOnce'
  BY <1>3, ListedDeroot
<1>4. CASE RootCall
  BY <1>1, <1>2, <1>3, <1>4 DEF RootCall, FreeInv
<1>5. CASE UNCHANGED rootVars
  <2>1. /\ rootSet' = rootSet /\ rootCap' = rootCap /\ freeHead' = freeHead
    BY <1>5 DEF rootVars
  <2>2. Free' = Free
    BY <2>1 DEF Free
  <2> QED
    BY <1>1, <2>1, <2>2 DEF FreeInv, ListedOnce
<1>6. CASE StackCall \/ BeginPush \/ LockStack \/ PushRoot \/ EndPush \/ UNCHANGED vars
  <2>1. UNCHANGED rootVars
    BY <1>6 DEF StackCall, BeginPush, LockStack, PushRoot, EndPush, vars
  <2> QED
    BY <2>1, <1>5
<1> QED
  BY <1>4, <1>6 DEF Next

\* Following the list as often as the array can have entries meets all that are
\* free, and nothing else.
LEMMA ListIsFree ==
  ASSUME FreeInv
  PROVE  FreeListFrom = Free
<1> DEFINE start == {freeHead} \ {NoId}
           step == [S \in SUBSET Free |-> S \cup ({rootSet[id].word : id \in S \cap Ids} \ {NoId})]
           link == [id \in Free |-> rootSet[id].word]
           reached[n \in 0..MaxRoots] ==
             IF n = 0 THEN {freeHead} \ {NoId}
             ELSE reached[n - 1] \cup ({rootSet[id].word : id \in reached[n - 1] \cap Ids} \ {NoId})
<1>1. FreeListFrom = reached[MaxRoots]
  BY DEF FreeListFrom
<1>2. /\ Free \subseteq Ids /\ Free \subseteq 0..(rootCap - 1) /\ rootCap \in Nat /\ rootCap <= MaxRoots
      /\ start \in SUBSET Free /\ NoId \notin Free
      /\ \A id \in Free : rootSet[id].word \in Free \cup {NoId}
  BY DEF FreeInv, RootsWellFormed, Free, Ids
<1>3. step \in [SUBSET Free -> SUBSET Free]
  BY <1>2
<1>4. PICK f \in [0..MaxRoots -> SUBSET Free] : f[0] = start /\ \A n \in 1..MaxRoots : f[n] = step[f[n - 1]]
  <2>1. start \in SUBSET Free /\ MaxRoots \in Nat
    BY <1>2
  <2> DEFINE X == SUBSET Free
  <2>2. start \in X /\ step \in [X -> X]
    BY <1>3, <2>1
  <2> HIDE DEF step, start, X
  <2>3. Iterated(X, start, step, MaxRoots)
    BY <2>1, <2>2, Iterates
  <2> QED
    BY <2>3 DEF Iterated, X
<1>5. \A n \in 1..MaxRoots :
        f[n] = f[n - 1] \cup ({rootSet[id].word : id \in f[n - 1] \cap Ids} \ {NoId})
  <2> SUFFICES ASSUME NEW n \in 1..MaxRoots
               PROVE  f[n] = f[n - 1] \cup ({rootSet[id].word : id \in f[n - 1] \cap Ids} \ {NoId})
    OBVIOUS
  <2>1. f[n - 1] \in SUBSET Free
    BY <1>4
  <2> QED
    BY <1>4, <2>1
<1>6. f = [n \in 0..MaxRoots |->
             IF n = 0 THEN {freeHead} \ {NoId}
             ELSE f[n - 1] \cup ({rootSet[id].word : id \in f[n - 1] \cap Ids} \ {NoId})]
  <2>1. \A n \in 0..MaxRoots :
          f[n] = IF n = 0 THEN {freeHead} \ {NoId}
                 ELSE f[n - 1] \cup ({rootSet[id].word : id \in f[n - 1] \cap Ids} \ {NoId})
    <3>1. \A n \in 0..MaxRoots : n # 0 => n \in 1..MaxRoots
      OBVIOUS
    <3> QED
      BY <1>4, <1>5, <3>1
  <2> QED
    BY <1>4, <2>1
<1>7. reached = [n \in 0..MaxRoots |->
                   IF n = 0 THEN {freeHead} \ {NoId}
                   ELSE reached[n - 1] \cup ({rootSet[id].word : id \in reached[n - 1] \cap Ids} \ {NoId})]
  BY <1>6, Zenon
<1> HIDE DEF reached, step
<1>8. reached[0] = start
  BY <1>7
<1>9. \A n \in 0..(MaxRoots - 1) :
        reached[n] \subseteq Free => reached[n + 1] = reached[n] \cup ({link[id] : id \in reached[n]} \ {NoId})
  <2> SUFFICES ASSUME NEW n \in 0..(MaxRoots - 1), reached[n] \subseteq Free
               PROVE  reached[n + 1] = reached[n] \cup ({link[id] : id \in reached[n]} \ {NoId})
    OBVIOUS
  <2>1. n + 1 \in 0..MaxRoots /\ n + 1 # 0 /\ (n + 1) - 1 = n
    OBVIOUS
  <2>2. reached[n + 1] = reached[n] \cup ({rootSet[id].word : id \in reached[n] \cap Ids} \ {NoId})
    BY <1>7, <2>1
  <2>3. {rootSet[id].word : id \in reached[n] \cap Ids} = {link[id] : id \in reached[n]}
    BY <1>2
  <2> QED
    BY <2>2, <2>3
<1>10. IsFiniteSet(Free) /\ Cardinality(Free) <= MaxRoots
  <2>1. rootCap - 1 \in Int /\ 0 \in Int /\ 0 <= rootCap - 1 /\ (rootCap - 1) - 0 + 1 = rootCap
    BY <1>2 DEF FreeInv, RootsWellFormed
  <2>2. IsFiniteSet(0..(rootCap - 1)) /\ Cardinality(0..(rootCap - 1)) = rootCap
    BY <2>1, FS_Interval
  <2>3. IsFiniteSet(Free) /\ Cardinality(Free) <= rootCap
    BY <1>2, <2>2, FS_Subset, Zenon
  <2>4. Cardinality(Free) \in Nat
    BY <2>3, FS_CardinalityType
  <2> HIDE DEF Free
  <2> QED
    BY <1>2, <2>3, <2>4
<1>11. Ends(link, Free, NoId)
  BY <1>2 DEF Ends
<1>12. /\ start \subseteq reached[MaxRoots] /\ reached[MaxRoots] \subseteq Free
       /\ Ends(link, reached[MaxRoots], NoId)
  <2>1. start \in SUBSET Free /\ MaxRoots \in Nat
    BY <1>2
  <2>2. Follows(reached, link, NoId, Free, MaxRoots)
    BY <1>9 DEF Follows
  <2> HIDE DEF start, link
  <2> QED
    BY <1>8, <1>10, <1>11, <2>1, <2>2, Reaches
<1>13. Free \subseteq reached[MaxRoots]
  BY <1>2, <1>12 DEF FreeInv, ListedOnce, Ends
<1> QED
  BY <1>1, <1>12, <1>13

\* For any set of addresses and any bound on the array, the free list goes from
\* its head through every entry of the array that is free, each of them once, and
\* through no entry in use: cs_deroot loses no entry, cs_root gives none out
\* twice, and the array is doubled only when it is full.
THEOREM FreeEntriesAreListed == Spec => []FreeListHasFreeEntries
<1>1. Init => FreeInv
  BY InitRoots, InitListed DEF FreeInv
<1>2. FreeInv /\ [Next]_vars => FreeInv'
  BY ListedStep
<1>3. FreeInv => FreeListHasFreeEntries
  <2> SUFFICES ASSUME FreeInv PROVE FreeListHasFreeEntries
    OBVIOUS
  <2>1. freeHead \notin {rootSet[id].word : id \in Free} \ {NoId}
    BY DEF FreeInv, RootsWellFormed
  <2> QED
    BY <2>1, ListIsFree DEF FreeListHasFreeEntries, Free, FreeInv, ListedOnce
<1> QED
  BY <1>1, <1>2, <1>3, PTL DEF Spec

-----------------------------------------------------------------------------
(***************************************************************************)
(* Walks over the chain of tables.                                         *)
(***************************************************************************)
Stored == Seq(Cell \cup {None})

CellArrays == [Tables -> [Indices -> Cell \cup {None}]]

Places == (Tables \cup {Null}) \X Indices

Links == [Tables -> Tables \cup {Null}]

\* After, for any links.
Onward(nx, p) == IF p[2] + 1 = TableSize THEN <<nx[p[1]], 0>> ELSE <<p[1], p[2] + 1>>

\* No walk along the links goes on for ever, in tables that are freed either.
NoLoop(nx) == \A S \in SUBSET Tables : S # {} => \E t \in S : nx[t] \notin S

\* f[p] is what a walk from p to the end meets.
Walks(f, nx, cl, end) ==
  /\ f \in [Places -> Stored]
  /\ \A p \in Places :
       f[p] = IF p = end THEN <<>>
              ELSE IF p[1] = Null THEN <<None>>
              ELSE <<cl[p[1]][p[2]]>> \o f[Onward(nx, p)]

HIDE RootSetAssumption
USE BrokenCollectionAssumption

LEMMA IndicesGoOn ==
  /\ 0 \in Indices /\ Indices \subseteq Nat
  /\ \A i \in Indices : i + 1 # TableSize => i + 1 \in Indices
  /\ TableSize \notin Indices /\ TableSize - 1 \in Indices
BY DEF Indices

LEMMA OnwardIsPlace ==
  ASSUME NEW nx \in Links, NEW p \in Places, p[1] # Null
  PROVE  Onward(nx, p) \in Places
<1>1. p[1] \in Tables /\ p[2] \in Indices
  BY DEF Places
<1> QED
  BY <1>1, IndicesGoOn DEF Onward, Places, Links

\* A set of places that a walk does not leave has its end, or a place without a
\* table.
LEMMA PlacesEnd ==
  ASSUME NEW nx \in Links, NoLoop(nx), NEW S \in SUBSET (Tables \X Indices), S # {}
  PROVE  \E p \in S : Onward(nx, p) \notin S
<1> DEFINE T == {p[1] : p \in S}
<1>1. T \in SUBSET Tables /\ T # {}
  OBVIOUS
<1>2. PICK t \in T : nx[t] \notin T
  BY <1>1 DEF NoLoop
<1>3. PICK i0 \in Indices : <<t, i0>> \in S
  BY <1>2
<1>4. \E i \in Indices : <<t, i>> \in S /\ <<t, i + 1>> \notin S
  <2> SUFFICES ASSUME \A i \in Indices : <<t, i>> \in S => <<t, i + 1>> \in S PROVE FALSE
    OBVIOUS
  <2> DEFINE P == {n \in Nat : i0 + n \in Indices /\ <<t, i0 + n>> \in S}
  <2>1. 0 \in P
    BY <1>3, IndicesGoOn
  <2>2. ASSUME NEW n \in P PROVE n + 1 \in P
    <3>1. i0 \in Nat /\ n \in Nat /\ i0 + n \in Indices /\ <<t, i0 + n>> \in S /\ i0 + (n + 1) = (i0 + n) + 1
      BY IndicesGoOn
    <3>2. <<t, (i0 + n) + 1>> \in S
      BY <3>1
    <3>3. (i0 + n) + 1 \in Indices
      BY <3>2
    <3> QED
      BY <3>1, <3>2, <3>3
  <2>3. \A n \in Nat : n \in P
    <3> HIDE DEF P
    <3>1. P \in SUBSET Nat
      BY DEF P
    <3> QED
      BY <2>1, <2>2, <3>1, InductiveSet
  <2>4. TableSize - i0 \in Nat /\ i0 + (TableSize - i0) = TableSize
    BY DEF Indices
  <2>5. TableSize - i0 \in P
    BY <2>3, <2>4
  <2> QED
    BY <2>4, <2>5, IndicesGoOn
<1>5. PICK i \in Indices : <<t, i>> \in S /\ <<t, i + 1>> \notin S
  BY <1>4
<1>6. <<nx[t], 0>> \notin S
  BY <1>2
<1>7. Onward(nx, <<t, i>>) \notin S
  BY <1>5, <1>6 DEF Onward
<1> QED
  BY <1>5, <1>7

\* A walk can be known on a set it does not leave, on a larger one, and on all places.
Partial(f, nx, cl, end, D) ==
  /\ f \in [D -> Stored]
  /\ \A p \in D :
       f[p] = IF p = end THEN <<>>
              ELSE IF p[1] = Null THEN <<None>>
              ELSE <<cl[p[1]][p[2]]>> \o f[Onward(nx, p)]

Stops(p, end) == p = end \/ p[1] = Null

Known(nx, cl, end, D) ==
  /\ \A p \in D : ~Stops(p, end) => Onward(nx, p) \in D
  /\ \E f : Partial(f, nx, cl, end, D)

LEMMA OneMorePlace ==
  ASSUME NEW nx \in Links, NoLoop(nx), NEW cl \in CellArrays, NEW end,
         NEW D \in SUBSET Places, Known(nx, cl, end, D), D # Places
  PROVE  \E p \in Places \ D : Known(nx, cl, end, D \cup {p})
<1> DEFINE S == Places \ D
<1>1. \E p \in S : Stops(p, end) \/ Onward(nx, p) \in D
  <2>1. CASE \E p \in S : Stops(p, end)
    BY <2>1
  <2>2. CASE \A p \in S : ~Stops(p, end)
    <3>1. S \in SUBSET (Tables \X Indices) /\ S # {}
      BY <2>2 DEF Places, Stops
    <3>2. PICK p \in S : Onward(nx, p) \notin S
      <4> HIDE DEF S
      <4> QED
        BY <3>1, PlacesEnd
    <3>3. Onward(nx, p) \in Places
      BY <2>2, OnwardIsPlace DEF Stops
    <3> QED
      BY <3>2, <3>3
  <2> QED
    BY <2>1, <2>2
<1>2. PICK p \in S : Stops(p, end) \/ Onward(nx, p) \in D
  BY <1>1
<1>3. PICK f : Partial(f, nx, cl, end, D)
  BY DEF Known
<1> DEFINE there == IF p = end THEN <<>>
                    ELSE IF p[1] = Null THEN <<None>>
                    ELSE <<cl[p[1]][p[2]]>> \o f[Onward(nx, p)]
           g == [q \in D \cup {p} |-> IF q = p THEN there ELSE f[q]]
<1>4. there \in Stored
  <2>1. CASE Stops(p, end)
    <3>1. <<>> \in Stored /\ <<None>> \in Stored
      BY DEF Stored
    <3> QED
      BY <2>1, <3>1 DEF Stops
  <2>2. CASE ~Stops(p, end)
    <3>1. cl[p[1]][p[2]] \in Cell \cup {None}
      <4>1. p[1] \in Tables /\ p[2] \in Indices
        BY <2>2 DEF Stops, Places
      <4> QED
        BY <4>1 DEF CellArrays
    <3>2. f[Onward(nx, p)] \in Stored
      BY <1>2, <1>3, <2>2 DEF Partial
    <3>3. <<cl[p[1]][p[2]]>> \o f[Onward(nx, p)] \in Stored
      BY <3>1, <3>2, ConcatProperties DEF Stored
    <3> QED
      BY <2>2, <3>3 DEF Stops
  <2> QED
    BY <2>1, <2>2
<1>5. p \notin D
  OBVIOUS
<1> HIDE DEF there
<1>6. /\ g \in [D \cup {p} -> Stored]
      /\ g[p] = there
      /\ \A q \in D : g[q] = f[q]
  <2>1. \A q \in D : f[q] \in Stored
    BY <1>3 DEF Partial
  <2> QED
    BY <1>4, <1>5, <2>1
<1> HIDE DEF g
<1>7. \A q \in D \cup {p} : ~Stops(q, end) => Onward(nx, q) \in D
  BY <1>2 DEF Known
<1>8. ASSUME NEW q \in D \cup {p}
      PROVE  g[q] = IF q = end THEN <<>>
                    ELSE IF q[1] = Null THEN <<None>>
                    ELSE <<cl[q[1]][q[2]]>> \o g[Onward(nx, q)]
  <2>1. ~Stops(q, end) => g[Onward(nx, q)] = f[Onward(nx, q)]
    BY <1>6, <1>7
  <2>2. g[q] = IF q = end THEN <<>>
               ELSE IF q[1] = Null THEN <<None>>
               ELSE <<cl[q[1]][q[2]]>> \o f[Onward(nx, q)]
    <3>1. CASE q = p
      BY <1>6, <3>1 DEF there
    <3>2. CASE q # p
      BY <1>3, <1>6, <3>2 DEF Partial
    <3> QED
      BY <3>1, <3>2
  <2> QED
    BY <2>1, <2>2 DEF Stops
<1>9. Partial(g, nx, cl, end, D \cup {p})
  BY <1>6, <1>8 DEF Partial
<1>10. Known(nx, cl, end, D \cup {p})
  BY <1>7, <1>9 DEF Known
<1> QED
  BY <1>10

LEMMA WalkExists ==
  ASSUME NEW nx \in Links, NoLoop(nx), NEW cl \in CellArrays, NEW end
  PROVE  \E f : Walks(f, nx, cl, end)
<1> DEFINE Goal == Known(nx, cl, end, Places)
           P == {n \in Nat : Goal \/ \E D \in SUBSET Places : Known(nx, cl, end, D) /\ Cardinality(D) = n}
<1>1. IsFiniteSet(Places)
  <2>1. IsFiniteSet(Tables \cup {Null})
    BY FS_AddElement
  <2>2. IsFiniteSet(Indices)
    BY FS_Interval DEF Indices
  <2> QED
    BY <2>1, <2>2, FS_Product DEF Places
<1>2. 0 \in P
  <2>1. Partial([p \in {} |-> <<>>], nx, cl, end, {})
    BY DEF Partial
  <2>2. Known(nx, cl, end, {})
    BY <2>1 DEF Known
  <2>3. {} \in SUBSET Places /\ Cardinality({}) = 0
    BY FS_EmptySet
  <2> QED
    BY <2>2, <2>3
<1>3. ASSUME NEW n \in P PROVE n + 1 \in P
  <2> SUFFICES ASSUME ~Goal PROVE \E D \in SUBSET Places : Known(nx, cl, end, D) /\ Cardinality(D) = n + 1
    OBVIOUS
  <2>1. PICK D \in SUBSET Places : Known(nx, cl, end, D) /\ Cardinality(D) = n
    OBVIOUS
  <2>2. D # Places
    BY <2>1
  <2>3. PICK p \in Places \ D : Known(nx, cl, end, D \cup {p})
    <3> HIDE DEF Goal, P
    <3> QED
      BY <2>1, <2>2, OneMorePlace
  <2>4. Cardinality(D \cup {p}) = n + 1
    <3>1. IsFiniteSet(D)
      BY <1>1, FS_Subset
    <3> QED
      BY <2>1, <2>3, <3>1, FS_AddElement
  <2>5. D \cup {p} \in SUBSET Places
    OBVIOUS
  <2> QED
    BY <2>3, <2>4, <2>5
<1>4. \A n \in Nat : n \in P
  <2> HIDE DEF P
  <2>1. P \in SUBSET Nat
    BY DEF P
  <2> QED
    BY <1>2, <1>3, <2>1, InductiveSet
<1>5. Goal
  <2> SUFFICES ASSUME ~Goal PROVE FALSE
    OBVIOUS
  <2>1. Cardinality(Places) \in Nat
    BY <1>1, FS_CardinalityType
  <2>2. Cardinality(Places) + 1 \in P
    BY <1>4, <2>1
  <2>3. PICK D \in SUBSET Places : Cardinality(D) = Cardinality(Places) + 1
    BY <2>2
  <2>4. Cardinality(D) <= Cardinality(Places)
    BY <1>1, FS_Subset
  <2> QED
    BY <2>1, <2>3, <2>4
<1> QED
  BY <1>5 DEF Known, Partial, Walks

LEMMA StoredAssociative ==
  ASSUME NEW s \in Stored, NEW t \in Stored, NEW u \in Stored
  PROVE  (s \o t) \o u = s \o (t \o u)
BY ConcatAssociative DEF Stored

\* Links and cells that are the same from anywhere in R to end, where end2 is not met.
Agree(R, nx, cl, end, nx2, cl2, end2) ==
  \A p \in R \ {end} : /\ p # end2 /\ Onward(nx, p) \in R /\ Onward(nx2, p) = Onward(nx, p)
                       /\ cl[p[1]][p[2]] \in Cell /\ cl2[p[1]][p[2]] = cl[p[1]][p[2]]

\* A walk f2 that agrees with f up to the end of f, and goes on with rest, meets
\* what f meets and the rest.
LEMMA WalkGoesOn ==
  ASSUME NEW nx \in Links, NoLoop(nx), NEW cl, NEW end, NEW f, Walks(f, nx, cl, end),
         NEW nx2, NEW cl2, NEW end2, NEW f2, Walks(f2, nx2, cl2, end2),
         NEW R \in SUBSET (Tables \X Indices), end \in R, NEW rest \in Stored, f2[end] = rest,
         Agree(R, nx, cl, end, nx2, cl2, end2)
  PROVE  \A p \in R : f2[p] = f[p] \o rest
<1>0. \A p \in R \ {end} : /\ p # end2 /\ Onward(nx, p) \in R /\ Onward(nx2, p) = Onward(nx, p)
                           /\ cl[p[1]][p[2]] \in Cell /\ cl2[p[1]][p[2]] = cl[p[1]][p[2]]
  BY DEF Agree
<1> DEFINE S == {p \in R : f2[p] # f[p] \o rest}
<1>1. R \subseteq Places /\ \A p \in R : p[1] # Null /\ f[p] \in Stored /\ f2[p] \in Stored
  BY DEF Places, Walks
<1>2. f2[end] = f[end] \o rest
  <2>1. f[end] = <<>>
    BY <1>1 DEF Walks
  <2> QED
    BY <2>1, ConcatEmptySeq DEF Stored
<1>3. S = {}
  <2> SUFFICES ASSUME S # {} PROVE FALSE
    OBVIOUS
  <2>1. PICK p \in S : Onward(nx, p) \notin S
    <3>1. S \in SUBSET (Tables \X Indices)
      OBVIOUS
    <3> HIDE DEF S
    <3> QED
      BY <3>1, PlacesEnd
  <2>2. p \in R \ {end} /\ Onward(nx, p) \in R
    BY <1>0, <1>2, <2>1
  <2> DEFINE n == Onward(nx, p)
             c == cl[p[1]][p[2]]
  <2>3. f2[n] = f[n] \o rest
    BY <2>1, <2>2
  <2>4. f[p] = <<c>> \o f[n] /\ f2[p] = <<c>> \o f2[n]
    BY <1>0, <1>1, <2>2 DEF Walks
  <2>5. <<c>> \in Stored /\ f[n] \in Stored
    <3>1. c \in Cell \cup {None} /\ f[n] \in Stored
      BY <1>0, <1>1, <2>2
    <3> HIDE DEF c
    <3> QED
      BY <3>1 DEF Stored
  <2> HIDE DEF n, c
  <2>6. (<<c>> \o f[n]) \o rest = <<c>> \o (f[n] \o rest)
    BY <2>5, StoredAssociative, ZenonT(30)
  <2>7. f2[p] = f[p] \o rest
    BY <2>3, <2>4, <2>6
  <2> QED
    BY <2>1, <2>7
<1> QED
  BY <1>3

\* Between the ends there are elements only.
LEMMA WalkMeetsCells ==
  ASSUME NEW nx \in Links, NoLoop(nx), NEW cl, NEW end, NEW f, Walks(f, nx, cl, end),
         NEW R \in SUBSET (Tables \X Indices),
         \A p \in R \ {end} : Onward(nx, p) \in R /\ cl[p[1]][p[2]] \in Cell
  PROVE  \A p \in R : f[p] \in Seq(Cell)
<1> DEFINE S == {p \in R : f[p] \notin Seq(Cell)}
<1>1. R \subseteq Places /\ \A p \in R : p[1] # Null
  BY DEF Places
<1>2. S = {}
  <2> SUFFICES ASSUME S # {} PROVE FALSE
    OBVIOUS
  <2>1. PICK p \in S : Onward(nx, p) \notin S
    <3>1. S \in SUBSET (Tables \X Indices)
      OBVIOUS
    <3> HIDE DEF S
    <3> QED
      BY <3>1, PlacesEnd
  <2>2. CASE p = end
    <3>1. f[p] = <<>>
      BY <1>1, <2>1, <2>2 DEF Walks
    <3>2. <<>> \in Seq(Cell)
      OBVIOUS
    <3> QED
      BY <2>1, <3>1, <3>2
  <2>3. CASE p # end
    <3>1. f[p] = <<cl[p[1]][p[2]]>> \o f[Onward(nx, p)]
      BY <1>1, <2>1, <2>3 DEF Walks
    <3>2. <<cl[p[1]][p[2]]>> \in Seq(Cell) /\ f[Onward(nx, p)] \in Seq(Cell)
      BY <2>1, <2>3
    <3>3. <<cl[p[1]][p[2]]>> \o f[Onward(nx, p)] \in Seq(Cell)
      BY <3>2, ConcatProperties
    <3> QED
      BY <2>1, <3>1, <3>3
  <2> QED
    BY <2>2, <2>3
<1> QED
  BY <1>2

\* Contents, of any links, cells and ends.
ContentsOf(nx, cl, start, end) ==
  LET walk[p \in (Tables \cup {Null}) \X Indices] ==
        IF p = end THEN <<>>
        ELSE IF p[1] = Null THEN <<None>>
        ELSE <<cl[p[1]][p[2]]>> \o walk[Onward(nx, p)]
  IN walk[start]

LEMMA ContentsAre ==
  /\ Contents = ContentsOf(next, cells, <<first, firstStart>>, <<last, lastEnd>>)
  /\ Contents' = ContentsOf(next', cells', <<first', firstStart'>>, <<last', lastEnd'>>)
<1>1. Contents = ContentsOf(next, cells, <<first, firstStart>>, <<last, lastEnd>>)
  BY Zenon DEF Contents, ContentsOf, After, Onward
<1>2. Contents' = ContentsOf(next', cells', <<first', firstStart'>>, <<last', lastEnd'>>)
  BY Zenon DEF Contents, ContentsOf, After, Onward
<1> QED
  BY <1>1, <1>2

\* What a walk meets, is what is between its ends.
LEMMA ContentsWalk ==
  ASSUME NEW nx \in Links, NoLoop(nx), NEW cl \in CellArrays,
         NEW start, NEW end, NEW f, Walks(f, nx, cl, end)
  PROVE  ContentsOf(nx, cl, start, end) = f[start]
<1> DEFINE walk[p \in (Tables \cup {Null}) \X Indices] ==
             IF p = end THEN <<>>
             ELSE IF p[1] = Null THEN <<None>>
             ELSE <<cl[p[1]][p[2]]>> \o walk[Onward(nx, p)]
<1>1. ContentsOf(nx, cl, start, end) = walk[start]
  BY DEF ContentsOf
<1>2. f = [p \in (Tables \cup {Null}) \X Indices |->
             IF p = end THEN <<>>
             ELSE IF p[1] = Null THEN <<None>>
             ELSE <<cl[p[1]][p[2]]>> \o f[Onward(nx, p)]]
  BY DEF Walks, Places
<1>3. walk = [p \in (Tables \cup {Null}) \X Indices |->
                IF p = end THEN <<>>
                ELSE IF p[1] = Null THEN <<None>>
                ELSE <<cl[p[1]][p[2]]>> \o walk[Onward(nx, p)]]
  BY <1>2, Zenon
<1> HIDE DEF walk
<1>4. \A p \in Places :
        walk[p] = IF p = end THEN <<>>
                  ELSE IF p[1] = Null THEN <<None>>
                  ELSE <<cl[p[1]][p[2]]>> \o walk[Onward(nx, p)]
  BY <1>3 DEF Places
<1> DEFINE S == {p \in Places : walk[p] # f[p]}
<1>5. S = {}
  <2> SUFFICES ASSUME S # {} PROVE FALSE
    OBVIOUS
  <2>1. \A p \in S : p # end /\ p[1] # Null
    BY <1>4 DEF Walks
  <2>2. S \in SUBSET (Tables \X Indices)
    BY <2>1 DEF Places
  <2>3. PICK p \in S : Onward(nx, p) \notin S
    <3> HIDE DEF S
    <3> QED
      BY <2>2, PlacesEnd
  <2>4. p \in Places /\ p # end /\ p[1] # Null
    BY <2>1
  <2>5. walk[Onward(nx, p)] = f[Onward(nx, p)]
    BY <2>3, <2>4, OnwardIsPlace
  <2>6. walk[p] = <<cl[p[1]][p[2]]>> \o walk[Onward(nx, p)] /\ f[p] = <<cl[p[1]][p[2]]>> \o f[Onward(nx, p)]
    BY <1>4, <2>4 DEF Walks
  <2> QED
    BY <2>3, <2>5, <2>6
<1>6. walk = f
  <2>1. walk = [p \in Places |-> walk[p]]
    BY <1>3 DEF Places
  <2>2. f = [p \in Places |-> f[p]]
    BY DEF Walks
  <2>3. \A p \in Places : walk[p] = f[p]
    BY <1>5
  <2> QED
    BY <2>1, <2>2, <2>3
<1> QED
  BY <1>1, <1>6

-----------------------------------------------------------------------------
(***************************************************************************)
(* The chain as a numbered row of tables, from lo to hi.                   *)
(***************************************************************************)
IsChain(al, nx, pv, ts, lo, hi) ==
  /\ lo \in Int /\ hi \in Int /\ lo <= hi
  /\ ts \in [Int -> Tables]
  /\ \A j \in lo..hi : ts[j] \in al
  /\ \A t \in al : \E j \in lo..hi : ts[j] = t
  /\ \A j, k \in lo..hi : ts[j] = ts[k] => j = k
  /\ \A j \in lo..hi : nx[ts[j]] = IF j = hi THEN Null ELSE ts[j + 1]
  /\ \A j \in lo..hi : pv[ts[j]] = IF j = lo THEN Null ELSE ts[j - 1]

LEMMA FirstTable ==
  ASSUME NEW nx \in Links, NEW pv \in Links, NEW new \in Tables
  PROVE  IsChain({new}, [nx EXCEPT ![new] = Null], [pv EXCEPT ![new] = Null], [j \in Int |-> new], 0, 0)
<1>1. \A j \in 0..0 : j = 0
  OBVIOUS
<1> QED
  BY <1>1 DEF IsChain, Links

LEMMA GrowBack ==
  ASSUME NEW al \in SUBSET Tables, NEW nx \in Links, NEW pv \in Links, NEW ts, NEW lo, NEW hi,
         IsChain(al, nx, pv, ts, lo, hi), NEW new \in Tables \ al
  PROVE  IsChain(al \cup {new}, [nx EXCEPT ![ts[hi]] = new, ![new] = Null], [pv EXCEPT ![new] = ts[hi]],
                 [ts EXCEPT ![hi + 1] = new], lo, hi + 1)
<1> DEFINE us == [ts EXCEPT ![hi + 1] = new]
           nx2 == [nx EXCEPT ![ts[hi]] = new, ![new] = Null]
           pv2 == [pv EXCEPT ![new] = ts[hi]]
<1>1. /\ lo \in Int /\ hi \in Int /\ lo <= hi /\ hi + 1 \in Int /\ lo <= hi + 1 /\ hi \in lo..hi
      /\ ts \in [Int -> Tables] /\ us \in [Int -> Tables]
  BY DEF IsChain
<1>2. \A j \in lo..(hi + 1) : j \in lo..hi \/ j = hi + 1
  BY <1>1
<1>3. \A j \in lo..hi : j # hi + 1 /\ us[j] = ts[j] /\ ts[j] \in al /\ ts[j] # new
  BY <1>1 DEF IsChain
<1>4. us[hi + 1] = new
  BY <1>1
<1>5. /\ nx2[new] = Null /\ nx2[ts[hi]] = new
      /\ \A t \in al : t # ts[hi] => nx2[t] = nx[t]
  BY <1>1, <1>3 DEF Links
<1>6. pv2[new] = ts[hi] /\ \A t \in al : pv2[t] = pv[t]
  BY DEF Links
<1> HIDE DEF us, nx2, pv2
<1>7. \A j \in lo..(hi + 1) : us[j] \in al \cup {new}
  BY <1>2, <1>3, <1>4
<1>8. \A t \in al \cup {new} : \E j \in lo..(hi + 1) : us[j] = t
  <2>1. ASSUME NEW t \in al PROVE \E j \in lo..(hi + 1) : us[j] = t
    <3>1. PICK j \in lo..hi : ts[j] = t
      BY DEF IsChain
    <3>2. j \in lo..(hi + 1) /\ us[j] = t
      BY <1>1, <1>3, <3>1
    <3> QED
      BY <3>2
  <2>2. hi + 1 \in lo..(hi + 1)
    BY <1>1
  <2> QED
    BY <1>4, <2>1, <2>2
<1>9. \A j, k \in lo..(hi + 1) : us[j] = us[k] => j = k
  BY <1>2, <1>3, <1>4 DEF IsChain
<1>10. \A j \in lo..(hi + 1) : nx2[us[j]] = IF j = hi + 1 THEN Null ELSE us[j + 1]
  <2> SUFFICES ASSUME NEW j \in lo..(hi + 1) PROVE nx2[us[j]] = IF j = hi + 1 THEN Null ELSE us[j + 1]
    OBVIOUS
  <2>1. CASE j = hi + 1
    BY <1>4, <1>5, <2>1
  <2>2. CASE j = hi
    BY <1>1, <1>3, <1>4, <1>5, <2>2
  <2>3. CASE j # hi + 1 /\ j # hi
    <3>1. j \in lo..hi /\ j + 1 \in lo..hi /\ j # hi
      BY <1>1, <2>3
    <3>2. ts[j] # ts[hi] /\ nx[ts[j]] = ts[j + 1]
      BY <1>1, <3>1 DEF IsChain
    <3> QED
      BY <1>3, <1>5, <2>3, <3>1, <3>2
  <2> QED
    BY <2>1, <2>2, <2>3
<1>11. \A j \in lo..(hi + 1) : pv2[us[j]] = IF j = lo THEN Null ELSE us[j - 1]
  <2> SUFFICES ASSUME NEW j \in lo..(hi + 1) PROVE pv2[us[j]] = IF j = lo THEN Null ELSE us[j - 1]
    OBVIOUS
  <2>1. CASE j = hi + 1
    BY <1>1, <1>3, <1>4, <1>6, <2>1
  <2>2. CASE j # hi + 1
    <3>1. j \in lo..hi /\ (j # lo => j - 1 \in lo..hi)
      BY <1>1, <2>2
    <3>2. pv[ts[j]] = IF j = lo THEN Null ELSE ts[j - 1]
      BY <3>1 DEF IsChain
    <3> QED
      BY <1>3, <1>6, <3>1, <3>2
  <2> QED
    BY <2>1, <2>2
<1>12. IsChain(al \cup {new}, nx2, pv2, us, lo, hi + 1)
  BY <1>1, <1>7, <1>8, <1>9, <1>10, <1>11 DEF IsChain
<1> QED
  BY <1>12 DEF us, nx2, pv2

LEMMA GrowFront ==
  ASSUME NEW al \in SUBSET Tables, NEW nx \in Links, NEW pv \in Links, NEW ts, NEW lo, NEW hi,
         IsChain(al, nx, pv, ts, lo, hi), NEW new \in Tables \ al
  PROVE  IsChain(al \cup {new}, [nx EXCEPT ![new] = ts[lo]], [pv EXCEPT ![ts[lo]] = new, ![new] = Null],
                 [ts EXCEPT ![lo - 1] = new], lo - 1, hi)
<1> DEFINE us == [ts EXCEPT ![lo - 1] = new]
           nx2 == [nx EXCEPT ![new] = ts[lo]]
           pv2 == [pv EXCEPT ![ts[lo]] = new, ![new] = Null]
<1>1. /\ lo \in Int /\ hi \in Int /\ lo <= hi /\ lo - 1 \in Int /\ lo - 1 <= hi /\ lo \in lo..hi
      /\ ts \in [Int -> Tables] /\ us \in [Int -> Tables] /\ (lo - 1) + 1 = lo
  BY DEF IsChain
<1>2. \A j \in (lo - 1)..hi : j \in lo..hi \/ j = lo - 1
  BY <1>1
<1>3. \A j \in lo..hi : j # lo - 1 /\ us[j] = ts[j] /\ ts[j] \in al /\ ts[j] # new
  BY <1>1 DEF IsChain
<1>4. us[lo - 1] = new
  BY <1>1
<1>5. /\ pv2[new] = Null /\ pv2[ts[lo]] = new
      /\ \A t \in al : t # ts[lo] => pv2[t] = pv[t]
  BY <1>1, <1>3 DEF Links
<1>6. nx2[new] = ts[lo] /\ \A t \in al : nx2[t] = nx[t]
  BY DEF Links
<1> HIDE DEF us, nx2, pv2
<1>7. \A j \in (lo - 1)..hi : us[j] \in al \cup {new}
  BY <1>2, <1>3, <1>4
<1>8. \A t \in al \cup {new} : \E j \in (lo - 1)..hi : us[j] = t
  <2>1. ASSUME NEW t \in al PROVE \E j \in (lo - 1)..hi : us[j] = t
    <3>1. PICK j \in lo..hi : ts[j] = t
      BY DEF IsChain
    <3>2. j \in (lo - 1)..hi /\ us[j] = t
      BY <1>1, <1>3, <3>1
    <3> QED
      BY <3>2
  <2>2. lo - 1 \in (lo - 1)..hi
    BY <1>1
  <2> QED
    BY <1>4, <2>1, <2>2
<1>9. \A j, k \in (lo - 1)..hi : us[j] = us[k] => j = k
  BY <1>2, <1>3, <1>4 DEF IsChain
<1>10. \A j \in (lo - 1)..hi : pv2[us[j]] = IF j = lo - 1 THEN Null ELSE us[j - 1]
  <2> SUFFICES ASSUME NEW j \in (lo - 1)..hi PROVE pv2[us[j]] = IF j = lo - 1 THEN Null ELSE us[j - 1]
    OBVIOUS
  <2>1. CASE j = lo - 1
    BY <1>4, <1>5, <2>1
  <2>2. CASE j = lo
    BY <1>1, <1>3, <1>4, <1>5, <2>2
  <2>3. CASE j # lo - 1 /\ j # lo
    <3>1. j \in lo..hi /\ j - 1 \in lo..hi /\ j # lo
      BY <1>1, <2>3
    <3>2. ts[j] # ts[lo] /\ pv[ts[j]] = ts[j - 1]
      BY <1>1, <3>1 DEF IsChain
    <3> QED
      BY <1>3, <1>5, <2>3, <3>1, <3>2
  <2> QED
    BY <2>1, <2>2, <2>3
<1>11. \A j \in (lo - 1)..hi : nx2[us[j]] = IF j = hi THEN Null ELSE us[j + 1]
  <2> SUFFICES ASSUME NEW j \in (lo - 1)..hi PROVE nx2[us[j]] = IF j = hi THEN Null ELSE us[j + 1]
    OBVIOUS
  <2>1. CASE j = lo - 1
    BY <1>1, <1>3, <1>4, <1>6, <2>1
  <2>2. CASE j # lo - 1
    <3>1. j \in lo..hi /\ (j # hi => j + 1 \in lo..hi)
      BY <1>1, <2>2
    <3>2. nx[ts[j]] = IF j = hi THEN Null ELSE ts[j + 1]
      BY <3>1 DEF IsChain
    <3> QED
      BY <1>3, <1>6, <3>1, <3>2
  <2> QED
    BY <2>1, <2>2
<1>12. IsChain(al \cup {new}, nx2, pv2, us, lo - 1, hi)
  BY <1>1, <1>7, <1>8, <1>9, <1>10, <1>11 DEF IsChain
<1> QED
  BY <1>12 DEF us, nx2, pv2

LEMMA DropBack ==
  ASSUME NEW al \in SUBSET Tables, NEW nx \in Links, NEW pv \in Links, NEW ts, NEW lo, NEW hi,
         IsChain(al, nx, pv, ts, lo, hi), lo < hi
  PROVE  IsChain(al \ {ts[hi]}, [nx EXCEPT ![ts[hi - 1]] = Null], pv, ts, lo, hi - 1)
<1> DEFINE nx2 == [nx EXCEPT ![ts[hi - 1]] = Null]
<1>1. /\ lo \in Int /\ hi \in Int /\ hi - 1 \in Int /\ lo <= hi - 1 /\ hi \in lo..hi /\ hi - 1 \in lo..hi
      /\ ts \in [Int -> Tables]
  BY DEF IsChain
<1>2. \A j \in lo..(hi - 1) : j \in lo..hi /\ j # hi /\ ts[j] \in al /\ ts[j] # ts[hi]
  BY <1>1 DEF IsChain
<1>3. \A j \in lo..(hi - 1) : nx2[ts[j]] = IF j = hi - 1 THEN Null ELSE ts[j + 1]
  <2> SUFFICES ASSUME NEW j \in lo..(hi - 1) PROVE nx2[ts[j]] = IF j = hi - 1 THEN Null ELSE ts[j + 1]
    OBVIOUS
  <2>1. ts[j] \in Tables /\ nx[ts[j]] = ts[j + 1] /\ (j # hi - 1 => ts[j] # ts[hi - 1])
    BY <1>1, <1>2 DEF IsChain
  <2> QED
    BY <2>1 DEF Links
<1>4. \A t \in al \ {ts[hi]} : \E j \in lo..(hi - 1) : ts[j] = t
  <2> SUFFICES ASSUME NEW t \in al \ {ts[hi]} PROVE \E j \in lo..(hi - 1) : ts[j] = t
    OBVIOUS
  <2>1. PICK j \in lo..hi : ts[j] = t
    BY DEF IsChain
  <2>2. j \in lo..(hi - 1)
    BY <1>1, <2>1
  <2> QED
    BY <2>1, <2>2
<1>5. \A j \in lo..(hi - 1) : pv[ts[j]] = IF j = lo THEN Null ELSE ts[j - 1]
  BY <1>2 DEF IsChain
<1>6. \A j, k \in lo..(hi - 1) : ts[j] = ts[k] => j = k
  BY <1>2 DEF IsChain
<1> HIDE DEF nx2
<1>7. IsChain(al \ {ts[hi]}, nx2, pv, ts, lo, hi - 1)
  BY <1>1, <1>2, <1>3, <1>4, <1>5, <1>6 DEF IsChain
<1> QED
  BY <1>7 DEF nx2

LEMMA DropFront ==
  ASSUME NEW al \in SUBSET Tables, NEW nx \in Links, NEW pv \in Links, NEW ts, NEW lo, NEW hi,
         IsChain(al, nx, pv, ts, lo, hi), lo < hi
  PROVE  IsChain(al \ {ts[lo]}, nx, [pv EXCEPT ![ts[lo + 1]] = Null], ts, lo + 1, hi)
<1> DEFINE pv2 == [pv EXCEPT ![ts[lo + 1]] = Null]
<1>1. /\ lo \in Int /\ hi \in Int /\ lo + 1 \in Int /\ lo + 1 <= hi /\ lo \in lo..hi /\ lo + 1 \in lo..hi
      /\ ts \in [Int -> Tables]
  BY DEF IsChain
<1>2. \A j \in (lo + 1)..hi : j \in lo..hi /\ j # lo /\ ts[j] \in al /\ ts[j] # ts[lo]
  BY <1>1 DEF IsChain
<1>3. \A j \in (lo + 1)..hi : pv2[ts[j]] = IF j = lo + 1 THEN Null ELSE ts[j - 1]
  <2> SUFFICES ASSUME NEW j \in (lo + 1)..hi PROVE pv2[ts[j]] = IF j = lo + 1 THEN Null ELSE ts[j - 1]
    OBVIOUS
  <2>1. ts[j] \in Tables /\ pv[ts[j]] = ts[j - 1] /\ (j # lo + 1 => ts[j] # ts[lo + 1])
    BY <1>1, <1>2 DEF IsChain
  <2> QED
    BY <2>1 DEF Links
<1>4. \A t \in al \ {ts[lo]} : \E j \in (lo + 1)..hi : ts[j] = t
  <2> SUFFICES ASSUME NEW t \in al \ {ts[lo]} PROVE \E j \in (lo + 1)..hi : ts[j] = t
    OBVIOUS
  <2>1. PICK j \in lo..hi : ts[j] = t
    BY DEF IsChain
  <2>2. j \in (lo + 1)..hi
    BY <1>1, <2>1
  <2> QED
    BY <2>1, <2>2
<1>5. \A j \in (lo + 1)..hi : nx[ts[j]] = IF j = hi THEN Null ELSE ts[j + 1]
  BY <1>2 DEF IsChain
<1>6. \A j, k \in (lo + 1)..hi : ts[j] = ts[k] => j = k
  BY <1>2 DEF IsChain
<1> HIDE DEF pv2
<1>7. IsChain(al \ {ts[lo]}, nx, pv2, ts, lo + 1, hi)
  BY <1>1, <1>2, <1>3, <1>4, <1>5, <1>6 DEF IsChain
<1> QED
  BY <1>7 DEF pv2

\* No link that is set makes a loop.
LEMMA CutNoLoop ==
  ASSUME NEW nx \in Links, NoLoop(nx), NEW t
  PROVE  NoLoop([nx EXCEPT ![t] = Null]) /\ [nx EXCEPT ![t] = Null] \in Links
<1>1. \A u \in Tables : [nx EXCEPT ![t] = Null][u] = IF u = t THEN Null ELSE nx[u]
  BY DEF Links
<1>2. [nx EXCEPT ![t] = Null] \in Links
  BY DEF Links
<1>3. \A S \in SUBSET Tables : Null \notin S
  OBVIOUS
<1> QED
  BY <1>1, <1>2, <1>3 DEF NoLoop

LEMMA BackNoLoop ==
  ASSUME NEW nx \in Links, NoLoop(nx), NEW t \in Tables, NEW new \in Tables, t # new
  PROVE  LET nx2 == [nx EXCEPT ![t] = new, ![new] = Null] IN NoLoop(nx2) /\ nx2 \in Links
<1> DEFINE nx2 == [nx EXCEPT ![t] = new, ![new] = Null]
<1>1. nx2 \in Links /\ nx2[t] = new /\ nx2[new] = Null /\ \A u \in Tables \ {t, new} : nx2[u] = nx[u]
  BY DEF Links
<1> HIDE DEF nx2
<1>2. ASSUME NEW S \in SUBSET Tables, S # {} PROVE \E u \in S : nx2[u] \notin S
  <2>1. CASE new \in S
    BY <1>1, <2>1
  <2>2. CASE new \notin S
    <3>1. PICK u \in S : nx[u] \notin S
      BY <1>2 DEF NoLoop
    <3> QED
      BY <1>1, <2>2, <3>1
  <2> QED
    BY <2>1, <2>2
<1>3. NoLoop(nx2)
  BY <1>2 DEF NoLoop
<1> QED
  BY <1>1, <1>3 DEF nx2

LEMMA FrontNoLoop ==
  ASSUME NEW al \in SUBSET Tables, NEW nx \in Links, NoLoop(nx), NEW t \in al, NEW new \in Tables \ al,
         \A u \in al : nx[u] \in al \cup {Null}
  PROVE  NoLoop([nx EXCEPT ![new] = t]) /\ [nx EXCEPT ![new] = t] \in Links
<1> DEFINE nx2 == [nx EXCEPT ![new] = t]
<1>1. nx2 \in Links /\ nx2[new] = t /\ \A u \in Tables \ {new} : nx2[u] = nx[u]
  BY DEF Links
<1> HIDE DEF nx2
<1>2. ASSUME NEW S \in SUBSET Tables, S # {} PROVE \E u \in S : nx2[u] \notin S
  <2>1. CASE S \cap al # {}
    <3>1. PICK u \in S \cap al : nx[u] \notin S \cap al
      <4>1. S \cap al \in SUBSET Tables
        OBVIOUS
      <4> QED
        BY <2>1, <4>1 DEF NoLoop
    <3>2. nx2[u] = nx[u] /\ nx[u] \in al \cup {Null} /\ Null \notin S
      BY <1>1
    <3> QED
      BY <3>1, <3>2
  <2>2. CASE S \cap al = {}
    <3>1. CASE new \in S
      BY <1>1, <2>2, <3>1
    <3>2. CASE new \notin S
      <4>1. PICK u \in S : nx[u] \notin S
        BY <1>2 DEF NoLoop
      <4> QED
        BY <1>1, <3>2, <4>1
    <3> QED
      BY <3>1, <3>2
  <2> QED
    BY <2>1, <2>2
<1>3. NoLoop(nx2)
  BY <1>2 DEF NoLoop
<1> QED
  BY <1>1, <1>3 DEF nx2

LEMMA ChainIsClosed ==
  ASSUME NEW al \in SUBSET Tables, NEW nx, NEW pv, NEW ts, NEW lo, NEW hi, IsChain(al, nx, pv, ts, lo, hi)
  PROVE  \A u \in al : nx[u] \in al \cup {Null} /\ pv[u] \in al \cup {Null}
<1> SUFFICES ASSUME NEW u \in al PROVE nx[u] \in al \cup {Null} /\ pv[u] \in al \cup {Null}
  OBVIOUS
<1>1. PICK j \in lo..hi : ts[j] = u
  BY DEF IsChain
<1>2. (j # hi => j + 1 \in lo..hi) /\ (j # lo => j - 1 \in lo..hi)
  BY DEF IsChain
<1> QED
  BY <1>1, <1>2 DEF IsChain

-----------------------------------------------------------------------------
(***************************************************************************)
(* The places from the first element to the one behind the last.           *)
(***************************************************************************)
Span(ts, a, b, s, e) ==
  {p \in Tables \X Indices : \E j \in a..b : /\ p[1] = ts[j]
                                             /\ j = a => s <= p[2]
                                             /\ j = b => p[2] <= e}

\* The ends of the elements in the row of tables.
HasEnds(lo, hi, a, b, s, e) ==
  /\ a \in lo..hi /\ b \in lo..hi /\ a <= b
  /\ s \in Indices /\ e \in Indices
  /\ a = b => s <= e

LEMMA SpanEnds ==
  ASSUME NEW al, NEW nx, NEW pv, NEW ts, NEW lo, NEW hi, IsChain(al, nx, pv, ts, lo, hi),
         NEW a, NEW b, NEW s, NEW e, HasEnds(lo, hi, a, b, s, e)
  PROVE  <<ts[a], s>> \in Span(ts, a, b, s, e) /\ <<ts[b], e>> \in Span(ts, a, b, s, e)
<1>1. a \in Int /\ b \in Int /\ a \in a..b /\ b \in a..b /\ ts[a] \in Tables /\ ts[b] \in Tables
      /\ s \in Indices /\ e \in Indices /\ s \in Nat /\ e \in Nat
  BY IndicesGoOn DEF IsChain, HasEnds
<1>2. <<ts[a], s>>[1] = ts[a] /\ <<ts[a], s>>[2] = s /\ (a = b => s <= e)
  BY DEF HasEnds
<1>3. <<ts[b], e>>[1] = ts[b] /\ <<ts[b], e>>[2] = e
  OBVIOUS
<1>4. <<ts[a], s>> \in Tables \X Indices /\ <<ts[b], e>> \in Tables \X Indices
  BY <1>1
<1>5. <<ts[a], s>> \in Span(ts, a, b, s, e)
  BY <1>1, <1>2, <1>4 DEF Span
<1>6. <<ts[b], e>> \in Span(ts, a, b, s, e)
  BY <1>1, <1>2, <1>3, <1>4 DEF Span
<1> QED
  BY <1>5, <1>6

\* The span is a walk from its start to its end.
LEMMA SpanIsWalk ==
  ASSUME NEW al, NEW nx, NEW pv, NEW ts, NEW lo, NEW hi, IsChain(al, nx, pv, ts, lo, hi),
         NEW a, NEW b, NEW s, NEW e, HasEnds(lo, hi, a, b, s, e),
         NEW p \in Span(ts, a, b, s, e), p # <<ts[b], e>>
  PROVE  Onward(nx, p) \in Span(ts, a, b, s, e) /\ Onward(nx, p) # <<ts[a], s>>
<1>1. a \in Int /\ b \in Int /\ a \in lo..hi /\ b \in lo..hi /\ s \in Nat /\ e \in Nat /\ e < TableSize
      /\ lo \in Int /\ hi \in Int
  BY IndicesGoOn DEF IsChain, HasEnds, Indices
<1>2. PICK j \in a..b : /\ p[1] = ts[j]
                        /\ j = a => s <= p[2]
                        /\ j = b => p[2] <= e
  BY DEF Span
<1>3. /\ p = <<p[1], p[2]>> /\ p[1] \in Tables /\ p[2] \in Indices /\ p[2] \in Nat /\ p[2] < TableSize
      /\ j \in Int /\ j \in lo..hi
  BY <1>1, <1>2, IndicesGoOn DEF Span, Indices
<1>4. CASE p[2] + 1 = TableSize
  <2>1. j # b
    <3> SUFFICES ASSUME j = b PROVE FALSE
      OBVIOUS
    <3>1. p[2] = e
      BY <1>1, <1>2, <1>3, <1>4
    <3> QED
      BY <1>2, <1>3, <3>1
  <2>2. j + 1 \in a..b /\ j + 1 # a /\ j # hi /\ j + 1 \in lo..hi
    BY <1>1, <1>2, <1>3, <2>1
  <2>3. nx[ts[j]] = ts[j + 1] /\ ts[j + 1] \in Tables /\ ts[j + 1] # ts[a]
    BY <1>1, <1>3, <2>2 DEF IsChain
  <2>4. Onward(nx, p) = <<ts[j + 1], 0>>
    BY <1>2, <1>4, <2>3 DEF Onward
  <2>5. <<ts[j + 1], 0>> \in Tables \X Indices /\ <<ts[j + 1], 0>>[1] = ts[j + 1] /\ <<ts[j + 1], 0>>[2] = 0
    BY <2>3, IndicesGoOn
  <2>6. <<ts[j + 1], 0>> \in Span(ts, a, b, s, e)
    BY <1>1, <2>2, <2>5 DEF Span
  <2> QED
    BY <2>3, <2>4, <2>6
<1>5. CASE p[2] + 1 # TableSize
  <2>1. Onward(nx, p) = <<ts[j], p[2] + 1>>
    BY <1>2, <1>5 DEF Onward
  <2>2. p[2] + 1 \in Indices
    BY <1>3, <1>5, IndicesGoOn
  <2>3. j = b => p[2] + 1 <= e
    BY <1>1, <1>2, <1>3
  <2>4. j = a => s <= p[2] + 1 /\ s # p[2] + 1
    BY <1>1, <1>2, <1>3
  <2>5. <<ts[j], p[2] + 1>> \in Tables \X Indices /\ <<ts[j], p[2] + 1>>[1] = ts[j]
        /\ <<ts[j], p[2] + 1>>[2] = p[2] + 1
    BY <1>2, <1>3, <2>2
  <2>6. <<ts[j], p[2] + 1>> \in Span(ts, a, b, s, e)
    BY <1>2, <2>3, <2>4, <2>5 DEF Span
  <2>7. ts[j] = ts[a] => j = a
    BY <1>1, <1>3 DEF IsChain
  <2> QED
    BY <2>1, <2>4, <2>6, <2>7
<1> QED
  BY <1>4, <1>5

\* The end moves one place on: within its table, or to the next.
StepsOn(b, e, b2, e2) ==
  \/ b2 = b /\ e2 = e + 1
  \/ b2 = b + 1 /\ e2 = 0 /\ e + 1 = TableSize

LEMMA SpanBack ==
  ASSUME NEW al, NEW nx, NEW pv, NEW ts, NEW lo, NEW hi, IsChain(al, nx, pv, ts, lo, hi),
         NEW a, NEW b, NEW s, NEW e, HasEnds(lo, hi, a, b, s, e),
         NEW b2, NEW e2, HasEnds(lo, hi, a, b2, s, e2), StepsOn(b, e, b2, e2)
  PROVE  /\ <<ts[b2], e2>> \notin Span(ts, a, b, s, e)
         /\ Span(ts, a, b2, s, e2) = Span(ts, a, b, s, e) \cup {<<ts[b2], e2>>}
         /\ Onward(nx, <<ts[b], e>>) = <<ts[b2], e2>>
<1>1. /\ a \in Int /\ b \in Int /\ b2 \in Int /\ lo \in Int /\ hi \in Int
      /\ a \in lo..hi /\ b \in lo..hi /\ b2 \in lo..hi /\ a <= b
      /\ s \in Nat /\ e \in Nat /\ e2 \in Nat /\ e < TableSize /\ e2 < TableSize
  BY IndicesGoOn DEF IsChain, HasEnds, Indices
<1>2. <<ts[b2], e2>> \in Span(ts, a, b2, s, e2)
  BY SpanEnds
<1>3. \A p \in Tables \X Indices : p = <<p[1], p[2]>> /\ p[2] \in Nat /\ p[2] < TableSize
  BY IndicesGoOn DEF Indices
<1>4. ASSUME NEW j \in a..b PROVE j \in a..b2 /\ j \in lo..hi
  BY <1>1 DEF StepsOn
<1>5. \A j, k \in lo..hi : ts[j] = ts[k] => j = k
  BY DEF IsChain
<1>6. <<ts[b2], e2>> \notin Span(ts, a, b, s, e)
  <2> SUFFICES ASSUME <<ts[b2], e2>> \in Span(ts, a, b, s, e) PROVE FALSE
    OBVIOUS
  <2>1. PICK j \in a..b : ts[b2] = ts[j] /\ (j = b => e2 <= e)
    BY DEF Span
  <2>2. j = b2
    BY <1>1, <1>4, <1>5, <2>1
  <2> QED
    BY <1>1, <2>1, <2>2 DEF StepsOn
<1>7. ASSUME NEW p \in Span(ts, a, b, s, e) PROVE p \in Span(ts, a, b2, s, e2)
  <2>1. PICK j \in a..b : p[1] = ts[j] /\ (j = a => s <= p[2]) /\ (j = b => p[2] <= e)
    BY DEF Span
  <2>2. p \in Tables \X Indices /\ p[2] \in Nat
    BY <1>3 DEF Span
  <2>3. j \in a..b2
    BY <1>4
  <2>4. j = b2 => p[2] <= e2
    BY <1>1, <2>1, <2>2 DEF StepsOn
  <2> QED
    BY <2>1, <2>2, <2>3, <2>4 DEF Span
<1>8. ASSUME NEW p \in Span(ts, a, b2, s, e2), p # <<ts[b2], e2>> PROVE p \in Span(ts, a, b, s, e)
  <2>1. PICK j \in a..b2 : p[1] = ts[j] /\ (j = a => s <= p[2]) /\ (j = b2 => p[2] <= e2)
    BY DEF Span
  <2>2. p \in Tables \X Indices /\ p = <<p[1], p[2]>> /\ p[2] \in Nat /\ p[2] < TableSize /\ j \in Int
    BY <1>1, <1>3 DEF Span
  <2>3. ~(j = b2 /\ p[2] = e2)
    BY <1>8, <2>1, <2>2
  <2>4. j \in a..b /\ (j = b => p[2] <= e)
    BY <1>1, <2>1, <2>2, <2>3 DEF StepsOn
  <2> QED
    BY <2>1, <2>2, <2>4 DEF Span
<1>9. Onward(nx, <<ts[b], e>>) = <<ts[b2], e2>>
  <2>1. CASE b2 = b /\ e2 = e + 1
    BY <1>1, <2>1 DEF Onward
  <2>2. CASE b2 = b + 1 /\ e2 = 0 /\ e + 1 = TableSize
    <3>1. b # hi /\ nx[ts[b]] = ts[b + 1]
      BY <1>1, <2>2 DEF IsChain
    <3> QED
      BY <2>2, <3>1 DEF Onward
  <2> QED
    BY <2>1, <2>2 DEF StepsOn
<1> QED
  BY <1>2, <1>6, <1>7, <1>8, <1>9

LEMMA SpanFront ==
  ASSUME NEW al, NEW nx, NEW pv, NEW ts, NEW lo, NEW hi, IsChain(al, nx, pv, ts, lo, hi),
         NEW a, NEW b, NEW s, NEW e, HasEnds(lo, hi, a, b, s, e),
         NEW a2, NEW s2, HasEnds(lo, hi, a2, b, s2, e), StepsOn(a2, s2, a, s)
  PROVE  /\ <<ts[a2], s2>> \notin Span(ts, a, b, s, e)
         /\ Span(ts, a2, b, s2, e) = Span(ts, a, b, s, e) \cup {<<ts[a2], s2>>}
         /\ Onward(nx, <<ts[a2], s2>>) = <<ts[a], s>>
<1>1. /\ a \in Int /\ b \in Int /\ a2 \in Int /\ lo \in Int /\ hi \in Int
      /\ a \in lo..hi /\ b \in lo..hi /\ a2 \in lo..hi /\ a <= b
      /\ s \in Nat /\ e \in Nat /\ s2 \in Nat /\ s < TableSize /\ s2 < TableSize
  BY IndicesGoOn DEF IsChain, HasEnds, Indices
<1>2. <<ts[a2], s2>> \in Span(ts, a2, b, s2, e)
  BY SpanEnds
<1>3. \A p \in Tables \X Indices : p = <<p[1], p[2]>> /\ p[2] \in Nat /\ p[2] < TableSize
  BY IndicesGoOn DEF Indices
<1>4. ASSUME NEW j \in a..b PROVE j \in a2..b /\ j \in lo..hi
  BY <1>1 DEF StepsOn
<1>5. \A j, k \in lo..hi : ts[j] = ts[k] => j = k
  BY DEF IsChain
<1>6. <<ts[a2], s2>> \notin Span(ts, a, b, s, e)
  <2> SUFFICES ASSUME <<ts[a2], s2>> \in Span(ts, a, b, s, e) PROVE FALSE
    OBVIOUS
  <2>1. PICK j \in a..b : ts[a2] = ts[j] /\ (j = a => s <= s2)
    BY DEF Span
  <2>2. j = a2
    BY <1>1, <1>4, <1>5, <2>1
  <2> QED
    BY <1>1, <2>1, <2>2 DEF StepsOn
<1>7. ASSUME NEW p \in Span(ts, a, b, s, e) PROVE p \in Span(ts, a2, b, s2, e)
  <2>1. PICK j \in a..b : p[1] = ts[j] /\ (j = a => s <= p[2]) /\ (j = b => p[2] <= e)
    BY DEF Span
  <2>2. p \in Tables \X Indices /\ p[2] \in Nat
    BY <1>3 DEF Span
  <2>3. j \in a2..b
    BY <1>4
  <2>4. j = a2 => s2 <= p[2]
    BY <1>1, <2>1, <2>2 DEF StepsOn
  <2> QED
    BY <2>1, <2>2, <2>3, <2>4 DEF Span
<1>8. ASSUME NEW p \in Span(ts, a2, b, s2, e), p # <<ts[a2], s2>> PROVE p \in Span(ts, a, b, s, e)
  <2>1. PICK j \in a2..b : p[1] = ts[j] /\ (j = a2 => s2 <= p[2]) /\ (j = b => p[2] <= e)
    BY DEF Span
  <2>2. p \in Tables \X Indices /\ p = <<p[1], p[2]>> /\ p[2] \in Nat /\ p[2] < TableSize /\ j \in Int
    BY <1>1, <1>3 DEF Span
  <2>3. ~(j = a2 /\ p[2] = s2)
    BY <1>8, <2>1, <2>2
  <2>4. j \in a..b /\ (j = a => s <= p[2])
    BY <1>1, <2>1, <2>2, <2>3 DEF StepsOn
  <2> QED
    BY <2>1, <2>2, <2>4 DEF Span
<1>9. Onward(nx, <<ts[a2], s2>>) = <<ts[a], s>>
  <2>1. CASE a = a2 /\ s = s2 + 1
    BY <1>1, <2>1 DEF Onward
  <2>2. CASE a = a2 + 1 /\ s = 0 /\ s2 + 1 = TableSize
    <3>1. a2 # hi /\ nx[ts[a2]] = ts[a2 + 1]
      BY <1>1, <2>2 DEF IsChain
    <3> QED
      BY <2>2, <3>1 DEF Onward
  <2> QED
    BY <2>1, <2>2 DEF StepsOn
<1> QED
  BY <1>2, <1>6, <1>7, <1>8, <1>9

-----------------------------------------------------------------------------
(***************************************************************************)
(* The contents when an end has moved by one place.                        *)
(***************************************************************************)
\* R leads from start to end, over elements only.
Between(R, nx, cl, start, end) ==
  /\ R \in SUBSET (Tables \X Indices) /\ start \in R /\ end \in R
  /\ \A p \in R \ {end} : Onward(nx, p) \in R /\ cl[p[1]][p[2]] \in Cell

\* The contents, as a walk.
LEMMA ContentsMet ==
  ASSUME NEW nx \in Links, NoLoop(nx), NEW cl \in CellArrays, NEW start, NEW end
  PROVE  \E f : Walks(f, nx, cl, end) /\ ContentsOf(nx, cl, start, end) = f[start]
<1>1. PICK f : Walks(f, nx, cl, end)
  BY WalkExists
<1>2. ContentsOf(nx, cl, start, end) = f[start]
  BY <1>1, ContentsWalk
<1> QED
  BY <1>1, <1>2

LEMMA ContentsAreCells ==
  ASSUME NEW nx \in Links, NoLoop(nx), NEW cl \in CellArrays, NEW start, NEW end,
         NEW R, Between(R, nx, cl, start, end)
  PROVE  ContentsOf(nx, cl, start, end) \in Seq(Cell)
<1>1. PICK f : Walks(f, nx, cl, end)
  BY WalkExists
<1>2. ContentsOf(nx, cl, start, end) = f[start]
  BY <1>1, ContentsWalk, ZenonT(40)
<1>3. \A p \in R : f[p] \in Seq(Cell)
  BY <1>1, WalkMeetsCells DEF Between
<1> QED
  BY <1>2, <1>3 DEF Between

\* The same links, and the same cells, in a set of places.
SameWays(nx, nx2, R) == \A p \in R : Onward(nx2, p) = Onward(nx, p)

SameCells(cl, cl2, R) == \A p \in R : cl2[p[1]][p[2]] = cl[p[1]][p[2]]

\* With one element more at the back.
LEMMA ContentsBack ==
  ASSUME NEW nx \in Links, NoLoop(nx), NEW cl \in CellArrays, NEW start, NEW end,
         NEW nx2 \in Links, NoLoop(nx2), NEW cl2 \in CellArrays, NEW end2,
         NEW R, Between(R, nx, cl, start, end), end2 \notin R, Onward(nx2, end) = end2,
         SameWays(nx, nx2, R \ {end}), SameCells(cl, cl2, R \ {end}),
         cl2[end[1]][end[2]] \in Cell, end2 \in Places
  PROVE  ContentsOf(nx2, cl2, start, end2)
           = ContentsOf(nx, cl, start, end) \o <<cl2[end[1]][end[2]]>>
<1>1. PICK f : Walks(f, nx, cl, end) /\ ContentsOf(nx, cl, start, end) = f[start]
  BY ContentsMet
<1>2. PICK f2 : Walks(f2, nx2, cl2, end2) /\ ContentsOf(nx2, cl2, start, end2) = f2[start]
  BY ContentsMet
<1>3. ContentsOf(nx, cl, start, end) = f[start] /\ ContentsOf(nx2, cl2, start, end2) = f2[start]
  BY <1>1, <1>2
<1> DEFINE rest == <<cl2[end[1]][end[2]]>>
<1>4. rest \in Stored
  BY DEF Stored
<1>5. f2[end] = rest
  <2>1. end \in Places /\ end[1] # Null /\ end # end2
    BY DEF Between, Places
  <2>2. f2[end2] = <<>>
    BY <1>2 DEF Walks
  <2>3. f2[end] = rest \o <<>>
    BY <1>2, <2>1, <2>2 DEF Walks
  <2> QED
    BY <1>4, <2>3, ConcatEmptySeq DEF Stored
<1>6. R \in SUBSET (Tables \X Indices) /\ end \in R /\ start \in R
  BY DEF Between
<1>7. Agree(R, nx, cl, end, nx2, cl2, end2)
  BY DEF Agree, Between, SameWays, SameCells
<1> HIDE DEF rest
<1>8. \A p \in R : f2[p] = f[p] \o rest
  <2>1. Walks(f, nx, cl, end) /\ Walks(f2, nx2, cl2, end2) /\ rest \in Stored /\ f2[end] = rest
    BY <1>1, <1>2, <1>4, <1>5
  <2> QED
    BY <1>6, <1>7, <2>1, WalkGoesOn, SMTT(30)
<1> QED
  BY <1>3, <1>6, <1>8 DEF rest

\* With one element more at the front.
LEMMA ContentsFront ==
  ASSUME NEW nx \in Links, NoLoop(nx), NEW cl \in CellArrays, NEW start, NEW end,
         NEW nx2 \in Links, NoLoop(nx2), NEW cl2 \in CellArrays, NEW start2,
         NEW R, Between(R, nx, cl, start, end), start2 \notin R, Onward(nx2, start2) = start,
         SameWays(nx, nx2, R \ {end}), SameCells(cl, cl2, R \ {end}),
         start2 \in Places, start2[1] # Null
  PROVE  ContentsOf(nx2, cl2, start2, end)
           = <<cl2[start2[1]][start2[2]]>> \o ContentsOf(nx, cl, start, end)
<1>1. PICK f : Walks(f, nx, cl, end) /\ ContentsOf(nx, cl, start, end) = f[start]
  BY ContentsMet
<1>2. PICK f2 : Walks(f2, nx2, cl2, end) /\ ContentsOf(nx2, cl2, start2, end) = f2[start2]
  BY ContentsMet
<1>3. ContentsOf(nx, cl, start, end) = f[start] /\ ContentsOf(nx2, cl2, start2, end) = f2[start2]
  BY <1>1, <1>2
<1>4. R \in SUBSET (Tables \X Indices) /\ end \in R /\ start \in R
  BY DEF Between
<1>5. start2 \in Places /\ start2[1] # Null /\ start2 # end /\ end \in Places
  BY <1>4 DEF Places
<1>6. f2[start2] = <<cl2[start2[1]][start2[2]]>> \o f2[start]
  BY <1>2, <1>5 DEF Walks
<1> DEFINE rest == <<>>
<1>7. rest \in Stored /\ f2[end] = rest
  <2>1. f2[end] = <<>>
    BY <1>2, <1>5 DEF Walks
  <2>2. <<>> \in Stored
    BY EmptySeq DEF Stored
  <2> QED
    BY <2>1, <2>2
<1> HIDE DEF rest
<1>8. Agree(R, nx, cl, end, nx2, cl2, end)
  BY DEF Agree, Between, SameWays, SameCells
<1>9. \A p \in R : f2[p] = f[p] \o rest
  <2>1. Walks(f, nx, cl, end) /\ Walks(f2, nx2, cl2, end) /\ R \in SUBSET (Tables \X Indices) /\ end \in R
    BY <1>1, <1>2, <1>4
  <2> QED
    BY <2>1, <1>7, <1>8, WalkGoesOn
<1>10. f[start] \in Stored
  BY <1>1, <1>4 DEF Walks, Places
<1>11. f2[start] = f[start]
  BY <1>4, <1>9, <1>10, ConcatEmptySeq DEF Stored, rest
<1> QED
  BY <1>3, <1>6, <1>11

\* With nothing between the ends.
LEMMA ContentsEmpty ==
  ASSUME NEW nx \in Links, NoLoop(nx), NEW cl \in CellArrays, NEW end \in Places
  PROVE  ContentsOf(nx, cl, end, end) = <<>>
<1>1. PICK f : Walks(f, nx, cl, end)
  BY WalkExists
<1>2. ContentsOf(nx, cl, end, end) = f[end]
  BY <1>1, ContentsWalk, ZenonT(40)
<1> QED
  BY <1>1, <1>2 DEF Walks

\* Two chains over the same row of tables lead the same way between the ends.
LEMMA SameWay ==
  ASSUME NEW al, NEW nx, NEW pv, NEW ts, NEW lo, NEW hi, IsChain(al, nx, pv, ts, lo, hi),
         NEW al2, NEW nx2, NEW pv2, NEW lo2, NEW hi2, IsChain(al2, nx2, pv2, ts, lo2, hi2),
         NEW a, NEW b, NEW s, NEW e, HasEnds(lo, hi, a, b, s, e), HasEnds(lo2, hi2, a, b, s, e),
         NEW p \in Span(ts, a, b, s, e), p # <<ts[b], e>>
  PROVE  Onward(nx2, p) = Onward(nx, p)
<1>1. /\ a \in Int /\ b \in Int /\ a \in lo..hi /\ b \in lo..hi /\ e \in Nat /\ e < TableSize
      /\ lo \in Int /\ hi \in Int /\ lo2 \in Int /\ hi2 \in Int /\ a \in lo2..hi2 /\ b \in lo2..hi2
  BY IndicesGoOn DEF IsChain, HasEnds, Indices
<1>2. PICK j \in a..b : p[1] = ts[j] /\ (j = b => p[2] <= e)
  BY DEF Span
<1>3. /\ p = <<p[1], p[2]>> /\ p[2] \in Nat /\ p[2] < TableSize
      /\ j \in Int /\ j \in lo..hi /\ j \in lo2..hi2
  BY <1>1, <1>2, IndicesGoOn DEF Span, Indices
<1>4. CASE p[2] + 1 = TableSize
  <2>1. j # b
    <3> SUFFICES ASSUME j = b PROVE FALSE
      OBVIOUS
    <3>1. p[2] = e
      BY <1>1, <1>2, <1>3, <1>4
    <3> QED
      BY <1>2, <1>3, <3>1
  <2>2. j # hi /\ j # hi2
    BY <1>1, <1>2, <1>3, <2>1
  <2>3. nx[ts[j]] = ts[j + 1] /\ nx2[ts[j]] = ts[j + 1]
    BY <1>3, <2>2 DEF IsChain
  <2> QED
    BY <1>2, <1>4, <2>3 DEF Onward
<1>5. CASE p[2] + 1 # TableSize
  BY <1>5 DEF Onward
<1> QED
  BY <1>4, <1>5

\* Every place from the first element to the last has one.
Filled(cl, ts, a, b, s, e) ==
  \A p \in Span(ts, a, b, s, e) \ {<<ts[b], e>>} : cl[p[1]][p[2]] \in Cell

LEMMA FilledBetween ==
  ASSUME NEW al, NEW nx, NEW pv, NEW ts, NEW lo, NEW hi, IsChain(al, nx, pv, ts, lo, hi),
         NEW a, NEW b, NEW s, NEW e, HasEnds(lo, hi, a, b, s, e), NEW cl, Filled(cl, ts, a, b, s, e)
  PROVE  Between(Span(ts, a, b, s, e), nx, cl, <<ts[a], s>>, <<ts[b], e>>)
<1>1. <<ts[a], s>> \in Span(ts, a, b, s, e) /\ <<ts[b], e>> \in Span(ts, a, b, s, e)
  BY SpanEnds
<1>2. \A p \in Span(ts, a, b, s, e) \ {<<ts[b], e>>} : Onward(nx, p) \in Span(ts, a, b, s, e)
  BY SpanIsWalk
<1>3. Span(ts, a, b, s, e) \in SUBSET (Tables \X Indices)
  BY DEF Span
<1> QED
  BY <1>1, <1>2, <1>3 DEF Between, Filled

\* A sequence with one element more.
AtBack(longer, rest, v) == longer = rest \o <<v>>

AtFront(longer, v, rest) == longer = <<v>> \o rest

\* The places from the first element to the last, in two states of a collection:
\* in the second there is one more at the back.
MovesBack(al, nx, pv, cl, lo, hi, al2, nx2, pv2, cl2, lo2, hi2, ts, a, b, s, e, b2, e2) ==
  /\ nx \in Links /\ NoLoop(nx) /\ cl \in CellArrays /\ IsChain(al, nx, pv, ts, lo, hi)
  /\ nx2 \in Links /\ NoLoop(nx2) /\ cl2 \in CellArrays /\ IsChain(al2, nx2, pv2, ts, lo2, hi2)
  /\ HasEnds(lo, hi, a, b, s, e) /\ HasEnds(lo2, hi2, a, b, s, e) /\ HasEnds(lo2, hi2, a, b2, s, e2)
  /\ StepsOn(b, e, b2, e2)
  /\ Filled(cl, ts, a, b, s, e)
  /\ SameCells(cl, cl2, Span(ts, a, b, s, e) \ {<<ts[b], e>>}) /\ cl2[ts[b]][e] \in Cell

LEMMA LongerBack ==
  ASSUME NEW al, NEW nx, NEW pv, NEW cl, NEW lo, NEW hi, NEW al2, NEW nx2, NEW pv2, NEW cl2, NEW lo2, NEW hi2,
         NEW ts, NEW a, NEW b, NEW s, NEW e, NEW b2, NEW e2,
         MovesBack(al, nx, pv, cl, lo, hi, al2, nx2, pv2, cl2, lo2, hi2, ts, a, b, s, e, b2, e2)
  PROVE  /\ Filled(cl2, ts, a, b2, s, e2)
         /\ AtBack(ContentsOf(nx2, cl2, <<ts[a], s>>, <<ts[b2], e2>>),
                   ContentsOf(nx, cl, <<ts[a], s>>, <<ts[b], e>>), cl2[ts[b]][e])
<1>0. /\ nx \in Links /\ NoLoop(nx) /\ cl \in CellArrays /\ IsChain(al, nx, pv, ts, lo, hi)
      /\ nx2 \in Links /\ NoLoop(nx2) /\ cl2 \in CellArrays /\ IsChain(al2, nx2, pv2, ts, lo2, hi2)
      /\ HasEnds(lo, hi, a, b, s, e) /\ HasEnds(lo2, hi2, a, b, s, e) /\ HasEnds(lo2, hi2, a, b2, s, e2)
      /\ StepsOn(b, e, b2, e2)
      /\ Filled(cl, ts, a, b, s, e)
      /\ SameCells(cl, cl2, Span(ts, a, b, s, e) \ {<<ts[b], e>>}) /\ cl2[ts[b]][e] \in Cell
  BY DEF MovesBack
<1> DEFINE R == Span(ts, a, b, s, e)
           start == <<ts[a], s>>
           end == <<ts[b], e>>
           end2 == <<ts[b2], e2>>
<1>1. Between(R, nx, cl, start, end)
  BY <1>0, FilledBetween
<1>2. end2 \notin R /\ Span(ts, a, b2, s, e2) = R \cup {end2} /\ Onward(nx2, end) = end2
  <2> HIDE DEF R, end, end2
  <2> QED
    BY <1>0, SpanBack DEF R, end, end2
<1>3. SameWays(nx, nx2, R \ {end})
  BY <1>0, SameWay DEF SameWays
<1>4. \A p \in R \ {end} : cl2[p[1]][p[2]] = cl[p[1]][p[2]]
  BY <1>0 DEF SameCells
<1>5. end2 \in Places /\ end[1] = ts[b] /\ end[2] = e
  <2>1. ts[b2] \in Tables /\ e2 \in Indices
    BY <1>0 DEF IsChain, HasEnds
  <2> QED
    BY <2>1 DEF Places
<1>6. Filled(cl2, ts, a, b2, s, e2)
  <2>1. ASSUME NEW p \in Span(ts, a, b2, s, e2) \ {end2} PROVE cl2[p[1]][p[2]] \in Cell
    <3>1. CASE p = end
      BY <1>0, <1>5, <3>1
    <3>2. CASE p # end
      <4>1. p \in R \ {end}
        <5> HIDE DEF R, end, end2
        <5> QED
          BY <1>2, <2>1, <3>2
      <4> QED
        BY <1>0, <1>4, <4>1 DEF Filled
    <3> QED
      BY <3>1, <3>2
  <2> QED
    BY <2>1 DEF Filled
<1>7. cl2[end[1]][end[2]] \in Cell /\ cl2[end[1]][end[2]] = cl2[ts[b]][e]
  BY <1>0, <1>5
<1>8. ContentsOf(nx2, cl2, start, end2) = ContentsOf(nx, cl, start, end) \o <<cl2[end[1]][end[2]]>>
  <2> HIDE DEF R, start, end, end2
  <2>1. SameCells(cl, cl2, R \ {end})
    BY <1>4 DEF SameCells
  <2>2. nx \in Links /\ NoLoop(nx) /\ cl \in CellArrays /\ nx2 \in Links /\ NoLoop(nx2) /\ cl2 \in CellArrays
    BY <1>0
  <2>3. end2 \notin R /\ Onward(nx2, end) = end2 /\ end2 \in Places /\ cl2[end[1]][end[2]] \in Cell
    BY <1>2, <1>5, <1>7
  <2> QED
    BY <1>1, <1>3, <2>1, <2>2, <2>3, ContentsBack
<1> QED
  BY <1>6, <1>7, <1>8 DEF AtBack

\* The same, with one more at the front.
MovesFront(al, nx, pv, cl, lo, hi, al2, nx2, pv2, cl2, lo2, hi2, ts, a, b, s, e, a2, s2) ==
  /\ nx \in Links /\ NoLoop(nx) /\ cl \in CellArrays /\ IsChain(al, nx, pv, ts, lo, hi)
  /\ nx2 \in Links /\ NoLoop(nx2) /\ cl2 \in CellArrays /\ IsChain(al2, nx2, pv2, ts, lo2, hi2)
  /\ HasEnds(lo, hi, a, b, s, e) /\ HasEnds(lo2, hi2, a, b, s, e) /\ HasEnds(lo2, hi2, a2, b, s2, e)
  /\ StepsOn(a2, s2, a, s)
  /\ Filled(cl, ts, a, b, s, e)
  /\ SameCells(cl, cl2, Span(ts, a, b, s, e) \ {<<ts[b], e>>}) /\ cl2[ts[a2]][s2] \in Cell

LEMMA LongerFront ==
  ASSUME NEW al, NEW nx, NEW pv, NEW cl, NEW lo, NEW hi, NEW al2, NEW nx2, NEW pv2, NEW cl2, NEW lo2, NEW hi2,
         NEW ts, NEW a, NEW b, NEW s, NEW e, NEW a2, NEW s2,
         MovesFront(al, nx, pv, cl, lo, hi, al2, nx2, pv2, cl2, lo2, hi2, ts, a, b, s, e, a2, s2)
  PROVE  /\ Filled(cl2, ts, a2, b, s2, e)
         /\ AtFront(ContentsOf(nx2, cl2, <<ts[a2], s2>>, <<ts[b], e>>), cl2[ts[a2]][s2],
                    ContentsOf(nx, cl, <<ts[a], s>>, <<ts[b], e>>))
<1>0. /\ nx \in Links /\ NoLoop(nx) /\ cl \in CellArrays /\ IsChain(al, nx, pv, ts, lo, hi)
      /\ nx2 \in Links /\ NoLoop(nx2) /\ cl2 \in CellArrays /\ IsChain(al2, nx2, pv2, ts, lo2, hi2)
      /\ HasEnds(lo, hi, a, b, s, e) /\ HasEnds(lo2, hi2, a, b, s, e) /\ HasEnds(lo2, hi2, a2, b, s2, e)
      /\ StepsOn(a2, s2, a, s)
      /\ Filled(cl, ts, a, b, s, e)
      /\ SameCells(cl, cl2, Span(ts, a, b, s, e) \ {<<ts[b], e>>}) /\ cl2[ts[a2]][s2] \in Cell
  BY DEF MovesFront
<1> DEFINE R == Span(ts, a, b, s, e)
           start == <<ts[a], s>>
           end == <<ts[b], e>>
           start2 == <<ts[a2], s2>>
<1>1. Between(R, nx, cl, start, end)
  BY <1>0, FilledBetween
<1>2. start2 \notin R /\ Span(ts, a2, b, s2, e) = R \cup {start2} /\ Onward(nx2, start2) = start
  <2> HIDE DEF R, start, start2
  <2> QED
    BY <1>0, SpanFront DEF R, start, start2
<1>3. SameWays(nx, nx2, R \ {end})
  BY <1>0, SameWay DEF SameWays
<1>4. \A p \in R \ {end} : cl2[p[1]][p[2]] = cl[p[1]][p[2]]
  BY <1>0 DEF SameCells
<1>5. start2 \in Places /\ start2[1] # Null /\ start2[1] = ts[a2] /\ start2[2] = s2
  <2>1. ts[a2] \in Tables /\ s2 \in Indices
    BY <1>0 DEF IsChain, HasEnds
  <2> QED
    BY <2>1 DEF Places
<1>6. Filled(cl2, ts, a2, b, s2, e)
  <2>1. ASSUME NEW p \in Span(ts, a2, b, s2, e) \ {end} PROVE cl2[p[1]][p[2]] \in Cell
    <3>1. CASE p = start2
      BY <1>0, <1>5, <3>1
    <3>2. CASE p # start2
      <4>1. p \in R \ {end}
        <5> HIDE DEF R, end, start2
        <5> QED
          BY <1>2, <2>1, <3>2
      <4> QED
        BY <1>0, <1>4, <4>1 DEF Filled
    <3> QED
      BY <3>1, <3>2
  <2> QED
    BY <2>1 DEF Filled
<1>7. cl2[start2[1]][start2[2]] = cl2[ts[a2]][s2]
  BY <1>0, <1>5
<1>8. ContentsOf(nx2, cl2, start2, end) = <<cl2[start2[1]][start2[2]]>> \o ContentsOf(nx, cl, start, end)
  <2> HIDE DEF R, start, end, start2
  <2>1. SameCells(cl, cl2, R \ {end})
    BY <1>4 DEF SameCells
  <2>2. ContentsOf(nx2, cl2, start2, end) = <<cl2[start2[1]][start2[2]]>> \o ContentsOf(nx, cl, start, end)
    <3>1. start2 \in Places /\ start2[1] # Null /\ start2 \notin R /\ Onward(nx2, start2) = start
      BY <1>2, <1>5
    <3> QED
      BY <1>0, <1>1, <3>1, <1>3, <2>1, ContentsFront
  <2> QED
    BY <2>2
<1> QED
  BY <1>6, <1>7, <1>8 DEF AtFront

\* The shorter span is filled when the longer one is.
LEMMA ShorterBack ==
  ASSUME NEW al, NEW nx, NEW pv, NEW ts, NEW lo, NEW hi, IsChain(al, nx, pv, ts, lo, hi),
         NEW a, NEW b, NEW s, NEW e, HasEnds(lo, hi, a, b, s, e),
         NEW b2, NEW e2, HasEnds(lo, hi, a, b2, s, e2), StepsOn(b, e, b2, e2),
         NEW cl, Filled(cl, ts, a, b2, s, e2)
  PROVE  Filled(cl, ts, a, b, s, e) /\ cl[ts[b]][e] \in Cell
<1> DEFINE R == Span(ts, a, b, s, e)
           end == <<ts[b], e>>
           end2 == <<ts[b2], e2>>
<1>1. end2 \notin R /\ Span(ts, a, b2, s, e2) = R \cup {end2} /\ Onward(nx, <<ts[b], e>>) = end2
  <2> HIDE DEF R, end2
  <2> QED
    BY SpanBack DEF R, end2
<1>2. end \in R
  BY SpanEnds
<1> HIDE DEF R, end, end2
<1>3. \A p \in R : cl[p[1]][p[2]] \in Cell
  BY <1>1 DEF Filled, end2
<1>4. end[1] = ts[b] /\ end[2] = e
  BY DEF end
<1> QED
  BY <1>2, <1>3, <1>4 DEF Filled, R

LEMMA ShorterFront ==
  ASSUME NEW al, NEW nx, NEW pv, NEW ts, NEW lo, NEW hi, IsChain(al, nx, pv, ts, lo, hi),
         NEW a, NEW b, NEW s, NEW e, HasEnds(lo, hi, a, b, s, e),
         NEW a2, NEW s2, HasEnds(lo, hi, a2, b, s2, e), StepsOn(a2, s2, a, s),
         NEW cl, Filled(cl, ts, a2, b, s2, e)
  PROVE  Filled(cl, ts, a, b, s, e) /\ cl[ts[a2]][s2] \in Cell
<1> DEFINE R == Span(ts, a, b, s, e)
           end == <<ts[b], e>>
           start2 == <<ts[a2], s2>>
<1>1. start2 \notin R /\ Span(ts, a2, b, s2, e) = R \cup {start2} /\ Onward(nx, start2) = <<ts[a], s>>
  <2> HIDE DEF R, start2
  <2> QED
    BY SpanFront DEF R, start2
<1>2. end \in R
  BY SpanEnds
<1> HIDE DEF R, end, start2
<1>3. \A p \in (R \cup {start2}) \ {end} : cl[p[1]][p[2]] \in Cell
  BY <1>1 DEF Filled, end
<1>4. start2[1] = ts[a2] /\ start2[2] = s2 /\ start2 # end
  BY <1>1, <1>2 DEF start2
<1> QED
  BY <1>3, <1>4 DEF Filled, R, end

-----------------------------------------------------------------------------
(***************************************************************************)
(* The tables that are counted and deleted.                                *)
(***************************************************************************)
LEMMA AlongIs ==
  ASSUME NEW link \in Links, NEW al \in SUBSET Tables, NEW t \in al,
         Ends(link, al, Null)
  PROVE  /\ t \in Along(link, t) /\ Along(link, t) \subseteq al
         /\ Ends(link, Along(link, t), Null)
<1> DEFINE N == Cardinality(Tables)
           start == {t} \ {Null}
           X == SUBSET al
           step == [S \in X |-> S \cup ({link[u] : u \in S} \ {Null})]
           met[n \in 0..N] ==
             IF n = 0 THEN {t} \ {Null} ELSE met[n - 1] \cup ({link[u] : u \in met[n - 1]} \ {Null})
<1>1. Along(link, t) = met[N]
  BY DEF Along
<1>2. N \in Nat /\ IsFiniteSet(al) /\ Cardinality(al) <= N
  BY FS_CardinalityType, FS_Subset
<1>3. start \in X /\ step \in [X -> X] /\ start = {t} /\ Null \notin al
  BY DEF Ends
<1>4. met = [n \in 0..N |->
               IF n = 0 THEN {t} \ {Null} ELSE met[n - 1] \cup ({link[u] : u \in met[n - 1]} \ {Null})]
  <2>4. PICK f \in [0..N -> X] : f[0] = start /\ \A n \in 1..N : f[n] = step[f[n - 1]]
    <3> HIDE DEF step, start, X, N
    <3>1. Iterated(X, start, step, N)
      BY <1>2, <1>3, Iterates
    <3> QED
      BY <3>1 DEF Iterated
  <2>5. \A n \in 1..N : f[n] = f[n - 1] \cup ({link[u] : u \in f[n - 1]} \ {Null})
    <3> SUFFICES ASSUME NEW n \in 1..N
                 PROVE  f[n] = f[n - 1] \cup ({link[u] : u \in f[n - 1]} \ {Null})
      OBVIOUS
    <3>1. n - 1 \in 0..N
      BY <1>2
    <3>2. f[n - 1] \in X
      BY <2>4, <3>1
    <3> QED
      BY <2>4, <3>2
  <2>6. f = [n \in 0..N |->
               IF n = 0 THEN {t} \ {Null} ELSE f[n - 1] \cup ({link[u] : u \in f[n - 1]} \ {Null})]
    <3> HIDE DEF N
    <3>1. \A n \in 0..N :
            f[n] = IF n = 0 THEN {t} \ {Null} ELSE f[n - 1] \cup ({link[u] : u \in f[n - 1]} \ {Null})
      <4>1. \A n \in 0..N : n # 0 => n \in 1..N
        BY <1>2
      <4> QED
        BY <2>4, <2>5, <4>1
    <3> QED
      BY <2>4, <3>1
  <2> QED
    BY <2>6, Zenon
<1> HIDE DEF met, step, N
<1>8. met[0] = start
  BY <1>2, <1>4
<1>9. Follows(met, link, Null, al, N)
  <2> SUFFICES ASSUME NEW n \in 0..(N - 1)
               PROVE  met[n + 1] = met[n] \cup ({link[u] : u \in met[n]} \ {Null})
    BY DEF Follows
  <2>1. n + 1 \in 0..N /\ n + 1 # 0 /\ (n + 1) - 1 = n
    BY <1>2
  <2> QED
    BY <1>4, <2>1
<1>11. start \subseteq met[N] /\ met[N] \subseteq al /\ Ends(link, met[N], Null)
  <2> HIDE DEF start, X
  <2>1. start \in SUBSET al
    BY <1>3 DEF X
  <2>2. N \in Nat /\ IsFiniteSet(al) /\ Cardinality(al) <= N /\ met[0] = start
    BY <1>2, <1>8
  <2> HIDE BrokenCollectionAssumption
  <2> QED
    BY <1>9, <2>1, <2>2, Reaches
<1> QED
  BY <1>1, <1>3, <1>11

\* All tables of the row are met from any of them, forward to its end and
\* backward to its beginning.
LEMMA AlongChain ==
  ASSUME NEW al \in SUBSET Tables, NEW nx \in Links, NEW pv \in Links, NEW ts, NEW lo, NEW hi,
         IsChain(al, nx, pv, ts, lo, hi), NEW a \in lo..hi
  PROVE  /\ \A j \in a..hi : ts[j] \in Along(nx, ts[a])
         /\ \A j \in lo..a : ts[j] \in Along(pv, ts[a])
         /\ Along(nx, ts[a]) \subseteq al /\ Along(pv, ts[a]) \subseteq al
<1>1. /\ a \in Int /\ lo \in Int /\ hi \in Int /\ ts[a] \in al /\ Null \notin al
      /\ \A u \in al : nx[u] \in al \cup {Null} /\ pv[u] \in al \cup {Null}
  <2>1. \A u \in al : nx[u] \in al \cup {Null} /\ pv[u] \in al \cup {Null}
    BY ChainIsClosed
  <2>2. a \in Int /\ lo \in Int /\ hi \in Int
    BY DEF IsChain
  <2>3. ts[a] \in al
    BY DEF IsChain
  <2>4. Null \notin al
    OBVIOUS
  <2> QED
    BY <2>1, <2>2, <2>3, <2>4
<1>2. /\ ts[a] \in Along(nx, ts[a]) /\ Along(nx, ts[a]) \subseteq al
      /\ \A u \in Along(nx, ts[a]) : nx[u] \in Along(nx, ts[a]) \cup {Null}
  <2>1. Ends(nx, al, Null)
    BY <1>1 DEF Ends
  <2> QED
    BY <1>1, <2>1, AlongIs DEF Ends
<1>3. /\ ts[a] \in Along(pv, ts[a]) /\ Along(pv, ts[a]) \subseteq al
      /\ \A u \in Along(pv, ts[a]) : pv[u] \in Along(pv, ts[a]) \cup {Null}
  <2>1. Ends(pv, al, Null)
    BY <1>1 DEF Ends
  <2> QED
    BY <1>1, <2>1, AlongIs DEF Ends
<1> DEFINE F == {n \in Nat : a + n <= hi => ts[a + n] \in Along(nx, ts[a])}
           B == {n \in Nat : lo <= a - n => ts[a - n] \in Along(pv, ts[a])}
<1>4. 0 \in F /\ 0 \in B
  BY <1>1, <1>2, <1>3
<1>5. ASSUME NEW n \in F PROVE n + 1 \in F
  <2> SUFFICES ASSUME a + (n + 1) <= hi PROVE ts[a + (n + 1)] \in Along(nx, ts[a])
    OBVIOUS
  <2>1. /\ n \in Nat /\ a + n \in lo..hi /\ a + n # hi /\ (a + n) + 1 = a + (n + 1)
        /\ (a + n) + 1 \in lo..hi /\ ts[a + n] \in Along(nx, ts[a])
    BY <1>1
  <2>2. nx[ts[a + n]] = ts[(a + n) + 1] /\ ts[(a + n) + 1] \in al
    BY <2>1 DEF IsChain
  <2> QED
    BY <1>1, <1>2, <2>1, <2>2
<1>6. ASSUME NEW n \in B PROVE n + 1 \in B
  <2> SUFFICES ASSUME lo <= a - (n + 1) PROVE ts[a - (n + 1)] \in Along(pv, ts[a])
    OBVIOUS
  <2>1. /\ n \in Nat /\ a - n \in lo..hi /\ a - n # lo /\ (a - n) - 1 = a - (n + 1)
        /\ (a - n) - 1 \in lo..hi /\ ts[a - n] \in Along(pv, ts[a])
    BY <1>1
  <2>2. pv[ts[a - n]] = ts[(a - n) - 1] /\ ts[(a - n) - 1] \in al
    BY <2>1 DEF IsChain
  <2> QED
    BY <1>1, <1>3, <2>1, <2>2
<1>7. F \in SUBSET Nat /\ B \in SUBSET Nat
  OBVIOUS
<1> HIDE DEF F, B
<1>8. (\A n \in Nat : n \in F) /\ (\A n \in Nat : n \in B)
  BY <1>4, <1>5, <1>6, <1>7, InductiveSet
<1>9. ASSUME NEW j \in a..hi PROVE ts[j] \in Along(nx, ts[a])
  <2>1. j - a \in Nat /\ a + (j - a) = j /\ j <= hi
    BY <1>1
  <2>2. j - a \in F
    BY <1>8, <2>1
  <2> QED
    BY <2>1, <2>2 DEF F
<1>10. ASSUME NEW j \in lo..a PROVE ts[j] \in Along(pv, ts[a])
  <2>1. a - j \in Nat /\ a - (a - j) = j /\ lo <= j
    BY <1>1
  <2>2. a - j \in B
    BY <1>8, <2>1
  <2> QED
    BY <2>1, <2>2 DEF B
<1> QED
  BY <1>2, <1>3, <1>9, <1>10

-----------------------------------------------------------------------------
(***************************************************************************)
(* The invariant of the collection.                                        *)
(***************************************************************************)
Laid(ts, lo, hi, a, b) ==
  /\ IsChain(alive, next, prev, ts, lo, hi)
  /\ HasEnds(lo, hi, a, b, firstStart, lastEnd)
  /\ first = ts[a] /\ last = ts[b]
  /\ Filled(cells, ts, a, b, firstStart, lastEnd)
  /\ delEmpty => a = lo /\ b = hi

IsLaid == \E ts, lo, hi, a, b : Laid(ts, lo, hi, a, b)

BcTypes ==
  /\ exists \in BOOLEAN
  /\ alive \in SUBSET Tables
  /\ next \in Links /\ prev \in Links /\ NoLoop(next)
  /\ cells \in CellArrays

\* The elements fill the places from the first end to the last, in a row of
\* tables that is all there is.
BcInv ==
  /\ BcTypes
  /\ exists => IsLaid
  /\ ~exists => alive = {}

LEMMA InitBc == BcInit => BcInv
<1> SUFFICES ASSUME BcInit PROVE BcInv
  OBVIOUS
<1>1. next = [t \in Tables |-> Null] /\ prev = [t \in Tables |-> Null]
      /\ cells = [t \in Tables |-> [i \in Indices |-> None]] /\ alive = {} /\ exists = FALSE
  BY DEF BcInit
<1>2. next \in Links /\ prev \in Links
  BY <1>1 DEF Links
<1>3. NoLoop(next)
  <2> SUFFICES ASSUME NEW S \in SUBSET Tables, S # {} PROVE \E t \in S : next[t] \notin S
    BY DEF NoLoop
  <2>1. PICK t \in S : TRUE
    OBVIOUS
  <2>2. next[t] = Null /\ Null \notin S
    BY <1>1
  <2> QED
    BY <2>2
<1>4. cells \in CellArrays
  BY <1>1 DEF CellArrays
<1> QED
  BY <1>1, <1>2, <1>3, <1>4 DEF BcInv, BcTypes

LEMMA LeastOf ==
  ASSUME NEW S \in SUBSET Nat, S # {}
  PROVE  \E n \in S : \A m \in S : n <= m
<1> SUFFICES ASSUME \A n \in S : \E m \in S : ~(n <= m) PROVE FALSE
  OBVIOUS
<1> DEFINE P == {n \in Nat : \A k \in 0..n : k \notin S}
<1>1. \A n \in S : \E m \in S : m < n /\ n \in Nat /\ m \in Nat
  OBVIOUS
<1>2. 0 \in P
  <2>1. 0 \notin S
    BY <1>1
  <2> QED
    BY <2>1
<1>3. ASSUME NEW n \in P PROVE n + 1 \in P
  <2>1. n + 1 \notin S
    <3> SUFFICES ASSUME n + 1 \in S PROVE FALSE
      OBVIOUS
    <3>1. PICK m \in S : m < n + 1 /\ m \in Nat
      BY <1>1
    <3>2. m \in 0..n
      BY <3>1
    <3> QED
      BY <3>2
  <2>2. \A k \in 0..(n + 1) : k \in 0..n \/ k = n + 1
    OBVIOUS
  <2> QED
    BY <2>1, <2>2
<1>4. \A n \in Nat : n \in P
  <2> HIDE DEF P
  <2>1. P \in SUBSET Nat
    BY DEF P
  <2> QED
    BY <1>2, <1>3, <2>1, InductiveSet
<1>5. PICK n \in S : TRUE
  OBVIOUS
<1>6. n \in P /\ n \in 0..n
  BY <1>4
<1> QED
  BY <1>6

\* malloc returns a table that is not in use.
LEMMA NewTableIsFree ==
  ASSUME alive \in SUBSET Tables, HasMemory
  PROVE  NewTable \in Tables \ alive
<1>1. Tables \ alive \in SUBSET Nat /\ Tables \ alive # {}
  BY DEF HasMemory
<1>2. \E t \in Tables \ alive : \A u \in Tables \ alive : t <= u
  BY <1>1, LeastOf
<1> QED
  BY <1>2 DEF NewTable

LEMMA LaidContents ==
  ASSUME BcTypes, NEW ts, NEW lo, NEW hi, NEW a, NEW b, Laid(ts, lo, hi, a, b)
  PROVE  Contents = ContentsOf(next, cells, <<ts[a], firstStart>>, <<ts[b], lastEnd>>) /\ Contents \in Seq(Cell)
<1>1. Contents = ContentsOf(next, cells, <<ts[a], firstStart>>, <<ts[b], lastEnd>>)
  BY ContentsAre DEF Laid
<1>2. Between(Span(ts, a, b, firstStart, lastEnd), next, cells, <<ts[a], firstStart>>, <<ts[b], lastEnd>>)
  BY FilledBetween DEF Laid
<1>3. next \in Links /\ NoLoop(next) /\ cells \in CellArrays
  BY DEF BcTypes
<1>4. ContentsOf(next, cells, <<ts[a], firstStart>>, <<ts[b], lastEnd>>) \in Seq(Cell)
  BY <1>2, <1>3, ContentsAreCells
<1> QED
  BY <1>1, <1>4

\* The ends meet just when there is nothing between them.
LEMMA LaidEmpty ==
  ASSUME NEW ts, NEW lo, NEW hi, NEW a, NEW b, Laid(ts, lo, hi, a, b)
  PROVE  Empty <=> a = b /\ firstStart = lastEnd
<1>1. \A j, k \in lo..hi : ts[j] = ts[k] => j = k
  BY DEF Laid, IsChain
<1> QED
  BY <1>1 DEF Empty, Laid, HasEnds

LEMMA StepNew ==
  ASSUME BcInv, NEW del \in BOOLEAN, NewCollection(del)
  PROVE  BcInv' /\ exists' /\ Contents' = <<>>
<1>1. ~exists /\ alive = {} /\ HasMemory /\ BcTypes
  BY DEF BcInv, NewCollection, HasMemory
<1>2. PICK new \in Tables : new = NewTable
  BY <1>1, NewTableIsFree DEF BcTypes
<1>3. /\ exists' = TRUE /\ alive' = {new} /\ next' = [next EXCEPT ![new] = Null] /\ prev' = [prev EXCEPT ![new] = Null]
      /\ first' = new /\ firstStart' = 0 /\ last' = new /\ lastEnd' = 0 /\ cells' = cells
  BY <1>2 DEF NewCollection
<1>4. BcTypes'
  <2>1. next' \in Links /\ NoLoop(next')
    BY <1>1, <1>3, CutNoLoop DEF BcTypes
  <2>2. prev' \in Links
    BY <1>1, <1>3 DEF BcTypes, Links
  <2> QED
    BY <1>1, <1>2, <1>3, <2>1, <2>2 DEF BcTypes
<1> DEFINE ts == [j \in Int |-> new]
<1>5. IsChain(alive', next', prev', ts, 0, 0)
  BY <1>1, <1>2, <1>3, FirstTable DEF BcTypes
<1>6. ts[0] = new
  OBVIOUS
<1> HIDE DEF ts
<1>7. HasEnds(0, 0, 0, 0, firstStart', lastEnd')
  BY <1>3, IndicesGoOn DEF HasEnds
<1>8. Filled(cells', ts, 0, 0, firstStart', lastEnd')
  <2>1. ASSUME NEW p \in Span(ts, 0, 0, 0, 0) PROVE p = <<ts[0], 0>>
    <3>1. PICK j \in 0..0 : p[1] = ts[j] /\ (j = 0 => 0 <= p[2] /\ p[2] <= 0)
      BY DEF Span
    <3>2. p \in Tables \X Indices
      BY DEF Span
    <3>3. p = <<p[1], p[2]>> /\ p[2] \in Nat
      <4>1. p = <<p[1], p[2]>> /\ p[2] \in Indices
        BY <3>2
      <4> QED
        BY <4>1, IndicesGoOn
    <3>4. j = 0
      BY <3>1
    <3> QED
      BY <3>1, <3>3, <3>4
  <2> QED
    BY <1>3, <2>1 DEF Filled
<1>9. Laid(ts, 0, 0, 0, 0)'
  BY <1>3, <1>5, <1>6, <1>7, <1>8 DEF Laid
<1>10. BcInv'
  BY <1>3, <1>4, <1>9 DEF BcInv, IsLaid
<1>11. Contents' = <<>>
  <2>1. Contents' = ContentsOf(next', cells', <<new, 0>>, <<new, 0>>)
    BY <1>3, ContentsAre
  <2>2. next' \in Links /\ NoLoop(next') /\ cells' \in CellArrays /\ <<new, 0>> \in Places
    BY <1>2, <1>4, IndicesGoOn DEF BcTypes, Places
  <2> QED
    BY <2>1, <2>2, ContentsEmpty
<1> QED
  BY <1>3, <1>10, <1>11

\* What is deleted is all there is.
LEMMA ChainIsAll ==
  ASSUME BcTypes, NEW ts, NEW lo, NEW hi, NEW a, NEW b, Laid(ts, lo, hi, a, b)
  PROVE  Chain = alive /\ last \in Along(next, first)
<1>1. /\ IsChain(alive, next, prev, ts, lo, hi) /\ a \in lo..hi /\ b \in lo..hi /\ a <= b
      /\ first = ts[a] /\ last = ts[b] /\ a \in Int /\ b \in Int /\ lo \in Int /\ hi \in Int
  <2>1. IsChain(alive, next, prev, ts, lo, hi) /\ a \in lo..hi /\ b \in lo..hi /\ a <= b /\ first = ts[a] /\ last = ts[b]
    BY DEF Laid, HasEnds
  <2>2. lo \in Int /\ hi \in Int
    BY <2>1 DEF IsChain
  <2> QED
    BY <2>1, <2>2
<1>2. /\ \A j \in a..hi : ts[j] \in Along(next, first)
      /\ \A j \in lo..a : ts[j] \in Along(prev, first)
      /\ Along(next, first) \subseteq alive /\ Along(prev, first) \subseteq alive
  <2>1. alive \in SUBSET Tables /\ next \in Links /\ prev \in Links
    BY DEF BcTypes
  <2>2. /\ \A j \in a..hi : ts[j] \in Along(next, ts[a])
        /\ \A j \in lo..a : ts[j] \in Along(prev, ts[a])
        /\ Along(next, ts[a]) \subseteq alive /\ Along(prev, ts[a]) \subseteq alive
    BY <1>1, <2>1, AlongChain
  <2> QED
    BY <1>1, <2>2
<1>3. ASSUME NEW t \in alive PROVE t \in Chain
  <2>1. PICK j \in lo..hi : ts[j] = t
    BY <1>1 DEF IsChain
  <2>2. CASE a <= j
    <3>1. j \in a..hi
      BY <1>1, <2>1, <2>2
    <3> QED
      BY <1>2, <2>1, <3>1 DEF Chain
  <2>3. CASE j < a
    <3>1. j \in lo..a /\ ts[j] # first
      BY <1>1, <2>1, <2>3 DEF IsChain
    <3> QED
      BY <1>2, <2>1, <3>1 DEF Chain
  <2> QED
    BY <1>1, <2>2, <2>3
<1>4. b \in a..hi
  BY <1>1
<1> QED
  BY <1>1, <1>2, <1>3, <1>4 DEF Chain

LEMMA StepDelete ==
  ASSUME BcInv, DeleteCollection
  PROVE  BcInv' /\ ~exists'
<1>1. alive \subseteq Chain
  <2>1. exists /\ BcTypes
    BY DEF DeleteCollection, BcInv
  <2>2. PICK ts, lo, hi, a, b : Laid(ts, lo, hi, a, b)
    BY <2>1 DEF BcInv, IsLaid
  <2> QED
    BY <2>1, <2>2, ChainIsAll
<1>2. next' = [t \in Tables |-> Null] /\ prev' = [t \in Tables |-> Null]
      /\ cells' = [t \in Tables |-> [i \in Indices |-> None]] /\ alive' = {} /\ exists' = FALSE
  BY <1>1 DEF DeleteCollection, DeletedTables
<1>3. next' \in Links /\ prev' \in Links
  BY <1>2 DEF Links
<1>4. NoLoop(next')
  <2> SUFFICES ASSUME NEW S \in SUBSET Tables, S # {} PROVE \E t \in S : next'[t] \notin S
    BY DEF NoLoop
  <2>1. PICK t \in S : TRUE
    OBVIOUS
  <2>2. next'[t] = Null /\ Null \notin S
    BY <1>2
  <2> QED
    BY <2>2
<1>5. cells' \in CellArrays
  BY <1>2 DEF CellArrays
<1> QED
  BY <1>2, <1>3, <1>4, <1>5 DEF BcInv, BcTypes

-----------------------------------------------------------------------------
(***************************************************************************)
(* Pushes and pops.                                                        *)
(***************************************************************************)
\* One cell is written.
Wrote(cl, cl2, t, i, c) == cl2 = [cl EXCEPT ![t][i] = c]

LEMMA OneWrite ==
  ASSUME NEW cl \in CellArrays, NEW t \in Tables, NEW i \in Indices, NEW c \in Cell \cup {None},
         NEW R \in SUBSET (Tables \X Indices), <<t, i>> \notin R, NEW cl2, Wrote(cl, cl2, t, i, c)
  PROVE  cl2 \in CellArrays /\ cl2[t][i] = c /\ SameCells(cl, cl2, R) /\ SameCells(cl2, cl, R)
<1>0. cl2 = [cl EXCEPT ![t][i] = c]
  BY DEF Wrote
<1>1. cl2 \in CellArrays /\ cl2[t][i] = c
  BY <1>0 DEF CellArrays
<1>2. \A u \in Tables, k \in Indices : u # t \/ k # i => cl2[u][k] = cl[u][k]
  BY <1>0 DEF CellArrays
<1>3. ASSUME NEW p \in R PROVE cl2[p[1]][p[2]] = cl[p[1]][p[2]]
  <2>1. p = <<p[1], p[2]>> /\ p[1] \in Tables /\ p[2] \in Indices /\ p # <<t, i>>
    OBVIOUS
  <2> QED
    BY <1>2, <2>1
<1>4. SameCells(cl, cl2, R) /\ SameCells(cl2, cl, R)
  BY <1>3 DEF SameCells
<1> QED
  BY <1>1, <1>4

\* The row can have another name beyond its ends.
LEMMA SameRow ==
  ASSUME NEW al, NEW nx, NEW pv, NEW ts, NEW lo, NEW hi, IsChain(al, nx, pv, ts, lo, hi),
         NEW us \in [Int -> Tables], \A j \in lo..hi : us[j] = ts[j]
  PROVE  /\ IsChain(al, nx, pv, us, lo, hi)
         /\ \A a, b \in lo..hi : \A s, e : Span(us, a, b, s, e) = Span(ts, a, b, s, e)
<1>0. lo \in Int /\ hi \in Int
  BY DEF IsChain
<1>1. IsChain(al, nx, pv, us, lo, hi)
  <2>1. \A j \in lo..hi : (j # hi => j + 1 \in lo..hi) /\ (j # lo => j - 1 \in lo..hi)
    BY <1>0
  <2>2. \A j \in lo..hi : us[j] \in al /\ nx[us[j]] = (IF j = hi THEN Null ELSE us[j + 1])
                          /\ pv[us[j]] = (IF j = lo THEN Null ELSE us[j - 1])
    BY <2>1 DEF IsChain
  <2>3. \A j, k \in lo..hi : us[j] = us[k] => j = k
    BY DEF IsChain
  <2>4. \A t \in al : \E j \in lo..hi : us[j] = t
    BY DEF IsChain
  <2>5. lo <= hi
    BY DEF IsChain
  <2> QED
    BY <1>0, <2>2, <2>3, <2>4, <2>5 DEF IsChain
<1>2. ASSUME NEW a \in lo..hi, NEW b \in lo..hi, NEW s, NEW e PROVE Span(us, a, b, s, e) = Span(ts, a, b, s, e)
  <2>1. \A j \in a..b : us[j] = ts[j]
    BY <1>0
  <2> QED
    BY <2>1 DEF Span
<1> QED
  BY <1>1, <1>2

\* A push to the back, of a row that has room for the new end.
PushesBack(v, ts, lo, hi, a, b, hi2, b2) ==
  /\ BcTypes /\ Laid(ts, lo, hi, a, b)
  /\ IsChain(alive', next', prev', ts, lo, hi2) /\ hi <= hi2 /\ (delEmpty => b2 = hi2)
  /\ HasEnds(lo, hi2, a, b2, firstStart, lastEnd') /\ StepsOn(b, lastEnd, b2, lastEnd')
  /\ alive' \in SUBSET Tables /\ next' \in Links /\ prev' \in Links /\ NoLoop(next')
  /\ Wrote(cells, cells', ts[b], lastEnd, v)
  /\ last' = ts[b2] /\ first' = first /\ firstStart' = firstStart
  /\ exists' = TRUE /\ delEmpty' = delEmpty

LEMMA PushedBack ==
  ASSUME NEW v \in Cell, NEW ts, NEW lo, NEW hi, NEW a, NEW b, NEW hi2, NEW b2,
         PushesBack(v, ts, lo, hi, a, b, hi2, b2)
  PROVE  BcInv' /\ AtBack(Contents', Contents, v)
<1>0. /\ BcTypes /\ Laid(ts, lo, hi, a, b)
      /\ IsChain(alive', next', prev', ts, lo, hi2) /\ hi <= hi2 /\ (delEmpty => b2 = hi2)
      /\ HasEnds(lo, hi2, a, b2, firstStart, lastEnd') /\ StepsOn(b, lastEnd, b2, lastEnd')
      /\ alive' \in SUBSET Tables /\ next' \in Links /\ prev' \in Links /\ NoLoop(next')
      /\ Wrote(cells, cells', ts[b], lastEnd, v)
      /\ last' = ts[b2] /\ first' = first /\ firstStart' = firstStart
      /\ exists' = TRUE /\ delEmpty' = delEmpty
  BY DEF PushesBack
<1>1. /\ IsChain(alive, next, prev, ts, lo, hi) /\ HasEnds(lo, hi, a, b, firstStart, lastEnd)
      /\ first = ts[a] /\ last = ts[b] /\ Filled(cells, ts, a, b, firstStart, lastEnd) /\ (delEmpty => a = lo)
  BY <1>0 DEF Laid
<1>2. HasEnds(lo, hi2, a, b, firstStart, lastEnd)
  <2>1. hi \in Int /\ hi2 \in Int /\ lo \in Int
    BY <1>0, <1>1 DEF IsChain
  <2> QED
    BY <1>0, <1>1, <2>1 DEF HasEnds
<1>3. next \in Links /\ NoLoop(next) /\ cells \in CellArrays
  BY <1>0 DEF BcTypes
<1>4. /\ cells' \in CellArrays /\ cells'[ts[b]][lastEnd] = v
      /\ SameCells(cells, cells', Span(ts, a, b, firstStart, lastEnd) \ {<<ts[b], lastEnd>>})
  <2> DEFINE R == Span(ts, a, b, firstStart, lastEnd) \ {<<ts[b], lastEnd>>}
  <2>1. R \in SUBSET (Tables \X Indices) /\ <<ts[b], lastEnd>> \notin R
    BY DEF Span
  <2>2. ts[b] \in Tables /\ lastEnd \in Indices
    BY <1>1 DEF IsChain, HasEnds
  <2> HIDE DEF R
  <2>3. v \in Cell \cup {None} /\ Wrote(cells, cells', ts[b], lastEnd, v)
    BY <1>0
  <2>4. cells' \in CellArrays /\ cells'[ts[b]][lastEnd] = v /\ SameCells(cells, cells', R) /\ SameCells(cells', cells, R)
    BY <1>3, <2>1, <2>2, <2>3, OneWrite
  <2> QED
    BY <2>4 DEF R
<1>5. /\ Filled(cells', ts, a, b2, firstStart, lastEnd')
      /\ AtBack(ContentsOf(next', cells', <<ts[a], firstStart>>, <<ts[b2], lastEnd'>>),
                ContentsOf(next, cells, <<ts[a], firstStart>>, <<ts[b], lastEnd>>), cells'[ts[b]][lastEnd])
  <2>1. cells'[ts[b]][lastEnd] \in Cell
    BY <1>4
  <2>2. MovesBack(alive, next, prev, cells, lo, hi, alive', next', prev', cells', lo, hi2, ts, a, b, firstStart, lastEnd, b2, lastEnd')
    BY <1>0, <1>1, <1>2, <1>3, <1>4, <2>1 DEF MovesBack
  <2> QED
    BY <2>2, LongerBack
<1>6. Contents = ContentsOf(next, cells, <<ts[a], firstStart>>, <<ts[b], lastEnd>>)
  BY <1>0, <1>1, ContentsAre
<1>7. Contents' = ContentsOf(next', cells', <<ts[a], firstStart>>, <<ts[b2], lastEnd'>>)
  BY <1>0, <1>1, ContentsAre
<1>8. Laid(ts, lo, hi2, a, b2)'
  BY <1>0, <1>1, <1>5 DEF Laid
<1>9. BcInv'
  BY <1>0, <1>4, <1>8 DEF BcInv, BcTypes, IsLaid
<1> QED
  BY <1>4, <1>5, <1>6, <1>7, <1>9

\* A push to the front.
PushesFront(v, ts, lo, hi, a, b, lo2, a2) ==
  /\ BcTypes /\ Laid(ts, lo, hi, a, b)
  /\ IsChain(alive', next', prev', ts, lo2, hi) /\ lo2 <= lo /\ (delEmpty => a2 = lo2)
  /\ HasEnds(lo2, hi, a2, b, firstStart', lastEnd) /\ StepsOn(a2, firstStart', a, firstStart)
  /\ alive' \in SUBSET Tables /\ next' \in Links /\ prev' \in Links /\ NoLoop(next')
  /\ Wrote(cells, cells', ts[a2], firstStart', v)
  /\ first' = ts[a2] /\ last' = last /\ lastEnd' = lastEnd
  /\ exists' = TRUE /\ delEmpty' = delEmpty

LEMMA PushedFront ==
  ASSUME NEW v \in Cell, NEW ts, NEW lo, NEW hi, NEW a, NEW b, NEW lo2, NEW a2,
         PushesFront(v, ts, lo, hi, a, b, lo2, a2)
  PROVE  BcInv' /\ AtFront(Contents', v, Contents)
<1>0. /\ BcTypes /\ Laid(ts, lo, hi, a, b)
      /\ IsChain(alive', next', prev', ts, lo2, hi) /\ lo2 <= lo /\ (delEmpty => a2 = lo2)
      /\ HasEnds(lo2, hi, a2, b, firstStart', lastEnd) /\ StepsOn(a2, firstStart', a, firstStart)
      /\ alive' \in SUBSET Tables /\ next' \in Links /\ prev' \in Links /\ NoLoop(next')
      /\ Wrote(cells, cells', ts[a2], firstStart', v)
      /\ first' = ts[a2] /\ last' = last /\ lastEnd' = lastEnd
      /\ exists' = TRUE /\ delEmpty' = delEmpty
  BY DEF PushesFront
<1>1. /\ IsChain(alive, next, prev, ts, lo, hi) /\ HasEnds(lo, hi, a, b, firstStart, lastEnd)
      /\ first = ts[a] /\ last = ts[b] /\ Filled(cells, ts, a, b, firstStart, lastEnd) /\ (delEmpty => b = hi)
  BY <1>0 DEF Laid
<1>2. HasEnds(lo2, hi, a, b, firstStart, lastEnd)
  <2>1. hi \in Int /\ lo2 \in Int /\ lo \in Int
    BY <1>0, <1>1 DEF IsChain
  <2> QED
    BY <1>0, <1>1, <2>1 DEF HasEnds
<1>3. next \in Links /\ NoLoop(next) /\ cells \in CellArrays
  BY <1>0 DEF BcTypes
<1>4. /\ cells' \in CellArrays /\ cells'[ts[a2]][firstStart'] = v
      /\ SameCells(cells, cells', Span(ts, a, b, firstStart, lastEnd) \ {<<ts[b], lastEnd>>})
  <2> DEFINE R == Span(ts, a, b, firstStart, lastEnd) \ {<<ts[b], lastEnd>>}
  <2>1. <<ts[a2], firstStart'>> \notin Span(ts, a, b, firstStart, lastEnd)
        /\ Span(ts, a2, b, firstStart', lastEnd) = Span(ts, a, b, firstStart, lastEnd) \cup {<<ts[a2], firstStart'>>}
        /\ Onward(next', <<ts[a2], firstStart'>>) = <<ts[a], firstStart>>
    BY <1>0, <1>2, SpanFront
  <2>2. R \in SUBSET (Tables \X Indices) /\ <<ts[a2], firstStart'>> \notin R
    BY <2>1 DEF Span
  <2>3. ts[a2] \in Tables /\ firstStart' \in Indices
    BY <1>0 DEF IsChain, HasEnds
  <2> HIDE DEF R
  <2>4. v \in Cell \cup {None} /\ Wrote(cells, cells', ts[a2], firstStart', v)
    BY <1>0
  <2>5. cells' \in CellArrays /\ cells'[ts[a2]][firstStart'] = v /\ SameCells(cells, cells', R) /\ SameCells(cells', cells, R)
    BY <1>3, <2>2, <2>3, <2>4, OneWrite
  <2> QED
    BY <2>5 DEF R
<1>5. /\ Filled(cells', ts, a2, b, firstStart', lastEnd)
      /\ AtFront(ContentsOf(next', cells', <<ts[a2], firstStart'>>, <<ts[b], lastEnd>>), cells'[ts[a2]][firstStart'],
                 ContentsOf(next, cells, <<ts[a], firstStart>>, <<ts[b], lastEnd>>))
  <2>1. cells'[ts[a2]][firstStart'] \in Cell
    BY <1>4
  <2>2. MovesFront(alive, next, prev, cells, lo, hi, alive', next', prev', cells', lo2, hi, ts, a, b, firstStart, lastEnd, a2, firstStart')
    BY <1>0, <1>1, <1>2, <1>3, <1>4, <2>1 DEF MovesFront
  <2> QED
    BY <2>2, LongerFront
<1>6. Contents = ContentsOf(next, cells, <<ts[a], firstStart>>, <<ts[b], lastEnd>>)
  BY <1>0, <1>1, ContentsAre
<1>7. Contents' = ContentsOf(next', cells', <<ts[a2], firstStart'>>, <<ts[b], lastEnd>>)
  BY <1>0, <1>1, ContentsAre
<1>8. Laid(ts, lo2, hi, a2, b)'
  BY <1>0, <1>1, <1>5 DEF Laid
<1>9. BcInv'
  BY <1>0, <1>4, <1>8 DEF BcInv, BcTypes, IsLaid
<1> QED
  BY <1>4, <1>5, <1>6, <1>7, <1>9

\* A pop from the back, of a row that keeps the table of the new end.
PopsBack(ts, lo, hi, a, b, hi2, b2) ==
  /\ BcTypes /\ Laid(ts, lo, hi, a, b)
  /\ IsChain(alive', next', prev', ts, lo, hi2) /\ hi2 <= hi /\ (delEmpty => b2 = hi2)
  /\ HasEnds(lo, hi2, a, b2, firstStart, lastEnd') /\ StepsOn(b2, lastEnd', b, lastEnd)
  /\ alive' \in SUBSET Tables /\ next' \in Links /\ prev' \in Links /\ NoLoop(next')
  /\ Wrote(cells, cells', ts[b2], lastEnd', None)
  /\ last' = ts[b2] /\ first' = first /\ firstStart' = firstStart
  /\ exists' = TRUE /\ delEmpty' = delEmpty

LEMMA PoppedBack ==
  ASSUME NEW ts, NEW lo, NEW hi, NEW a, NEW b, NEW hi2, NEW b2,
         PopsBack(ts, lo, hi, a, b, hi2, b2)
  PROVE  BcInv' /\ AtBack(Contents, Contents', cells[ts[b2]][lastEnd']) /\ cells[ts[b2]][lastEnd'] \in Cell
<1>0. /\ BcTypes /\ Laid(ts, lo, hi, a, b)
      /\ IsChain(alive', next', prev', ts, lo, hi2) /\ hi2 <= hi /\ (delEmpty => b2 = hi2)
      /\ HasEnds(lo, hi2, a, b2, firstStart, lastEnd') /\ StepsOn(b2, lastEnd', b, lastEnd)
      /\ alive' \in SUBSET Tables /\ next' \in Links /\ prev' \in Links /\ NoLoop(next')
      /\ Wrote(cells, cells', ts[b2], lastEnd', None)
      /\ last' = ts[b2] /\ first' = first /\ firstStart' = firstStart
      /\ exists' = TRUE /\ delEmpty' = delEmpty
  BY DEF PopsBack
<1>1. /\ IsChain(alive, next, prev, ts, lo, hi) /\ HasEnds(lo, hi, a, b, firstStart, lastEnd)
      /\ first = ts[a] /\ last = ts[b] /\ Filled(cells, ts, a, b, firstStart, lastEnd) /\ (delEmpty => a = lo)
  BY <1>0 DEF Laid
<1>2. HasEnds(lo, hi, a, b2, firstStart, lastEnd')
  <2>1. hi \in Int /\ hi2 \in Int /\ lo \in Int
    BY <1>0, <1>1 DEF IsChain
  <2> QED
    BY <1>0, <1>1, <2>1 DEF HasEnds
<1>3. next \in Links /\ NoLoop(next) /\ cells \in CellArrays
  BY <1>0 DEF BcTypes
<1>4. Filled(cells, ts, a, b2, firstStart, lastEnd') /\ cells[ts[b2]][lastEnd'] \in Cell
  BY <1>0, <1>1, <1>2, ShorterBack
<1>5. /\ cells' \in CellArrays
      /\ SameCells(cells', cells, Span(ts, a, b2, firstStart, lastEnd') \ {<<ts[b2], lastEnd'>>})
      /\ SameCells(cells, cells', Span(ts, a, b2, firstStart, lastEnd') \ {<<ts[b2], lastEnd'>>})
  <2> DEFINE R == Span(ts, a, b2, firstStart, lastEnd') \ {<<ts[b2], lastEnd'>>}
  <2>1. R \in SUBSET (Tables \X Indices) /\ <<ts[b2], lastEnd'>> \notin R
    BY DEF Span
  <2>2. ts[b2] \in Tables /\ lastEnd' \in Indices
    BY <1>0 DEF IsChain, HasEnds
  <2> HIDE DEF R
  <2>3. cells' \in CellArrays /\ SameCells(cells, cells', R) /\ SameCells(cells', cells, R)
    BY <1>0, <1>3, <2>1, <2>2, OneWrite
  <2> QED
    BY <2>3 DEF R
<1>6. Filled(cells', ts, a, b2, firstStart, lastEnd')
  BY <1>4, <1>5 DEF Filled, SameCells
<1>7. AtBack(ContentsOf(next, cells, <<ts[a], firstStart>>, <<ts[b], lastEnd>>),
             ContentsOf(next', cells', <<ts[a], firstStart>>, <<ts[b2], lastEnd'>>), cells[ts[b2]][lastEnd'])
  <2>1. MovesBack(alive', next', prev', cells', lo, hi2, alive, next, prev, cells, lo, hi, ts, a, b2, firstStart, lastEnd', b, lastEnd)
    BY <1>0, <1>1, <1>2, <1>3, <1>4, <1>5, <1>6 DEF MovesBack
  <2> QED
    BY <2>1, LongerBack
<1>8. Contents = ContentsOf(next, cells, <<ts[a], firstStart>>, <<ts[b], lastEnd>>)
  BY <1>0, <1>1, ContentsAre
<1>9. Contents' = ContentsOf(next', cells', <<ts[a], firstStart>>, <<ts[b2], lastEnd'>>)
  BY <1>0, <1>1, ContentsAre
<1>10. Laid(ts, lo, hi2, a, b2)'
  BY <1>0, <1>1, <1>6 DEF Laid
<1>11. BcInv'
  BY <1>0, <1>5, <1>10 DEF BcInv, BcTypes, IsLaid
<1> QED
  BY <1>4, <1>7, <1>8, <1>9, <1>11

\* A pop from the front.
PopsFront(ts, lo, hi, a, b, lo2, a2) ==
  /\ BcTypes /\ Laid(ts, lo, hi, a, b)
  /\ IsChain(alive', next', prev', ts, lo2, hi) /\ lo <= lo2 /\ (delEmpty => a2 = lo2)
  /\ HasEnds(lo2, hi, a2, b, firstStart', lastEnd) /\ StepsOn(a, firstStart, a2, firstStart')
  /\ alive' \in SUBSET Tables /\ next' \in Links /\ prev' \in Links /\ NoLoop(next')
  /\ Wrote(cells, cells', ts[a], firstStart, None)
  /\ first' = ts[a2] /\ last' = last /\ lastEnd' = lastEnd
  /\ exists' = TRUE /\ delEmpty' = delEmpty

LEMMA PoppedFront ==
  ASSUME NEW ts, NEW lo, NEW hi, NEW a, NEW b, NEW lo2, NEW a2,
         PopsFront(ts, lo, hi, a, b, lo2, a2)
  PROVE  BcInv' /\ AtFront(Contents, cells[ts[a]][firstStart], Contents') /\ cells[ts[a]][firstStart] \in Cell
<1>0. /\ BcTypes /\ Laid(ts, lo, hi, a, b)
      /\ IsChain(alive', next', prev', ts, lo2, hi) /\ lo <= lo2 /\ (delEmpty => a2 = lo2)
      /\ HasEnds(lo2, hi, a2, b, firstStart', lastEnd) /\ StepsOn(a, firstStart, a2, firstStart')
      /\ alive' \in SUBSET Tables /\ next' \in Links /\ prev' \in Links /\ NoLoop(next')
      /\ Wrote(cells, cells', ts[a], firstStart, None)
      /\ first' = ts[a2] /\ last' = last /\ lastEnd' = lastEnd
      /\ exists' = TRUE /\ delEmpty' = delEmpty
  BY DEF PopsFront
<1>1. /\ IsChain(alive, next, prev, ts, lo, hi) /\ HasEnds(lo, hi, a, b, firstStart, lastEnd)
      /\ first = ts[a] /\ last = ts[b] /\ Filled(cells, ts, a, b, firstStart, lastEnd) /\ (delEmpty => b = hi)
  BY <1>0 DEF Laid
<1>2. HasEnds(lo, hi, a2, b, firstStart', lastEnd)
  <2>1. hi \in Int /\ lo2 \in Int /\ lo \in Int
    BY <1>0, <1>1 DEF IsChain
  <2> QED
    BY <1>0, <1>1, <2>1 DEF HasEnds
<1>3. next \in Links /\ NoLoop(next) /\ cells \in CellArrays
  BY <1>0 DEF BcTypes
<1>4. Filled(cells, ts, a2, b, firstStart', lastEnd) /\ cells[ts[a]][firstStart] \in Cell
  BY <1>0, <1>1, <1>2, ShorterFront
<1>5. /\ cells' \in CellArrays
      /\ SameCells(cells', cells, Span(ts, a2, b, firstStart', lastEnd) \ {<<ts[b], lastEnd>>})
      /\ SameCells(cells, cells', Span(ts, a2, b, firstStart', lastEnd) \ {<<ts[b], lastEnd>>})
  <2> DEFINE R == Span(ts, a2, b, firstStart', lastEnd) \ {<<ts[b], lastEnd>>}
  <2>1. <<ts[a], firstStart>> \notin Span(ts, a2, b, firstStart', lastEnd)
        /\ Span(ts, a, b, firstStart, lastEnd) = Span(ts, a2, b, firstStart', lastEnd) \cup {<<ts[a], firstStart>>}
        /\ Onward(next, <<ts[a], firstStart>>) = <<ts[a2], firstStart'>>
    BY <1>0, <1>1, <1>2, SpanFront
  <2>2. R \in SUBSET (Tables \X Indices) /\ <<ts[a], firstStart>> \notin R
    BY <2>1 DEF Span
  <2>3. ts[a] \in Tables /\ firstStart \in Indices
    BY <1>1 DEF IsChain, HasEnds
  <2> HIDE DEF R
  <2>4. cells' \in CellArrays /\ SameCells(cells, cells', R) /\ SameCells(cells', cells, R)
    BY <1>0, <1>3, <2>2, <2>3, OneWrite
  <2> QED
    BY <2>4 DEF R
<1>6. Filled(cells', ts, a2, b, firstStart', lastEnd)
  BY <1>4, <1>5 DEF Filled, SameCells
<1>7. AtFront(ContentsOf(next, cells, <<ts[a], firstStart>>, <<ts[b], lastEnd>>), cells[ts[a]][firstStart],
              ContentsOf(next', cells', <<ts[a2], firstStart'>>, <<ts[b], lastEnd>>))
  <2>1. MovesFront(alive', next', prev', cells', lo2, hi, alive, next, prev, cells, lo, hi, ts, a2, b, firstStart', lastEnd, a, firstStart)
    BY <1>0, <1>1, <1>2, <1>3, <1>4, <1>5, <1>6 DEF MovesFront
  <2> QED
    BY <2>1, LongerFront
<1>8. Contents = ContentsOf(next, cells, <<ts[a], firstStart>>, <<ts[b], lastEnd>>)
  BY <1>0, <1>1, ContentsAre
<1>9. Contents' = ContentsOf(next', cells', <<ts[a2], firstStart'>>, <<ts[b], lastEnd>>)
  BY <1>0, <1>1, ContentsAre
<1>10. Laid(ts, lo2, hi, a2, b)'
  BY <1>0, <1>1, <1>6 DEF Laid
<1>11. BcInv'
  BY <1>0, <1>5, <1>10 DEF BcInv, BcTypes, IsLaid
<1> QED
  BY <1>1, <1>4, <1>7, <1>8, <1>9, <1>11


LEMMA LaidAlso ==
  ASSUME NEW ts, NEW lo, NEW hi, NEW a, NEW b, Laid(ts, lo, hi, a, b),
         NEW us \in [Int -> Tables], \A j \in lo..hi : us[j] = ts[j]
  PROVE  Laid(us, lo, hi, a, b)
<1>1. IsChain(alive, next, prev, ts, lo, hi) /\ a \in lo..hi /\ b \in lo..hi
      /\ Filled(cells, ts, a, b, firstStart, lastEnd)
  BY DEF Laid, HasEnds
<1>2. /\ IsChain(alive, next, prev, us, lo, hi)
      /\ Span(us, a, b, firstStart, lastEnd) = Span(ts, a, b, firstStart, lastEnd)
  BY <1>1, SameRow
<1>3. us[a] = ts[a] /\ us[b] = ts[b]
  BY <1>1
<1>4. Filled(cells, us, a, b, firstStart, lastEnd)
  BY <1>1, <1>2, <1>3 DEF Filled
<1> QED
  BY <1>2, <1>3, <1>4 DEF Laid

\* The row of an existing collection.
LEMMA HasRow ==
  ASSUME BcInv, exists
  PROVE  /\ BcTypes
         /\ \E ts, lo, hi, a, b : Laid(ts, lo, hi, a, b)
BY DEF BcInv, IsLaid

LEMMA RowFacts ==
  ASSUME BcTypes, NEW ts, NEW lo, NEW hi, NEW a, NEW b, Laid(ts, lo, hi, a, b)
  PROVE  /\ lo \in Int /\ hi \in Int /\ a \in Int /\ b \in Int
         /\ lo <= a /\ a <= b /\ b <= hi /\ a \in lo..hi /\ b \in lo..hi
         /\ ts \in [Int -> Tables] /\ first = ts[a] /\ last = ts[b] /\ ts[a] \in alive /\ ts[b] \in alive
         /\ firstStart \in Indices /\ lastEnd \in Indices /\ firstStart \in Nat /\ lastEnd \in Nat
         /\ firstStart < TableSize /\ lastEnd < TableSize /\ (a = b => firstStart <= lastEnd)
         /\ next[last] = (IF b = hi THEN Null ELSE ts[b + 1]) /\ prev[first] = (IF a = lo THEN Null ELSE ts[a - 1])
         /\ prev[last] = (IF b = lo THEN Null ELSE ts[b - 1]) /\ next[first] = (IF a = hi THEN Null ELSE ts[a + 1])
         /\ (delEmpty => a = lo /\ b = hi)
         /\ IsChain(alive, next, prev, ts, lo, hi)
<1>1. /\ IsChain(alive, next, prev, ts, lo, hi) /\ a \in lo..hi /\ b \in lo..hi /\ a <= b
      /\ firstStart \in Indices /\ lastEnd \in Indices /\ (a = b => firstStart <= lastEnd)
      /\ first = ts[a] /\ last = ts[b] /\ (delEmpty => a = lo /\ b = hi)
  BY DEF Laid, HasEnds
<1>2. lo \in Int /\ hi \in Int /\ ts \in [Int -> Tables] /\ ts[a] \in alive /\ ts[b] \in alive
  BY <1>1 DEF IsChain
<1>3. /\ next[ts[b]] = (IF b = hi THEN Null ELSE ts[b + 1]) /\ prev[ts[a]] = (IF a = lo THEN Null ELSE ts[a - 1])
      /\ prev[ts[b]] = (IF b = lo THEN Null ELSE ts[b - 1]) /\ next[ts[a]] = (IF a = hi THEN Null ELSE ts[a + 1])
  BY <1>1 DEF IsChain
<1>4. firstStart \in Nat /\ lastEnd \in Nat /\ firstStart < TableSize /\ lastEnd < TableSize
  BY <1>1, IndicesGoOn DEF Indices
<1> QED
  BY <1>1, <1>2, <1>3, <1>4

LEMMA StepPushBack ==
  ASSUME BcInv, NEW v \in Cell, PushBack(v)
  PROVE  BcInv' /\ AtBack(Contents', Contents, v)
<1>1. exists
  BY DEF PushBack
<1>2. BcTypes
  BY <1>1, HasRow
<1>3. PICK ts, lo, hi, a, b : Laid(ts, lo, hi, a, b)
  BY <1>1, HasRow
<1>4. /\ lo \in Int /\ hi \in Int /\ a \in Int /\ b \in Int
      /\ lo <= a /\ a <= b /\ b <= hi /\ a \in lo..hi /\ b \in lo..hi
      /\ ts \in [Int -> Tables] /\ last = ts[b] /\ ts[b] \in alive
      /\ firstStart \in Indices /\ lastEnd \in Indices /\ firstStart \in Nat /\ lastEnd \in Nat
      /\ lastEnd < TableSize /\ (a = b => firstStart <= lastEnd)
      /\ next[last] = (IF b = hi THEN Null ELSE ts[b + 1])
      /\ (delEmpty => b = hi)
      /\ IsChain(alive, next, prev, ts, lo, hi)
  BY <1>2, <1>3, RowFacts
<1>5. alive \in SUBSET Tables /\ next \in Links /\ prev \in Links /\ NoLoop(next)
  BY <1>2 DEF BcTypes
<1>6. Wrote(cells, cells', ts[b], lastEnd, v) /\ first' = first /\ firstStart' = firstStart
      /\ exists' = TRUE /\ delEmpty' = delEmpty
  BY <1>1, <1>4 DEF PushBack, Wrote
<1>7. CASE lastEnd + 1 < TableSize
  <2>1. lastEnd' = lastEnd + 1 /\ alive' = alive /\ next' = next /\ prev' = prev /\ last' = last
    BY <1>7 DEF PushBack
  <2>2. HasEnds(lo, hi, a, b, firstStart, lastEnd')
    <3>1. lastEnd + 1 # TableSize
      BY <1>4, <1>7
    <3>2. lastEnd' \in Indices
      BY <1>4, <2>1, <3>1, IndicesGoOn
    <3>3. a = b => firstStart <= lastEnd'
      BY <1>4, <2>1
    <3> QED
      BY <1>4, <3>2, <3>3 DEF HasEnds
  <2>3. StepsOn(b, lastEnd, b, lastEnd')
    BY <2>1 DEF StepsOn
  <2>4. PushesBack(v, ts, lo, hi, a, b, hi, b)
    BY <1>2, <1>3, <1>4, <1>5, <1>6, <2>1, <2>2, <2>3 DEF PushesBack
  <2> QED
    BY <2>4, PushedBack
<1>8. CASE lastEnd + 1 = TableSize /\ next[last] # Null
  <2>1. lastEnd' = 0 /\ alive' = alive /\ next' = next /\ prev' = prev /\ last' = next[last]
    <3>1. ~(lastEnd + 1 < TableSize)
      BY <1>4, <1>8
    <3> QED
      BY <1>8, <3>1 DEF PushBack
  <2>2. b # hi /\ b + 1 \in lo..hi /\ last' = ts[b + 1] /\ ~delEmpty
    BY <1>4, <1>8, <2>1
  <2>3. HasEnds(lo, hi, a, b + 1, firstStart, lastEnd')
    BY <1>4, <2>1, <2>2, IndicesGoOn DEF HasEnds
  <2>4. StepsOn(b, lastEnd, b + 1, lastEnd')
    BY <1>8, <2>1 DEF StepsOn
  <2>5. PushesBack(v, ts, lo, hi, a, b, hi, b + 1)
    BY <1>2, <1>3, <1>4, <1>5, <1>6, <2>1, <2>2, <2>3, <2>4 DEF PushesBack
  <2> QED
    BY <2>5, PushedBack
<1>9. CASE lastEnd + 1 = TableSize /\ next[last] = Null
  <2>1. lastEnd' = 0 /\ HasMemory
    BY <1>4, <1>9 DEF PushBack
  <2>2. PICK new \in Tables \ alive : new = NewTable
    BY <1>5, <2>1, NewTableIsFree
  <2>3. b = hi
    <3>1. b # hi => b + 1 \in Int
      BY <1>4
    <3>2. b # hi => ts[b + 1] \in Tables
      BY <1>4, <3>1
    <3> QED
      BY <1>4, <1>9, <3>2
  <2>4. /\ alive' = alive \cup {new} /\ next' = [next EXCEPT ![ts[b]] = new, ![new] = Null]
        /\ prev' = [prev EXCEPT ![new] = ts[b]] /\ last' = new
    <3>1. ~(lastEnd + 1 < TableSize)
      BY <1>4, <1>9
    <3> QED
      BY <1>4, <1>9, <2>2, <3>1 DEF PushBack
  <2> DEFINE us == [ts EXCEPT ![hi + 1] = new]
  <2>5. /\ us \in [Int -> Tables] /\ us[hi + 1] = new /\ (\A j \in lo..hi : us[j] = ts[j]) /\ us[b] = ts[b]
    <3>1. hi + 1 \in Int /\ new \in Tables /\ \A j \in lo..hi : j \in Int /\ j # hi + 1
      BY <1>4
    <3> QED
      BY <1>4, <3>1
  <2>6. IsChain(alive', next', prev', us, lo, hi + 1)
    BY <1>4, <1>5, <2>2, <2>3, <2>4, GrowBack
  <2> HIDE DEF us
  <2>7. Laid(us, lo, hi, a, b)
    BY <1>3, <2>5, LaidAlso
  <2>8. next' \in Links /\ NoLoop(next') /\ prev' \in Links /\ alive' \in SUBSET Tables
    <3>1. ts[b] \in Tables /\ new \in Tables /\ ts[b] # new
      BY <1>4, <1>5, <2>2
    <3>2. next' \in Links /\ NoLoop(next')
      BY <1>5, <2>4, <3>1, BackNoLoop
    <3>3. prev' \in Links
      BY <1>5, <2>4, <3>1 DEF Links
    <3> QED
      BY <1>5, <2>4, <3>1, <3>2, <3>3
  <2>9. HasEnds(lo, hi + 1, a, b + 1, firstStart, lastEnd')
    BY <1>4, <2>1, <2>3, IndicesGoOn DEF HasEnds
  <2>10. StepsOn(b, lastEnd, b + 1, lastEnd')
    BY <1>9, <2>1 DEF StepsOn
  <2>11. hi <= hi + 1 /\ b + 1 = hi + 1 /\ last' = us[b + 1] /\ Wrote(cells, cells', us[b], lastEnd, v)
    BY <1>4, <1>6, <2>3, <2>4, <2>5
  <2>12. PushesBack(v, us, lo, hi, a, b, hi + 1, b + 1)
    BY <1>2, <1>6, <2>6, <2>7, <2>8, <2>9, <2>10, <2>11 DEF PushesBack
  <2> QED
    BY <2>12, PushedBack
<1>10. lastEnd + 1 < TableSize \/ lastEnd + 1 = TableSize
  <2>1. TableSize \in Nat
    BY BrokenCollectionAssumption
  <2> QED
    BY <1>4, <2>1
<1> QED
  BY <1>7, <1>8, <1>9, <1>10

LEMMA StepPushFront ==
  ASSUME BcInv, NEW v \in Cell, PushFront(v)
  PROVE  BcInv' /\ AtFront(Contents', v, Contents)
<1>1. exists
  BY DEF PushFront
<1>2. BcTypes
  BY <1>1, HasRow
<1>3. PICK ts, lo, hi, a, b : Laid(ts, lo, hi, a, b)
  BY <1>1, HasRow
<1>4. /\ lo \in Int /\ hi \in Int /\ a \in Int /\ b \in Int
      /\ lo <= a /\ a <= b /\ b <= hi /\ a \in lo..hi /\ b \in lo..hi
      /\ ts \in [Int -> Tables] /\ first = ts[a] /\ ts[a] \in alive
      /\ firstStart \in Indices /\ lastEnd \in Indices /\ firstStart \in Nat /\ lastEnd \in Nat
      /\ (a = b => firstStart <= lastEnd)
      /\ prev[first] = (IF a = lo THEN Null ELSE ts[a - 1])
      /\ (delEmpty => a = lo)
      /\ IsChain(alive, next, prev, ts, lo, hi)
  BY <1>2, <1>3, RowFacts
<1>5. alive \in SUBSET Tables /\ next \in Links /\ prev \in Links /\ NoLoop(next)
  BY <1>2 DEF BcTypes
<1>6. last' = last /\ lastEnd' = lastEnd /\ exists' = TRUE /\ delEmpty' = delEmpty
  BY <1>1 DEF PushFront
<1>7. CASE firstStart > 0
  <2>1. firstStart' = firstStart - 1 /\ alive' = alive /\ next' = next /\ prev' = prev /\ first' = first
        /\ Wrote(cells, cells', ts[a], firstStart', v)
    BY <1>4, <1>7 DEF PushFront, Wrote
  <2>2. HasEnds(lo, hi, a, b, firstStart', lastEnd)
    <3>1. firstStart' \in Indices
      BY <1>4, <1>7, <2>1, BrokenCollectionAssumption DEF Indices
    <3>2. a = b => firstStart' <= lastEnd
      BY <1>4, <2>1
    <3> QED
      BY <1>4, <3>1, <3>2 DEF HasEnds
  <2>3. StepsOn(a, firstStart', a, firstStart)
    BY <1>4, <2>1 DEF StepsOn
  <2>4. PushesFront(v, ts, lo, hi, a, b, lo, a)
    BY <1>2, <1>3, <1>4, <1>5, <1>6, <2>1, <2>2, <2>3 DEF PushesFront
  <2> QED
    BY <2>4, PushedFront
<1>8. CASE firstStart = 0 /\ prev[first] # Null
  <2>1. firstStart' = TableSize - 1 /\ alive' = alive /\ next' = next /\ prev' = prev /\ first' = prev[first]
        /\ Wrote(cells, cells', prev[first], firstStart', v)
    BY <1>8 DEF PushFront, Wrote
  <2>2. a # lo /\ a - 1 \in lo..hi /\ first' = ts[a - 1] /\ ~delEmpty /\ prev[first] = ts[a - 1]
    BY <1>4, <1>8, <2>1
  <2>3. HasEnds(lo, hi, a - 1, b, firstStart', lastEnd)
    BY <1>4, <2>1, <2>2, IndicesGoOn DEF HasEnds
  <2>4. StepsOn(a - 1, firstStart', a, firstStart)
    BY <1>4, <1>8, <2>1, BrokenCollectionAssumption DEF StepsOn
  <2>5. PushesFront(v, ts, lo, hi, a, b, lo, a - 1)
    BY <1>2, <1>3, <1>4, <1>5, <1>6, <2>1, <2>2, <2>3, <2>4 DEF PushesFront
  <2> QED
    BY <2>5, PushedFront
<1>9. CASE firstStart = 0 /\ prev[first] = Null
  <2>1. firstStart' = TableSize - 1 /\ HasMemory
    BY <1>9 DEF PushFront
  <2>2. PICK new \in Tables \ alive : new = NewTable
    BY <1>5, <2>1, NewTableIsFree
  <2>3. a = lo
    <3>1. a # lo => a - 1 \in Int
      BY <1>4
    <3>2. a # lo => ts[a - 1] \in Tables
      BY <1>4, <3>1
    <3> QED
      BY <1>4, <1>9, <3>2
  <2>4. /\ alive' = alive \cup {new} /\ next' = [next EXCEPT ![new] = ts[a]]
        /\ prev' = [prev EXCEPT ![ts[a]] = new, ![new] = Null] /\ first' = new
        /\ Wrote(cells, cells', new, firstStart', v)
    BY <1>4, <1>9, <2>1, <2>2 DEF PushFront, Wrote
  <2> DEFINE us == [ts EXCEPT ![lo - 1] = new]
  <2>5. /\ us \in [Int -> Tables] /\ us[lo - 1] = new /\ (\A j \in lo..hi : us[j] = ts[j]) /\ us[a] = ts[a]
    <3>1. lo - 1 \in Int /\ new \in Tables /\ \A j \in lo..hi : j \in Int /\ j # lo - 1
      BY <1>4
    <3> QED
      BY <1>4, <3>1
  <2>6. IsChain(alive', next', prev', us, lo - 1, hi)
    BY <1>4, <1>5, <2>2, <2>3, <2>4, GrowFront
  <2> HIDE DEF us
  <2>7. Laid(us, lo, hi, a, b)
    BY <1>3, <2>5, LaidAlso
  <2>8. next' \in Links /\ NoLoop(next') /\ prev' \in Links /\ alive' \in SUBSET Tables
    <3>1. ts[a] \in Tables /\ new \in Tables /\ ts[a] # new
      BY <1>4, <1>5, <2>2
    <3>2. \A u \in alive : next[u] \in alive \cup {Null}
      BY <1>4, <1>5, ChainIsClosed
    <3>3. next' \in Links /\ NoLoop(next')
      BY <1>4, <1>5, <2>2, <2>4, <3>2, FrontNoLoop
    <3>4. prev' \in Links
      BY <1>5, <2>4, <3>1 DEF Links
    <3> QED
      BY <1>5, <2>4, <3>1, <3>3, <3>4
  <2>9. HasEnds(lo - 1, hi, a - 1, b, firstStart', lastEnd)
    BY <1>4, <2>1, <2>3, IndicesGoOn DEF HasEnds
  <2>10. StepsOn(a - 1, firstStart', a, firstStart)
    BY <1>4, <1>9, <2>1, BrokenCollectionAssumption DEF StepsOn
  <2>11. lo - 1 <= lo /\ a - 1 = lo - 1 /\ first' = us[a - 1] /\ Wrote(cells, cells', us[a - 1], firstStart', v)
    BY <1>4, <1>6, <2>3, <2>4, <2>5
  <2>12. PushesFront(v, us, lo, hi, a, b, lo - 1, a - 1)
    BY <1>2, <1>6, <2>6, <2>7, <2>8, <2>9, <2>10, <2>11 DEF PushesFront
  <2> QED
    BY <2>12, PushedFront
<1>10. firstStart > 0 \/ firstStart = 0
  BY <1>4
<1> QED
  BY <1>7, <1>8, <1>9, <1>10

LEMMA StepPopBack ==
  ASSUME BcInv, PopBack
  PROVE  BcInv' /\ AtBack(Contents, Contents', dest') /\ dest' \in Cell
<1>1. exists /\ ~Empty
  BY DEF PopBack
<1>2. BcTypes
  BY <1>1, HasRow
<1>3. PICK ts, lo, hi, a, b : Laid(ts, lo, hi, a, b)
  BY <1>1, HasRow
<1>4. /\ lo \in Int /\ hi \in Int /\ a \in Int /\ b \in Int
      /\ lo <= a /\ a <= b /\ b <= hi /\ a \in lo..hi /\ b \in lo..hi
      /\ ts \in [Int -> Tables] /\ last = ts[b]
      /\ firstStart \in Indices /\ lastEnd \in Indices /\ firstStart \in Nat /\ lastEnd \in Nat
      /\ lastEnd < TableSize /\ firstStart < TableSize /\ (a = b => firstStart <= lastEnd)
      /\ prev[last] = (IF b = lo THEN Null ELSE ts[b - 1])
      /\ (delEmpty => a = lo /\ b = hi)
      /\ IsChain(alive, next, prev, ts, lo, hi)
  BY <1>2, <1>3, RowFacts
<1>5. alive \in SUBSET Tables /\ next \in Links /\ prev \in Links /\ NoLoop(next)
  BY <1>2 DEF BcTypes
<1>6. first' = first /\ firstStart' = firstStart /\ prev' = prev
      /\ exists' = TRUE /\ delEmpty' = delEmpty
      /\ dest' = cells[last'][lastEnd'] /\ Wrote(cells, cells', last', lastEnd', None)
  BY <1>1 DEF PopBack, Wrote
<1>7. ~(a = b /\ firstStart = lastEnd)
  BY <1>1, <1>3, LaidEmpty
<1>8. CASE lastEnd # 0
  <2>1. lastEnd' = lastEnd - 1 /\ alive' = alive /\ next' = next /\ last' = last
    BY <1>8 DEF PopBack
  <2>2. HasEnds(lo, hi, a, b, firstStart, lastEnd')
    <3>1. lastEnd' \in Indices
      BY <1>4, <1>8, <2>1, BrokenCollectionAssumption DEF Indices
    <3>2. a = b => firstStart <= lastEnd'
      BY <1>4, <1>7, <2>1
    <3> QED
      BY <1>4, <3>1, <3>2 DEF HasEnds
  <2>3. StepsOn(b, lastEnd', b, lastEnd)
    BY <1>4, <2>1 DEF StepsOn
  <2>4. PopsBack(ts, lo, hi, a, b, hi, b)
    BY <1>2, <1>3, <1>4, <1>5, <1>6, <2>1, <2>2, <2>3 DEF PopsBack
  <2> QED
    BY <1>4, <1>6, <2>1, <2>4, PoppedBack
<1>9. CASE lastEnd = 0
  <2>1. lastEnd' = TableSize - 1 /\ last' = prev[last]
        /\ alive' = (IF delEmpty THEN alive \ {last} ELSE alive)
        /\ next' = (IF delEmpty THEN [next EXCEPT ![prev[last]] = Null] ELSE next)
    BY <1>9 DEF PopBack, DropTable
  <2>2. a < b /\ b # lo /\ b - 1 \in lo..hi /\ last' = ts[b - 1] /\ prev[last] = ts[b - 1]
    BY <1>4, <1>7, <1>9, <2>1
  <2> DEFINE hi2 == IF delEmpty THEN hi - 1 ELSE hi
  <2>3. IsChain(alive', next', prev', ts, lo, hi2)
    <3>1. CASE delEmpty
      <4>1. b = hi /\ lo < hi /\ hi2 = hi - 1
        BY <1>4, <2>2, <3>1
      <4>2. alive' = alive \ {ts[hi]} /\ next' = [next EXCEPT ![ts[hi - 1]] = Null]
        BY <1>4, <2>1, <2>2, <3>1, <4>1
      <4>3. IsChain(alive \ {ts[hi]}, [next EXCEPT ![ts[hi - 1]] = Null], prev, ts, lo, hi - 1)
        BY <1>4, <1>5, <4>1, DropBack
      <4> QED
        BY <1>6, <4>1, <4>2, <4>3
    <3>2. CASE ~delEmpty
      BY <1>4, <1>6, <2>1, <3>2
    <3> QED
      BY <3>1, <3>2
  <2>4. hi2 <= hi /\ (delEmpty => b - 1 = hi2) /\ hi2 \in Int /\ b - 1 <= hi2
    BY <1>4, <2>2
  <2> HIDE DEF hi2
  <2>5. next' \in Links /\ NoLoop(next') /\ prev' \in Links /\ alive' \in SUBSET Tables
    <3>1. next' \in Links /\ NoLoop(next')
      <4>1. CASE delEmpty
        BY <1>5, <2>1, <4>1, CutNoLoop
      <4>2. CASE ~delEmpty
        BY <1>5, <2>1, <4>2
      <4> QED
        BY <4>1, <4>2
    <3>2. prev' \in Links
      BY <1>5, <1>6
    <3>3. alive' \in SUBSET Tables
      BY <1>5, <2>1
    <3> QED
      BY <3>1, <3>2, <3>3
  <2>6. HasEnds(lo, hi2, a, b - 1, firstStart, lastEnd')
    <3>1. a \in lo..hi2 /\ b - 1 \in lo..hi2 /\ a <= b - 1
      BY <1>4, <2>2, <2>4
    <3>2. lastEnd' \in Indices
      BY <2>1, IndicesGoOn
    <3>3. a = b - 1 => firstStart <= lastEnd'
      BY <1>4, <2>1, BrokenCollectionAssumption
    <3> QED
      BY <1>4, <3>1, <3>2, <3>3 DEF HasEnds
  <2>7. StepsOn(b - 1, lastEnd', b, lastEnd)
    BY <1>4, <1>9, <2>1, BrokenCollectionAssumption DEF StepsOn
  <2>8. PopsBack(ts, lo, hi, a, b, hi2, b - 1)
    BY <1>2, <1>3, <1>6, <2>2, <2>3, <2>4, <2>5, <2>6, <2>7 DEF PopsBack
  <2> QED
    BY <1>6, <2>2, <2>8, PoppedBack
<1> QED
  BY <1>8, <1>9

LEMMA StepPopFront ==
  ASSUME BcInv, PopFront
  PROVE  BcInv' /\ AtFront(Contents, dest', Contents') /\ dest' \in Cell
<1>1. exists /\ ~Empty
  BY DEF PopFront
<1>2. BcTypes
  BY <1>1, HasRow
<1>3. PICK ts, lo, hi, a, b : Laid(ts, lo, hi, a, b)
  BY <1>1, HasRow
<1>4. /\ lo \in Int /\ hi \in Int /\ a \in Int /\ b \in Int
      /\ lo <= a /\ a <= b /\ b <= hi /\ a \in lo..hi /\ b \in lo..hi
      /\ ts \in [Int -> Tables] /\ first = ts[a]
      /\ firstStart \in Indices /\ lastEnd \in Indices /\ firstStart \in Nat /\ lastEnd \in Nat
      /\ lastEnd < TableSize /\ firstStart < TableSize /\ (a = b => firstStart <= lastEnd)
      /\ next[first] = (IF a = hi THEN Null ELSE ts[a + 1])
      /\ (delEmpty => a = lo /\ b = hi)
      /\ IsChain(alive, next, prev, ts, lo, hi)
  BY <1>2, <1>3, RowFacts
<1>5. alive \in SUBSET Tables /\ next \in Links /\ prev \in Links /\ NoLoop(next)
  BY <1>2 DEF BcTypes
<1>6. last' = last /\ lastEnd' = lastEnd /\ next' = next
      /\ exists' = TRUE /\ delEmpty' = delEmpty
      /\ dest' = cells[ts[a]][firstStart] /\ Wrote(cells, cells', ts[a], firstStart, None)
  BY <1>1, <1>4 DEF PopFront, Wrote
<1>7. ~(a = b /\ firstStart = lastEnd)
  BY <1>1, <1>3, LaidEmpty
<1>8. CASE firstStart + 1 # TableSize
  <2>1. firstStart' = firstStart + 1 /\ alive' = alive /\ prev' = prev /\ first' = first
    BY <1>8 DEF PopFront
  <2>2. HasEnds(lo, hi, a, b, firstStart', lastEnd)
    <3>1. firstStart' \in Indices
      BY <1>4, <1>8, <2>1, IndicesGoOn
    <3>2. a = b => firstStart' <= lastEnd
      BY <1>4, <1>7, <2>1
    <3> QED
      BY <1>4, <3>1, <3>2 DEF HasEnds
  <2>3. StepsOn(a, firstStart, a, firstStart')
    BY <2>1 DEF StepsOn
  <2>4. PopsFront(ts, lo, hi, a, b, lo, a)
    BY <1>2, <1>3, <1>4, <1>5, <1>6, <2>1, <2>2, <2>3 DEF PopsFront
  <2> QED
    BY <1>6, <2>4, PoppedFront
<1>9. CASE firstStart + 1 = TableSize
  <2>1. firstStart' = 0 /\ first' = next[first]
        /\ alive' = (IF delEmpty THEN alive \ {first} ELSE alive)
        /\ prev' = (IF delEmpty THEN [prev EXCEPT ![next[first]] = Null] ELSE prev)
    BY <1>9 DEF PopFront, DropTable
  <2>2. a < b /\ a # hi /\ a + 1 \in lo..hi /\ first' = ts[a + 1] /\ next[first] = ts[a + 1]
    <3>1. a # b
      BY <1>4, <1>7, <1>9
    <3> QED
      BY <1>4, <2>1, <3>1
  <2> DEFINE lo2 == IF delEmpty THEN lo + 1 ELSE lo
  <2>3. IsChain(alive', next', prev', ts, lo2, hi)
    <3>1. CASE delEmpty
      <4>1. a = lo /\ lo < hi /\ lo2 = lo + 1
        BY <1>4, <2>2, <3>1
      <4>2. alive' = alive \ {ts[lo]} /\ prev' = [prev EXCEPT ![ts[lo + 1]] = Null]
        BY <1>4, <2>1, <2>2, <3>1, <4>1
      <4>3. IsChain(alive \ {ts[lo]}, next, [prev EXCEPT ![ts[lo + 1]] = Null], ts, lo + 1, hi)
        BY <1>4, <1>5, <4>1, DropFront
      <4> QED
        BY <1>6, <4>1, <4>2, <4>3
    <3>2. CASE ~delEmpty
      BY <1>4, <1>6, <2>1, <3>2
    <3> QED
      BY <3>1, <3>2
  <2>4. lo <= lo2 /\ (delEmpty => a + 1 = lo2) /\ lo2 \in Int /\ lo2 <= a + 1
    BY <1>4, <2>2
  <2> HIDE DEF lo2
  <2>5. next' \in Links /\ NoLoop(next') /\ prev' \in Links /\ alive' \in SUBSET Tables
    <3>1. next' \in Links /\ NoLoop(next')
      BY <1>5, <1>6
    <3>2. prev' \in Links
      BY <1>5, <2>1 DEF Links
    <3>3. alive' \in SUBSET Tables
      BY <1>5, <2>1
    <3> QED
      BY <3>1, <3>2, <3>3
  <2>6. HasEnds(lo2, hi, a + 1, b, firstStart', lastEnd)
    <3>1. a + 1 \in lo2..hi /\ b \in lo2..hi /\ a + 1 <= b
      BY <1>4, <2>2, <2>4
    <3>2. firstStart' \in Indices
      BY <2>1, IndicesGoOn
    <3>3. a + 1 = b => firstStart' <= lastEnd
      BY <1>4, <2>1
    <3> QED
      BY <1>4, <3>1, <3>2, <3>3 DEF HasEnds
  <2>7. StepsOn(a, firstStart, a + 1, firstStart')
    BY <1>9, <2>1 DEF StepsOn
  <2>8. PopsFront(ts, lo, hi, a, b, lo2, a + 1)
    BY <1>2, <1>3, <1>6, <2>2, <2>3, <2>4, <2>5, <2>6, <2>7 DEF PopsFront
  <2> QED
    BY <1>6, <2>8, PoppedFront
<1> QED
  BY <1>8, <1>9

LEMMA BcStutters ==
  ASSUME BcInv, UNCHANGED bcVars
  PROVE  BcInv' /\ Contents' = Contents /\ exists' = exists
<1>1. /\ exists' = exists /\ delEmpty' = delEmpty /\ alive' = alive /\ next' = next /\ prev' = prev /\ cells' = cells
      /\ first' = first /\ firstStart' = firstStart /\ last' = last /\ lastEnd' = lastEnd
  BY DEF bcVars
<1>2. BcTypes'
  BY <1>1 DEF BcInv, BcTypes
<1>3. ASSUME exists' PROVE IsLaid'
  <2>1. PICK ts, lo, hi, a, b : Laid(ts, lo, hi, a, b)
    BY <1>1, <1>3, HasRow
  <2>2. Laid(ts, lo, hi, a, b)'
    BY <1>1, <2>1 DEF Laid
  <2> QED
    BY <2>2 DEF IsLaid
<1>4. Contents' = Contents
  BY <1>1, ContentsAre
<1> QED
  BY <1>1, <1>2, <1>3, <1>4 DEF BcInv

LEMMA LaidIsSound ==
  ASSUME BcInv
  PROVE  ChainIsSound
<1>1. CASE ~exists
  BY <1>1 DEF BcInv, ChainIsSound
<1>2. CASE exists
  <2>1. BcTypes
    BY <1>2, HasRow
  <2>2. PICK ts, lo, hi, a, b : Laid(ts, lo, hi, a, b)
    BY <1>2, HasRow
  <2>3. /\ lo \in Int /\ hi \in Int /\ a \in Int /\ b \in Int /\ ts \in [Int -> Tables]
        /\ first = ts[a] /\ last = ts[b] /\ ts[a] \in alive /\ ts[b] \in alive /\ a \in lo..hi /\ b \in lo..hi
        /\ firstStart \in Indices /\ lastEnd \in Indices /\ (a = b => firstStart <= lastEnd)
        /\ next[last] = (IF b = hi THEN Null ELSE ts[b + 1]) /\ prev[first] = (IF a = lo THEN Null ELSE ts[a - 1])
        /\ (delEmpty => a = lo /\ b = hi)
        /\ IsChain(alive, next, prev, ts, lo, hi)
    BY <2>1, <2>2, RowFacts
  <2>4. Chain = alive /\ last \in Along(next, first)
    BY <2>1, <2>2, ChainIsAll
  <2>5. first = last => firstStart <= lastEnd
    BY <2>3 DEF IsChain
  <2>6. delEmpty => prev[first] = Null /\ next[last] = Null
    BY <2>3
  <2>7. ASSUME NEW t \in alive
        PROVE  /\ next[t] # Null => next[t] \in alive /\ prev[next[t]] = t
               /\ prev[t] # Null => prev[t] \in alive /\ next[prev[t]] = t
    <3>1. PICK j \in lo..hi : ts[j] = t
      BY <2>3 DEF IsChain
    <3>2. /\ next[t] = (IF j = hi THEN Null ELSE ts[j + 1]) /\ prev[t] = (IF j = lo THEN Null ELSE ts[j - 1])
      BY <2>3, <3>1 DEF IsChain
    <3>3. j # hi => /\ j + 1 \in lo..hi /\ j + 1 # lo /\ (j + 1) - 1 = j
      BY <2>3, <3>1
    <3>4. j # lo => /\ j - 1 \in lo..hi /\ j - 1 # hi /\ (j - 1) + 1 = j
      BY <2>3, <3>1
    <3>5. j # hi => next[t] = ts[j + 1] /\ ts[j + 1] \in alive /\ prev[ts[j + 1]] = t
      BY <2>3, <3>1, <3>2, <3>3 DEF IsChain
    <3>6. j # lo => prev[t] = ts[j - 1] /\ ts[j - 1] \in alive /\ next[ts[j - 1]] = t
      BY <2>3, <3>1, <3>2, <3>4 DEF IsChain
    <3> QED
      BY <3>2, <3>5, <3>6
  <2> QED
    BY <1>2, <2>3, <2>4, <2>5, <2>6, <2>7 DEF ChainIsSound
<1> QED
  BY <1>1, <1>2

-----------------------------------------------------------------------------
(***************************************************************************)
(* The roots copied onto the collection.                                   *)
(***************************************************************************)
RootPiece(set, id) == IF set[id].allocated THEN <<set[id].word>> ELSE <<>>

\* The addresses of the entries below n, for each n.
Below(set) ==
  LET below[n \in 0..MaxRoots] ==
        IF n = 0 THEN <<>>
        ELSE below[n - 1] \o (IF set[n - 1].allocated THEN <<set[n - 1].word>> ELSE <<>>)
  IN below

HIDE BrokenCollectionAssumption
USE RootSetAssumption

LEMMA RootAddrsAre == RootAddrs = Below(rootSet)[cursor] /\ RootAddrs' = Below(rootSet')[cursor']
<1>1. RootAddrs = Below(rootSet)[cursor]
  BY Zenon DEF RootAddrs, Below
<1>2. RootAddrs' = Below(rootSet')[cursor']
  BY Zenon DEF RootAddrs, Below
<1> QED
  BY <1>1, <1>2

LEMMA BelowGoesOn ==
  ASSUME NEW set, \A id \in Ids : set[id].allocated => set[id].word \in Cell
  PROVE  /\ Below(set) \in [0..MaxRoots -> Seq(Cell)] /\ Below(set)[0] = <<>>
         /\ \A n \in 0..(MaxRoots - 1) : /\ n + 1 \in 0..MaxRoots
                                         /\ Below(set)[n + 1] = Below(set)[n] \o RootPiece(set, n)
<1> DEFINE below[n \in 0..MaxRoots] ==
             IF n = 0 THEN <<>>
             ELSE below[n - 1] \o (IF set[n - 1].allocated THEN <<set[n - 1].word>> ELSE <<>>)
           X == Seq(Cell)
           step == [n \in 1..MaxRoots |-> [s \in X |-> s \o RootPiece(set, n - 1)]]
<1>1. Below(set) = below
  BY Zenon DEF Below
<1>2. \A n \in 1..MaxRoots : n - 1 \in Ids /\ RootPiece(set, n - 1) \in X
  <2> SUFFICES ASSUME NEW n \in 1..MaxRoots PROVE n - 1 \in Ids /\ RootPiece(set, n - 1) \in X
    OBVIOUS
  <2>1. n - 1 \in Ids
    BY DEF Ids
  <2> QED
    BY <2>1 DEF RootPiece
<1>3. step \in [1..MaxRoots -> [X -> X]]
  <2>1. \A n \in 1..MaxRoots : \A s \in X : s \o RootPiece(set, n - 1) \in X
    BY <1>2, ConcatProperties
  <2> HIDE DEF X
  <2> QED
    BY <2>1
<1>4. PICK f \in [0..MaxRoots -> X] : f[0] = <<>> /\ \A n \in 1..MaxRoots : f[n] = f[n - 1] \o RootPiece(set, n - 1)
  <2>1. <<>> \in X
    OBVIOUS
  <2> HIDE DEF X
  <2>2. \A n \in 1..MaxRoots : \A s \in X : step[n][s] = s \o RootPiece(set, n - 1)
    OBVIOUS
  <2> HIDE DEF step
  <2>3. Repeated(X, <<>>, step, MaxRoots)
    BY <1>3, <2>1, Repeats
  <2>4. PICK f \in [0..MaxRoots -> X] : f[0] = <<>> /\ \A n \in 1..MaxRoots : f[n] = step[n][f[n - 1]]
    BY <2>3 DEF Repeated
  <2>5. \A n \in 1..MaxRoots : f[n - 1] \in X
    OBVIOUS
  <2>6. ASSUME NEW n \in 1..MaxRoots PROVE f[n] = f[n - 1] \o RootPiece(set, n - 1)
    <3>1. f[n - 1] \in X
      BY <2>5
    <3> QED
      BY <2>2, <2>4, <3>1
  <2> QED
    BY <2>4, <2>6
<1>5. f = [n \in 0..MaxRoots |->
             IF n = 0 THEN <<>>
             ELSE f[n - 1] \o (IF set[n - 1].allocated THEN <<set[n - 1].word>> ELSE <<>>)]
  <2>1. \A n \in 0..MaxRoots :
          f[n] = IF n = 0 THEN <<>>
                 ELSE f[n - 1] \o (IF set[n - 1].allocated THEN <<set[n - 1].word>> ELSE <<>>)
    <3>1. \A n \in 0..MaxRoots : n # 0 => n \in 1..MaxRoots
      OBVIOUS
    <3> QED
      BY <1>4, <3>1 DEF RootPiece
  <2> QED
    BY <1>4, <2>1
<1>6. below = [n \in 0..MaxRoots |->
                 IF n = 0 THEN <<>>
                 ELSE below[n - 1] \o (IF set[n - 1].allocated THEN <<set[n - 1].word>> ELSE <<>>)]
  BY <1>5, Zenon
<1> HIDE DEF below
<1>7. below[0] = <<>>
  BY <1>6
<1>8. ASSUME NEW n \in 1..MaxRoots PROVE below[n] = below[n - 1] \o RootPiece(set, n - 1)
  <2>1. n \in 0..MaxRoots /\ n # 0
    OBVIOUS
  <2> QED
    BY <1>6, <2>1 DEF RootPiece
<1>9. \A n \in 0..MaxRoots : below[n] \in X
  <2> DEFINE P == {n \in Nat : n <= MaxRoots => below[n] \in X}
  <2>1. 0 \in P
    <3>1. below[0] \in X
      BY <1>7, EmptySeq
    <3> HIDE DEF X
    <3> QED
      BY <3>1
  <2>2. ASSUME NEW n \in P PROVE n + 1 \in P
    <3> SUFFICES ASSUME n + 1 <= MaxRoots PROVE below[n + 1] \in X
      OBVIOUS
    <3>1. n + 1 \in 1..MaxRoots /\ (n + 1) - 1 = n /\ below[n] \in X
      OBVIOUS
    <3>2. below[n + 1] = below[n] \o RootPiece(set, n) /\ RootPiece(set, n) \in X
      BY <1>2, <1>8, <3>1
    <3> QED
      BY <3>1, <3>2, ConcatProperties
  <2>3. \A n \in Nat : n \in P
    <3> HIDE DEF P
    <3>1. P \in SUBSET Nat
      BY DEF P
    <3> QED
      BY <2>1, <2>2, <3>1, InductiveSet
  <2> QED
    BY <2>3
<1>10. below \in [0..MaxRoots -> X]
  <2>1. below = [n \in 0..MaxRoots |-> below[n]]
    BY <1>6
  <2> HIDE DEF X
  <2> QED
    BY <1>9, <2>1
<1>11. \A n \in 0..(MaxRoots - 1) : n + 1 \in 0..MaxRoots /\ below[n + 1] = below[n] \o RootPiece(set, n)
  <2> SUFFICES ASSUME NEW n \in 0..(MaxRoots - 1)
               PROVE  n + 1 \in 0..MaxRoots /\ below[n + 1] = below[n] \o RootPiece(set, n)
    OBVIOUS
  <2>1. n + 1 \in 1..MaxRoots /\ n + 1 \in 0..MaxRoots /\ (n + 1) - 1 = n
    OBVIOUS
  <2> QED
    BY <1>8, <2>1
<1> QED
  BY <1>1, <1>7, <1>10, <1>11

-----------------------------------------------------------------------------
(***************************************************************************)
(* The two together.                                                       *)
(***************************************************************************)
\* What the copying has pushed, so far.
HasPushed == base \in Seq(Cell) /\ Contents = base \o RootAddrs

\* There is a collection while roots are copied onto it, and on what was there
\* before are the roots passed.
StackInv ==
  /\ RootsWellFormed /\ BcInv
  /\ pushing # "no" => exists
  /\ pushing = "stack" => cursor \in 0..rootCap /\ HasPushed

LEMMA InitStack == Init => StackInv
BY InitRoots, InitBc DEF StackInv, Init

LEMMA RootsAreCells ==
  ASSUME RootsWellFormed
  PROVE  /\ \A id \in Ids : rootSet[id].allocated => rootSet[id].word \in Cell
         /\ rootCap \in Nat /\ rootCap <= MaxRoots
BY MarkStackAssumption DEF RootsWellFormed

\* The root passed is pushed, or there was none.
LEMMA StepPushRoot ==
  ASSUME StackInv, PushRoot
  PROVE  /\ BcInv' /\ (pushing' = "stack" => cursor' \in 0..rootCap' /\ HasPushed')
         /\ (rootSet[cursor].allocated => rootSet[cursor].word \in Cell)
<1>1. /\ pushing = "stack" /\ cursor \in Nat /\ cursor < rootCap /\ base \in Seq(Cell) /\ Contents = base \o RootAddrs
      /\ cursor' = cursor + 1 /\ rootSet' = rootSet /\ rootCap' = rootCap /\ base' = base /\ BcInv /\ RootsWellFormed
  BY DEF StackInv, PushRoot, HasPushed, rootVars
<1>2. /\ \A id \in Ids : rootSet[id].allocated => rootSet[id].word \in Cell
      /\ rootCap \in Nat /\ rootCap <= MaxRoots
  BY <1>1, RootsAreCells
<1>3. cursor \in Ids /\ cursor \in 0..(MaxRoots - 1) /\ cursor \in 0..MaxRoots /\ cursor' \in 0..rootCap'
  BY <1>1, <1>2 DEF Ids
<1>4. /\ Below(rootSet) \in [0..MaxRoots -> Seq(Cell)]
      /\ Below(rootSet)[cursor + 1] = Below(rootSet)[cursor] \o RootPiece(rootSet, cursor)
  BY <1>2, <1>3, BelowGoesOn
<1>5. /\ RootAddrs \in Seq(Cell) /\ RootAddrs' = RootAddrs \o RootPiece(rootSet, cursor)
  BY <1>1, <1>3, <1>4, RootAddrsAre
<1>6. RootPiece(rootSet, cursor) \in Seq(Cell)
  BY <1>2, <1>3 DEF RootPiece
<1>7. BcInv' /\ Contents' = Contents \o RootPiece(rootSet, cursor)
  <2>1. CASE rootSet[cursor].allocated
    <3> DEFINE v == rootSet[cursor].word
    <3>1. v \in Cell /\ PushBack(v)
      BY <1>2, <1>3, <2>1 DEF PushRoot
    <3>2. RootPiece(rootSet, cursor) = <<v>>
      BY <2>1 DEF RootPiece
    <3> HIDE DEF v
    <3>3. BcInv' /\ AtBack(Contents', Contents, v)
      BY <1>1, <3>1, StepPushBack
    <3> QED
      BY <3>2, <3>3 DEF AtBack
  <2>2. CASE ~rootSet[cursor].allocated
    <3>1. BcInv' /\ Contents' = Contents
      BY <1>1, <2>2, BcStutters DEF PushRoot
    <3>2. Contents \in Seq(Cell)
      BY <1>1, <1>5, ConcatProperties
    <3> QED
      BY <2>2, <3>1, <3>2, ConcatEmptySeq DEF RootPiece
  <2> QED
    BY <2>1, <2>2
<1>8. (base \o RootAddrs) \o RootPiece(rootSet, cursor) = base \o (RootAddrs \o RootPiece(rootSet, cursor))
  BY <1>1, <1>5, <1>6, ConcatAssociative
<1>9. HasPushed'
  BY <1>1, <1>5, <1>7, <1>8 DEF HasPushed
<1> QED
  BY <1>2, <1>3, <1>7, <1>9

LEMMA StepLockStack ==
  ASSUME StackInv, LockStack
  PROVE  BcInv' /\ exists' /\ cursor' \in 0..rootCap' /\ HasPushed'
<1>1. /\ pushing = "roots" /\ cursor' = 0 /\ base' = Contents /\ UNCHANGED bcVars
      /\ rootSet' = rootSet /\ rootCap' = rootCap /\ exists /\ BcInv /\ RootsWellFormed
  BY DEF StackInv, LockStack, rootVars
<1>2. BcInv' /\ Contents' = Contents /\ exists'
  BY <1>1, BcStutters
<1>3. Contents \in Seq(Cell)
  <2>1. BcTypes
    BY <1>1, HasRow
  <2>2. PICK ts, lo, hi, a, b : Laid(ts, lo, hi, a, b)
    BY <1>1, HasRow
  <2> QED
    BY <2>1, <2>2, LaidContents
<1>4. /\ \A id \in Ids : rootSet[id].allocated => rootSet[id].word \in Cell
      /\ rootCap \in Nat /\ rootCap <= MaxRoots
  BY <1>1, RootsAreCells
<1>5. Below(rootSet)[0] = <<>>
  BY <1>4, BelowGoesOn
<1>6. RootAddrs' = <<>>
  BY <1>1, <1>5, RootAddrsAre
<1>7. Contents \o <<>> = Contents
  BY <1>3, ConcatEmptySeq
<1>8. cursor' \in 0..rootCap'
  BY <1>1, <1>4
<1> QED
  BY <1>1, <1>2, <1>3, <1>6, <1>7, <1>8 DEF HasPushed

\* While the stack is locked nobody else touches it.
LEMMA StackStep ==
  ASSUME StackInv, [Next]_vars
  PROVE  StackInv'
<1>1. RootsWellFormed'
  BY NextStep DEF StackInv
<1>2. CASE StackCall
  <2>1. pushing # "stack" /\ pushing' = pushing /\ BcInv /\ (pushing # "no" => exists)
    BY <1>2 DEF StackCall, StackInv
  <2>2. ASSUME NEW del \in BOOLEAN, NewCollection(del) PROVE BcInv' /\ exists'
    BY <2>1, <2>2, StepNew
  <2>3. ASSUME pushing = "no", DeleteCollection PROVE BcInv' /\ pushing' = "no"
    BY <2>1, <2>3, StepDelete
  <2>4. ASSUME NEW v \in Cell, PushBack(v) PROVE BcInv' /\ exists' = exists
    BY <2>1, <2>4, StepPushBack DEF PushBack
  <2>5. ASSUME NEW v \in Cell, PushFront(v) PROVE BcInv' /\ exists' = exists
    BY <2>1, <2>5, StepPushFront DEF PushFront
  <2>6. ASSUME PopBack PROVE BcInv' /\ exists' = exists
    BY <2>1, <2>6, StepPopBack DEF PopBack
  <2>7. ASSUME PopFront PROVE BcInv' /\ exists' = exists
    BY <2>1, <2>7, StepPopFront DEF PopFront
  <2>8. BcInv' /\ (pushing' # "no" => exists')
    BY <1>2, <2>1, <2>2, <2>3, <2>4, <2>5, <2>6, <2>7 DEF StackCall
  <2> QED
    BY <1>1, <2>1, <2>8 DEF StackInv
<1>3. CASE PushRoot
  <2>1. BcInv' /\ (pushing' = "stack" => cursor' \in 0..rootCap' /\ HasPushed')
    BY <1>3, StepPushRoot
  <2>2. exists'
    <3>1. exists
      BY <1>3 DEF PushRoot, StackInv
    <3> QED
      BY <1>3, <3>1 DEF PushRoot, PushBack, bcVars
  <2> QED
    BY <1>1, <2>1, <2>2 DEF StackInv
<1>4. CASE LockStack
  <2>1. BcInv' /\ exists' /\ cursor' \in 0..rootCap' /\ HasPushed'
    BY <1>4, StepLockStack
  <2> QED
    BY <1>1, <2>1 DEF StackInv
<1>5. CASE RootCall \/ BeginPush \/ EndPush
  <2>1. UNCHANGED bcVars /\ pushing' # "stack" /\ (pushing' = "no" \/ exists)
    BY <1>5 DEF RootCall, BeginPush, EndPush
  <2>2. BcInv' /\ exists' = exists
    BY <2>1, BcStutters DEF StackInv
  <2> QED
    BY <1>1, <2>1, <2>2 DEF StackInv
<1>6. CASE UNCHANGED vars
  <2>1. UNCHANGED bcVars /\ rootSet' = rootSet /\ rootCap' = rootCap /\ pushing' = pushing /\ cursor' = cursor /\ base' = base
    BY <1>6 DEF vars, rootVars
  <2>2. BcInv' /\ Contents' = Contents /\ exists' = exists
    BY <2>1, BcStutters DEF StackInv
  <2>3. RootAddrs' = RootAddrs
    BY <2>1, RootAddrsAre
  <2> QED
    BY <1>1, <2>1, <2>2, <2>3 DEF StackInv, HasPushed
<1> QED
  BY <1>2, <1>3, <1>4, <1>5, <1>6 DEF Next

\* For any number and size of tables the chain of a broken collection is whole:
\* its links agree in both directions, the first and the last place lie in it in
\* this order, and it holds every table that is allocated, so that a push loses
\* none, a pop leaves none in use that it has freed, and delete_broken_collection
\* leaves nothing behind.
THEOREM ChainStaysSound == Spec => []ChainIsSound
<1>1. Init => StackInv
  BY InitStack
<1>2. StackInv /\ [Next]_vars => StackInv'
  BY StackStep
<1>3. StackInv => ChainIsSound
  BY LaidIsSound DEF StackInv
<1> QED
  BY <1>1, <1>2, <1>3, PTL DEF Spec

\* For any number of roots and any stack to begin with, a collection puts the
\* address of every root it has passed on top of what was there, in order, while
\* it holds root_set_lock and in_progress_stack_lock: no other thread gets in
\* between, and no root is skipped or pushed twice.
THEOREM RootsGetPushed == Spec => []RootsArePushed
<1>1. Init => StackInv
  BY InitStack
<1>2. StackInv /\ [Next]_vars => StackInv'
  BY StackStep
<1>3. StackInv => RootsArePushed
  BY DEF StackInv, HasPushed, RootsArePushed
<1> QED
  BY <1>1, <1>2, <1>3, PTL DEF Spec

-----------------------------------------------------------------------------
(***************************************************************************)
(* The collection is a deque.                                              *)
(***************************************************************************)
USE NoCollectionAssumption

\* The contents of the deque the collection stands for.
Held == IF exists THEN Contents ELSE None

LEMMA HeldIsSeq ==
  ASSUME BcInv, exists
  PROVE  Held = Contents /\ Contents \in Seq(Cell) /\ Held # None
<1>1. BcTypes
  BY HasRow
<1>2. PICK ts, lo, hi, a, b : Laid(ts, lo, hi, a, b)
  BY HasRow
<1>3. Contents \in Seq(Cell)
  BY <1>1, <1>2, LaidContents
<1> QED
  BY <1>3 DEF Held

\* The same of the state after a step.
LEMMA HeldIsSeqAfter ==
  ASSUME BcInv', exists'
  PROVE  Contents' \in Seq(Cell)
<1>1. PICK ts, lo, hi, a, b :
        /\ IsChain(alive', next', prev', ts, lo, hi) /\ HasEnds(lo, hi, a, b, firstStart', lastEnd')
        /\ first' = ts[a] /\ last' = ts[b] /\ Filled(cells', ts, a, b, firstStart', lastEnd')
  BY DEF BcInv, IsLaid, Laid
<1>2. next' \in Links /\ NoLoop(next') /\ cells' \in CellArrays
  BY DEF BcInv, BcTypes
<1>3. Between(Span(ts, a, b, firstStart', lastEnd'), next', cells', <<ts[a], firstStart'>>, <<ts[b], lastEnd'>>)
  BY <1>1, FilledBetween
<1>4. ContentsOf(next', cells', <<ts[a], firstStart'>>, <<ts[b], lastEnd'>>) \in Seq(Cell)
  BY <1>2, <1>3, ContentsAreCells
<1>5. Contents' = ContentsOf(next', cells', <<ts[a], firstStart'>>, <<ts[b], lastEnd'>>)
  BY <1>1, ContentsAre
<1> QED
  BY <1>4, <1>5

\* Adding an element and taking it away, at either end.
LEMMA TakeLast ==
  ASSUME NEW rest \in Seq(Cell), NEW v \in Cell, NEW longer, longer = rest \o <<v>>
  PROVE  /\ longer = Append(rest, v) /\ longer # <<>>
         /\ rest = SubSeq(longer, 1, Len(longer) - 1) /\ v = longer[Len(longer)]
<1>1. longer = Append(rest, v)
  OBVIOUS
<1>2. longer \in Seq(Cell) /\ Len(longer) = Len(rest) + 1 /\ Len(rest) \in Nat
  BY <1>1
<1>3. v = longer[Len(longer)] /\ \A i \in 1..Len(rest) : longer[i] = rest[i]
  BY <1>1, <1>2
<1>4. longer # <<>>
  BY <1>2
<1>5. rest = SubSeq(longer, 1, Len(longer) - 1)
  <2> DEFINE sub == SubSeq(longer, 1, Len(rest))
  <2>1. sub \in Seq(Cell) /\ Len(sub) = Len(rest) /\ \A i \in 1..Len(rest) : sub[i] = longer[i]
    BY <1>2
  <2>2. Len(longer) - 1 = Len(rest)
    BY <1>2
  <2> HIDE DEF sub
  <2>3. \A i \in 1..Len(rest) : rest[i] = sub[i]
    BY <1>3, <2>1
  <2>4. rest = sub
    BY <2>1, <2>3, SeqEqual
  <2> QED
    BY <2>2, <2>4 DEF sub
<1> QED
  BY <1>1, <1>3, <1>4, <1>5

LEMMA TakeFirst ==
  ASSUME NEW rest \in Seq(Cell), NEW v \in Cell, NEW longer, longer = <<v>> \o rest
  PROVE  longer # <<>> /\ rest = Tail(longer) /\ v = Head(longer)
<1>1. <<v>> \in Seq(Cell) /\ Len(<<v>>) = 1 /\ <<v>>[1] = v
  OBVIOUS
<1>2. /\ longer \in Seq(Cell) /\ Len(longer) = 1 + Len(rest) /\ Len(rest) \in Nat
      /\ \A i \in 1..(1 + Len(rest)) : longer[i] = IF i <= 1 THEN <<v>>[i] ELSE rest[i - 1]
  <2>1. /\ <<v>> \o rest \in Seq(Cell) /\ Len(<<v>> \o rest) = Len(<<v>>) + Len(rest)
        /\ \A i \in 1..(Len(<<v>>) + Len(rest)) :
             (<<v>> \o rest)[i] = IF i <= Len(<<v>>) THEN <<v>>[i] ELSE rest[i - Len(<<v>>)]
    BY <1>1, ConcatProperties
  <2>2. Len(rest) \in Nat
    OBVIOUS
  <2> QED
    BY <1>1, <2>1, <2>2
<1>3. longer # <<>> /\ longer[1] = v
  BY <1>1, <1>2
<1>4. /\ Tail(longer) \in Seq(Cell) /\ Len(Tail(longer)) = Len(rest)
      /\ \A i \in 1..Len(rest) : Tail(longer)[i] = longer[i + 1]
  BY <1>2, <1>3, HeadTailProperties
<1>5. \A i \in 1..Len(rest) : rest[i] = Tail(longer)[i]
  <2> SUFFICES ASSUME NEW i \in 1..Len(rest) PROVE rest[i] = longer[i + 1]
    BY <1>4
  <2>1. i + 1 \in 1..(1 + Len(rest)) /\ ~(i + 1 <= 1) /\ (i + 1) - 1 = i
    BY <1>2
  <2> QED
    BY <1>2, <2>1
<1>6. rest = Tail(longer)
  BY <1>4, <1>5, SeqEqual
<1> QED
  BY <1>2, <1>3, <1>6

LEMMA DequeStep ==
  ASSUME StackInv, [Next]_vars
  PROVE  [Deq!Next]_(Deq!dequeVars)
<1>0. BcInv /\ BcInv'
  BY StackStep DEF StackInv
<1>1. ASSUME NEW del \in BOOLEAN, NewCollection(del) PROVE Deq!New
  <2>1. ~exists /\ exists' /\ Contents' = <<>> /\ dest' = None
    BY <1>0, <1>1, StepNew DEF NewCollection
  <2> QED
    BY <2>1 DEF Deq!New
<1>2. ASSUME DeleteCollection PROVE Deq!Delete
  <2>1. exists /\ ~exists' /\ dest' = None
    BY <1>2 DEF DeleteCollection
  <2> QED
    BY <1>0, <2>1, HeldIsSeq DEF Deq!Delete, Held
<1>3. ASSUME NEW v \in Cell, PushBack(v) PROVE Deq!PushBack(v)
  <2>1. exists /\ exists' /\ dest' = None
    BY <1>3 DEF PushBack
  <2>2. Contents \in Seq(Cell) /\ Held # None
    BY <1>0, <2>1, HeldIsSeq
  <2>3. Contents' = Contents \o <<v>>
    BY <1>0, <1>3, StepPushBack DEF AtBack
  <2>4. Contents' = Append(Contents, v)
    BY <2>2, <2>3, TakeLast
  <2> QED
    BY <2>1, <2>2, <2>4 DEF Deq!PushBack, Held
<1>4. ASSUME NEW v \in Cell, PushFront(v) PROVE Deq!PushFront(v)
  <2>1. exists /\ exists' /\ dest' = None
    BY <1>4 DEF PushFront
  <2>2. Held # None
    BY <1>0, <2>1, HeldIsSeq
  <2>3. Contents' = <<v>> \o Contents
    BY <1>0, <1>4, StepPushFront DEF AtFront
  <2> QED
    BY <2>1, <2>2, <2>3 DEF Deq!PushFront, Held
<1>5. ASSUME PopBack PROVE Deq!PopBack
  <2>1. exists /\ exists'
    BY <1>5 DEF PopBack
  <2>2. Held # None
    BY <1>0, <2>1, HeldIsSeq
  <2>3. Contents = Contents' \o <<dest'>> /\ dest' \in Cell
    BY <1>0, <1>5, StepPopBack DEF AtBack
  <2>4. Contents' \in Seq(Cell)
    BY <1>0, <2>1, HeldIsSeqAfter
  <2>5. Contents # <<>> /\ Contents' = SubSeq(Contents, 1, Len(Contents) - 1) /\ dest' = Contents[Len(Contents)]
    BY <2>3, <2>4, TakeLast
  <2> QED
    BY <2>1, <2>2, <2>5 DEF Deq!PopBack, Held
<1>6. ASSUME PopFront PROVE Deq!PopFront
  <2>1. exists /\ exists'
    BY <1>6 DEF PopFront
  <2>2. Held # None
    BY <1>0, <2>1, HeldIsSeq
  <2>3. Contents = <<dest'>> \o Contents' /\ dest' \in Cell
    BY <1>0, <1>6, StepPopFront DEF AtFront
  <2>4. Contents' \in Seq(Cell)
    BY <1>0, <2>1, HeldIsSeqAfter
  <2>5. Contents # <<>> /\ Contents' = Tail(Contents) /\ dest' = Head(Contents)
    BY <2>3, <2>4, TakeFirst
  <2> QED
    BY <2>1, <2>2, <2>5 DEF Deq!PopFront, Held
<1>7. ASSUME UNCHANGED bcVars PROVE UNCHANGED Deq!dequeVars
  <2>1. Contents' = Contents /\ exists' = exists /\ dest' = dest
    BY <1>0, <1>7, BcStutters DEF bcVars
  <2> QED
    BY <2>1 DEF Deq!dequeVars
<1>8. CASE StackCall
  BY <1>1, <1>2, <1>3, <1>4, <1>5, <1>6, <1>8 DEF StackCall, Deq!Next
<1>9. CASE PushRoot
  <2>1. CASE rootSet[cursor].allocated
    <3>1. rootSet[cursor].word \in Cell /\ PushBack(rootSet[cursor].word)
      BY <1>9, <2>1, StepPushRoot DEF PushRoot
    <3> QED
      BY <1>3, <3>1 DEF Deq!Next
  <2>2. CASE ~rootSet[cursor].allocated
    BY <1>7, <1>9, <2>2 DEF PushRoot
  <2> QED
    BY <2>1, <2>2
<1>10. CASE RootCall \/ BeginPush \/ LockStack \/ EndPush \/ UNCHANGED vars
  BY <1>7, <1>10 DEF RootCall, BeginPush, LockStack, EndPush, vars
<1> QED
  BY <1>8, <1>9, <1>10 DEF Next

\* For any number and size of tables, with delete_empty_tables and without, the
\* broken collection is the deque of data.h: bc_push_back, bc_push_front,
\* bc_pop_back and bc_pop_front do at either end what they say, across the
\* tables that are allocated, left behind or freed on the way, and a pop writes
\* to its destination the element it takes.
THEOREM CollectionIsDeque == Spec => ImplementsDeque
<1>1. Init => StackInv /\ Deq!Init
  BY InitStack DEF Init, BcInit, Deq!Init
<1>2. StackInv /\ [Next]_vars => StackInv' /\ [Deq!Next]_(Deq!dequeVars)
  BY StackStep, DequeStep
<1> QED
  BY <1>1, <1>2, PTL DEF Spec, ImplementsDeque, Deq!Spec
=============================================================================
