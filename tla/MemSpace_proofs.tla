-------------------------- MODULE MemSpace_proofs --------------------------
(***************************************************************************)
(* Proofs about the memory space.  The argument is who owns an address of  *)
(* the book: a caller, the garbage ms_filter is to find, the call that     *)
(* makes the object, or the call that frees it (OwnedOnce).  Nobody else   *)
(* gets near it: the maker has its lock until its header is true           *)
(* (LocksAreOwned, HeadersAreKept), and remove_stack has each address of   *)
(* the garbage once (SweepIsSound).  A block is on the list or in the      *)
(* hands of the one call that made it (ListIsTrue).                        *)
(***************************************************************************)
EXTENDS MemSpace, FiniteSetTheorems, SequenceTheorems, TLAPS

\* The places of ms_malloc_p where it has an object nobody else has, and those of
\* ms_free where it has one nobody else may use.
Making == {"header", "new header", "add block"}
Freeing == {"read header", "free"}
Filtering == {"filter", "pop"} \cup Freeing

ShapeOK ==
  /\ mbList \in Seq(Blocks) /\ mbCap \in Nat /\ mbCap >= 1
  /\ room \in [Blocks -> Nat]
  /\ place \in [Vaddrs -> Blocks \cup {Null}]
  /\ header \in [Vaddrs -> Blocks \cup {Null}]
  /\ writer \in [Vaddrs -> Threads \cup {Nobody}]
  /\ readers \in [Vaddrs -> SUBSET Threads]
  /\ handles \subseteq Vaddrs /\ garbage \subseteq Vaddrs
  /\ pc \in [Threads -> {"idle", "throw", "new block", "crashed"} \cup Making \cup Filtering]
  /\ want \in [Threads -> Nat]
  /\ hold \in [Threads -> BOOLEAN]
  /\ mb \in [Threads -> Blocks \cup {Null}]
  /\ arg \in [Threads -> Vaddrs \cup {Null}]
  /\ sweeper \in Threads \cup {Nobody}
  /\ cell \in Nat
  /\ removeStack \in Seq(Vaddrs)

\* An object in the book has one owner: a caller, ms_filter's predicate, or the
\* call that makes or frees it.
OwnedOnce ==
  /\ handles \cap garbage = {}
  /\ \A v \in handles \cup garbage : place[v] # Null
  /\ \A t \in Threads : pc[t] \in Making \cup Freeing =>
       /\ arg[t] \in Vaddrs /\ arg[t] \notin handles /\ place[arg[t]] # Null
       /\ arg[t] \in garbage <=> t = sweeper
       /\ \A u \in Threads : pc[u] \in Making \cup Freeing /\ arg[u] = arg[t] => u = t

\* Nobody but its maker has a lock on an object that no caller has.
LocksAreOwned ==
  /\ \A v \in Vaddrs : writer[v] # Nobody => readers[v] = {}
  /\ \A v \in Vaddrs \ handles :
       /\ readers[v] = {}
       /\ writer[v] # Nobody => pc[writer[v]] \in Making /\ arg[writer[v]] = v

\* The header of an object is true, but for the call that has not written it
\* yet and holds its lock.
HeadersAreKept ==
  /\ \A v \in Vaddrs : header[v] # place[v] =>
       writer[v] # Nobody /\ pc[writer[v]] \in {"header", "new header"} /\ arg[writer[v]] = v
  /\ \A t \in Threads : pc[t] \in {"header", "new header"} =>
       writer[arg[t]] = t /\ mb[t] = place[arg[t]]
  /\ \A t \in Threads : pc[t] = "free" => mb[t] = place[arg[t]]

\* remove_stack has garbage, each address once, in the order of the walk.
SweepIsSound ==
  /\ \A t \in Threads : pc[t] \in {"filter", "pop"} => sweeper = t
  /\ sweeper # Nobody => pc[sweeper] \in Filtering
  /\ sweeper = Nobody => removeStack = <<>>
  /\ \A i \in 1..Len(removeStack) : removeStack[i] \in garbage
  /\ \A i, j \in 1..Len(removeStack) : i < j => removeStack[i] < removeStack[j]
  /\ \A i \in 1..Len(removeStack) :
       /\ sweeper # Nobody /\ pc[sweeper] = "filter" => removeStack[i] < cell
       /\ sweeper # Nobody /\ pc[sweeper] \in Freeing => removeStack[i] # arg[sweeper]

Filling(t) == pc[t] \in {"new header", "add block"}

\* A block that is made is on the list, once, or one call is going to put it there.
ListIsTrue ==
  /\ Len(mbList) <= mbCap
  /\ \A i \in 1..Len(mbList) : room[mbList[i]] # 0
  /\ \A i, j \in 1..Len(mbList) : mbList[i] = mbList[j] => i = j
  /\ \A t \in Threads : Filling(t) =>
       /\ mb[t] \in Blocks /\ room[mb[t]] # 0
       /\ \A i \in 1..Len(mbList) : mbList[i] # mb[t]
       /\ \A u \in Threads : Filling(u) /\ mb[u] = mb[t] => u = t
  /\ \A b \in Blocks : room[b] # 0 =>
       (\E i \in 1..Len(mbList) : mbList[i] = b) \/ (\E t \in Threads : Filling(t) /\ mb[t] = b)
  /\ \A v \in Vaddrs : place[v] # Null => room[place[v]] # 0
  /\ \A t \in Threads : pc[t] # "crashed"

SpaceInv ==
  /\ ShapeOK /\ OwnedOnce /\ LocksAreOwned /\ HeadersAreKept /\ SweepIsSound /\ ListIsTrue
-----------------------------------------------------------------------------
LEMMA NumbersAndNames ==
  /\ Blocks \subseteq Nat /\ Vaddrs \subseteq Nat
  /\ Null \notin Blocks /\ Null \notin Vaddrs /\ Nobody \notin Threads
<1>1. Cardinality(Blocks) \in Nat /\ Cardinality(Vaddrs) \in Nat
  BY MemSpaceAssumption, FS_CardinalityType
<1>2. \A n \in Nat : 1..n \subseteq Nat
  OBVIOUS
<1> QED
  BY <1>1, <1>2, MemSpaceAssumption

\* What ShapeOK says of single elements.
LEMMA Kinds ==
  ASSUME ShapeOK
  PROVE  /\ Len(mbList) \in Nat /\ Len(removeStack) \in Nat
         /\ \A i \in 1..Len(mbList) : mbList[i] \in Blocks
         /\ \A b \in ToSet(mbList) : \E i \in 1..Len(mbList) : b = mbList[i]
         /\ \A i \in 1..Len(removeStack) : removeStack[i] \in Vaddrs
         /\ \A v \in Vaddrs : place[v] \in Blocks \cup {Null} /\ writer[v] \in Threads \cup {Nobody}
         /\ \A t \in Threads : mb[t] \in Blocks \cup {Null} /\ arg[t] \in Vaddrs \cup {Null}
         /\ sweeper \in Threads \cup {Nobody}
<1>1. mbList \in Seq(Blocks) /\ removeStack \in Seq(Vaddrs)
  BY DEF ShapeOK
<1>2. Len(mbList) \in Nat /\ Len(removeStack) \in Nat
  BY <1>1
<1>3. \A i \in 1..Len(mbList) : mbList[i] \in Blocks
  BY <1>1
<1>4. \A i \in 1..Len(removeStack) : removeStack[i] \in Vaddrs
  BY <1>1
<1>5. \A b \in ToSet(mbList) : \E i \in 1..Len(mbList) : b = mbList[i]
  BY <1>1 DEF ToSet
<1> QED
  BY <1>2, <1>3, <1>4, <1>5 DEF ShapeOK

\* What keeps the list true: a step that leaves the blocks alone, places nothing
\* new and starts or ends no filling.
LEMMA ListFrame ==
  ASSUME ListIsTrue,
         UNCHANGED <<mbList, mbCap, room>>,
         \A v \in Vaddrs : place'[v] = place[v] \/ place'[v] = Null,
         \A u \in Threads : /\ Filling(u)' <=> Filling(u)
                            /\ Filling(u) => mb'[u] = mb[u]
                            /\ pc'[u] # "crashed" \/ pc'[u] = pc[u]
  PROVE  ListIsTrue'
<1>1. /\ \A u \in Threads : Filling(u)' <=> Filling(u)
      /\ \A u \in Threads : Filling(u) => mb'[u] = mb[u]
      /\ \A u \in Threads : pc'[u] # "crashed" \/ pc'[u] = pc[u]
  OBVIOUS
<1> HIDE DEF Filling
<1>2. \A u \in Threads : Filling(u)' =>
        /\ mb'[u] \in Blocks /\ room'[mb'[u]] # 0
        /\ \A i \in 1..Len(mbList') : mbList'[i] # mb'[u]
        /\ \A w \in Threads : Filling(w)' /\ mb'[w] = mb'[u] => w = u
  BY <1>1 DEF ListIsTrue
<1>3. \A b \in Blocks : room'[b] # 0 =>
        (\E i \in 1..Len(mbList') : mbList'[i] = b) \/ (\E u \in Threads : Filling(u)' /\ mb'[u] = b)
  BY <1>1 DEF ListIsTrue
<1>4. \A v \in Vaddrs : place'[v] # Null => room'[place'[v]] # 0
  BY DEF ListIsTrue
<1>5. \A u \in Threads : pc'[u] # "crashed"
  BY <1>1 DEF ListIsTrue
<1> QED
  BY <1>2, <1>3, <1>4, <1>5 DEF ListIsTrue

LEMMA ShapeOfPlaces ==
  ASSUME ShapeOK, NEW t \in Threads,
         NEW l \in {"idle", "throw", "new block", "crashed"} \cup Making \cup Filtering, Goto(t, l)
  PROVE  /\ pc' \in [Threads -> {"idle", "throw", "new block", "crashed"} \cup Making \cup Filtering]
         /\ \A u \in Threads : pc'[u] = IF u = t THEN l ELSE pc[u]
  BY DEF ShapeOK, Goto

LEMMA MallocCallStep ==
  ASSUME SpaceInv, NEW t \in Threads, NEW n \in Requests, NEW h \in BOOLEAN, MallocCall(t, n, h)
  PROVE  SpaceInv'
<1>0. ShapeOK /\ OwnedOnce /\ LocksAreOwned /\ HeadersAreKept /\ SweepIsSound /\ ListIsTrue
  BY DEF SpaceInv
<1>1. /\ pc[t] = "idle"
      /\ \A u \in Threads : pc'[u] = IF u = t THEN "throw" ELSE pc[u]
      /\ UNCHANGED <<mbList, mbCap, room, place, header, writer, readers, handles, garbage, mb, arg,
                     sweeper, cell, removeStack>>
  BY <1>0 DEF ShapeOK, MallocCall, Goto, listVars, bookVars, lockVars, callerVars, filterVars
<1>2. \A v \in Vaddrs : writer[v] \in Threads \cup {Nobody}
  BY <1>0 DEF ShapeOK
<1>3. ShapeOK'
  <2>1. pc' \in [Threads -> {"idle", "throw", "new block", "crashed"} \cup Making \cup Filtering]
    BY <1>0, ShapeOfPlaces DEF MallocCall
  <2>2. n + Header \in Nat
    BY MemSpaceAssumption
  <2>3. want' \in [Threads -> Nat] /\ hold' \in [Threads -> BOOLEAN]
    BY <1>0, <2>2 DEF ShapeOK, MallocCall
  <2> QED
    BY <1>0, <1>1, <2>1, <2>3 DEF ShapeOK
<1>4. OwnedOnce'
  BY <1>0, <1>1 DEF OwnedOnce, Making, Freeing
<1>5. LocksAreOwned'
  BY <1>0, <1>1, <1>2 DEF LocksAreOwned, Making
<1>6. HeadersAreKept'
  BY <1>0, <1>1, <1>2 DEF HeadersAreKept
<1>7. SweepIsSound'
  BY <1>0, <1>1 DEF SweepIsSound, ShapeOK, Filtering, Freeing
<1>8. ListIsTrue'
  BY <1>0, <1>1, ListFrame DEF Filling
<1> QED
  BY <1>3, <1>4, <1>5, <1>6, <1>7, <1>8 DEF SpaceInv

\* A new object has an address that nobody had, and its maker's lock until the
\* header is written.
Placed(t, v, b, l) ==
  /\ Place(t, v, b, t)
  /\ mb' = [mb EXCEPT ![t] = b]
  /\ Goto(t, l)
  /\ UNCHANGED <<callerVars, want, hold, filterVars>>

LEMMA PlacedFacts ==
  ASSUME ShapeOK, NEW t \in Threads, NEW v \in Vaddrs, NEW b \in Blocks, NEW l, Placed(t, v, b, l)
  PROVE  /\ place[v] = Null
         /\ \A u \in Threads : /\ pc'[u] = IF u = t THEN l ELSE pc[u]
                               /\ mb'[u] = IF u = t THEN b ELSE mb[u]
                               /\ arg'[u] = IF u = t THEN v ELSE arg[u]
         /\ \A w \in Vaddrs : /\ place'[w] = IF w = v THEN b ELSE place[w]
                              /\ writer'[w] = IF w = v THEN t ELSE writer[w]
         /\ UNCHANGED <<header, readers, handles, garbage, want, hold, sweeper, cell, removeStack>>
  BY DEF ShapeOK, Placed, Place, Goto, callerVars, filterVars

LEMMA PlacedShape ==
  ASSUME ShapeOK, NEW t \in Threads, NEW v \in Vaddrs, NEW b \in Blocks, NEW l, Placed(t, v, b, l),
         l \in {"header", "new header"},
         UNCHANGED <<mbList, mbCap>>, room' \in [Blocks -> Nat]
  PROVE  ShapeOK'
<1>1. pc' \in [Threads -> {"idle", "throw", "new block", "crashed"} \cup Making \cup Filtering]
  BY ShapeOfPlaces DEF Making, Placed
<1>2. /\ place' \in [Vaddrs -> Blocks \cup {Null}]
      /\ writer' \in [Vaddrs -> Threads \cup {Nobody}]
      /\ mb' \in [Threads -> Blocks \cup {Null}]
      /\ arg' \in [Threads -> Vaddrs \cup {Null}]
  BY DEF ShapeOK, Placed, Place
<1>3. UNCHANGED <<header, readers, handles, garbage, want, hold, sweeper, cell, removeStack>>
  BY PlacedFacts
<1> QED
  BY <1>1, <1>2, <1>3 DEF ShapeOK

LEMMA PlacedStep ==
  ASSUME SpaceInv, NEW t \in Threads, NEW v \in Vaddrs, NEW b \in Blocks, NEW l, Placed(t, v, b, l),
         l \in {"header", "new header"}, pc[t] \in {"throw", "new block"}
  PROVE  OwnedOnce' /\ LocksAreOwned' /\ HeadersAreKept' /\ SweepIsSound'
<1>0. ShapeOK /\ OwnedOnce /\ LocksAreOwned /\ HeadersAreKept /\ SweepIsSound
  BY DEF SpaceInv
<1>1. /\ place[v] = Null
      /\ \A u \in Threads : /\ pc'[u] = IF u = t THEN l ELSE pc[u]
                            /\ mb'[u] = IF u = t THEN b ELSE mb[u]
                            /\ arg'[u] = IF u = t THEN v ELSE arg[u]
      /\ \A w \in Vaddrs : /\ place'[w] = IF w = v THEN b ELSE place[w]
                           /\ writer'[w] = IF w = v THEN t ELSE writer[w]
      /\ UNCHANGED <<header, readers, handles, garbage, want, hold, sweeper, cell, removeStack>>
  BY <1>0, PlacedFacts
<1>2. /\ \A w \in Vaddrs : writer[w] \in Threads \cup {Nobody}
      /\ garbage \subseteq Vaddrs /\ handles \subseteq Vaddrs /\ sweeper \in Threads \cup {Nobody}
      /\ t # Nobody /\ b # Null
  BY <1>0, NumbersAndNames DEF ShapeOK
<1>3. t # sweeper
  BY <1>0, <1>2 DEF SweepIsSound, Filtering, Freeing
<1>4. /\ v \notin handles /\ v \notin garbage
      /\ \A u \in Threads : pc[u] \in Making \cup Freeing => arg[u] # v
  BY <1>0, <1>1 DEF OwnedOnce
<1>5. OwnedOnce'
  <2>1. handles' \cap garbage' = {} /\ \A w \in handles' \cup garbage' : place'[w] # Null
    BY <1>0, <1>1, <1>2 DEF OwnedOnce
  <2>2. ASSUME NEW u \in Threads, pc'[u] \in Making \cup Freeing
        PROVE  /\ arg'[u] \in Vaddrs /\ arg'[u] \notin handles' /\ place'[arg'[u]] # Null
               /\ arg'[u] \in garbage' <=> u = sweeper'
               /\ \A w \in Threads : pc'[w] \in Making \cup Freeing /\ arg'[w] = arg'[u] => w = u
    <3>1. CASE u = t
      BY <1>1, <1>2, <1>3, <1>4, <3>1
    <3>2. CASE u # t
      <4>1. pc[u] \in Making \cup Freeing /\ arg'[u] = arg[u] /\ arg[u] # v
        BY <1>1, <1>4, <2>2, <3>2
      <4>2. /\ arg[u] \in Vaddrs /\ arg[u] \notin handles /\ place[arg[u]] # Null
            /\ arg[u] \in garbage <=> u = sweeper
            /\ \A w \in Threads : pc[w] \in Making \cup Freeing /\ arg[w] = arg[u] => w = u
        BY <1>0, <4>1 DEF OwnedOnce
      <4>3. \A w \in Threads : pc'[w] \in Making \cup Freeing /\ arg'[w] = arg'[u] => w = u
        BY <1>1, <4>1, <4>2
      <4> QED
        BY <1>1, <1>2, <4>1, <4>2, <4>3, <3>2
    <3> QED
      BY <3>1, <3>2
  <2> QED
    BY <2>1, <2>2 DEF OwnedOnce
<1>6. LocksAreOwned'
  <2>1. readers[v] = {}
    BY <1>0, <1>4 DEF LocksAreOwned
  <2>2. \A w \in Vaddrs \ handles : w # v /\ writer[w] # Nobody => writer[w] # t
    BY <1>0 DEF LocksAreOwned, Making
  <2>3. ASSUME NEW w \in Vaddrs
        PROVE  writer'[w] # Nobody => readers'[w] = {}
    BY <1>0, <1>1, <2>1 DEF LocksAreOwned
  <2>4. ASSUME NEW w \in Vaddrs \ handles'
        PROVE  /\ readers'[w] = {}
               /\ writer'[w] # Nobody => pc'[writer'[w]] \in Making /\ arg'[writer'[w]] = w
    <3>1. w \in Vaddrs \ handles
      BY <1>1
    <3>2. CASE w = v
      BY <1>1, <1>2, <2>1, <3>2 DEF Making
    <3>3. CASE w # v
      <4>1. writer'[w] = writer[w] /\ writer[w] # t
        BY <1>1, <1>2, <2>2, <3>1, <3>3
      <4>2. /\ readers[w] = {}
            /\ writer[w] # Nobody => pc[writer[w]] \in Making /\ arg[writer[w]] = w
        BY <1>0, <3>1 DEF LocksAreOwned
      <4> QED
        BY <1>1, <1>2, <4>1, <4>2
    <3> QED
      BY <3>2, <3>3
  <2> QED
    BY <2>3, <2>4 DEF LocksAreOwned
<1>7. HeadersAreKept'
  <2>1. \A u \in Threads : pc[u] \in {"header", "new header", "free"} => arg[u] \in Vaddrs /\ arg[u] # v
    BY <1>0, <1>4 DEF OwnedOnce, Making, Freeing
  <2>2. ASSUME NEW w \in Vaddrs, header'[w] # place'[w]
        PROVE  writer'[w] # Nobody /\ pc'[writer'[w]] \in {"header", "new header"} /\ arg'[writer'[w]] = w
    <3>1. CASE w = v
      BY <1>1, <1>2, <3>1
    <3>2. CASE w # v
      <4>1. writer[w] # Nobody /\ pc[writer[w]] \in {"header", "new header"} /\ arg[writer[w]] = w
        BY <1>0, <1>1, <2>2, <3>2 DEF HeadersAreKept
      <4>2. writer[w] \in Threads /\ writer[w] # t /\ writer'[w] = writer[w]
        BY <1>1, <1>2, <3>2, <4>1
      <4> QED
        BY <1>1, <4>1, <4>2
    <3> QED
      BY <3>1, <3>2
  <2>3. ASSUME NEW u \in Threads, pc'[u] \in {"header", "new header"}
        PROVE  writer'[arg'[u]] = u /\ mb'[u] = place'[arg'[u]]
    <3>1. CASE u = t
      BY <1>1, <3>1
    <3>2. CASE u # t
      <4>1. pc[u] \in {"header", "new header"} /\ arg'[u] = arg[u] /\ mb'[u] = mb[u]
        BY <1>1, <2>3, <3>2
      <4>2. writer[arg[u]] = u /\ mb[u] = place[arg[u]]
        BY <1>0, <4>1 DEF HeadersAreKept
      <4>3. arg[u] \in Vaddrs /\ arg[u] # v
        BY <2>1, <4>1
      <4> QED
        BY <1>1, <4>1, <4>2, <4>3
    <3> QED
      BY <3>1, <3>2
  <2>4. ASSUME NEW u \in Threads, pc'[u] = "free"
        PROVE  mb'[u] = place'[arg'[u]]
    <3>1. u # t /\ pc[u] = "free" /\ arg'[u] = arg[u] /\ mb'[u] = mb[u]
      BY <1>1, <2>4
    <3>2. mb[u] = place[arg[u]] /\ arg[u] \in Vaddrs /\ arg[u] # v
      BY <1>0, <2>1, <3>1 DEF HeadersAreKept
    <3> QED
      BY <1>1, <3>1, <3>2
  <2> QED
    BY <2>2, <2>3, <2>4 DEF HeadersAreKept
<1>8. SweepIsSound'
  BY <1>0, <1>1, <1>2, <1>3 DEF SweepIsSound, Filtering, Freeing
<1> QED
  BY <1>5, <1>6, <1>7, <1>8

LEMMA ThrowStep ==
  ASSUME SpaceInv, NEW t \in Threads, Throw(t)
  PROVE  SpaceInv'
<1>0. ShapeOK /\ OwnedOnce /\ LocksAreOwned /\ HeadersAreKept /\ SweepIsSound /\ ListIsTrue
  BY DEF SpaceInv
<1>1. pc[t] = "throw" /\ UNCHANGED <<mbList, mbCap, room>>
      /\ UNCHANGED <<callerVars, want, hold, filterVars>>
  BY DEF Throw, listVars
<1>2. PICK b \in ToSet(mbList) :
        \/ /\ mb' = [mb EXCEPT ![t] = b]
           /\ \E v \in Vaddrs : Place(t, v, b, t)
           /\ Goto(t, "header")
        \/ /\ Goto(t, IF throws[t] > 1 THEN "throw" ELSE "new block")
           /\ UNCHANGED <<bookVars, lockVars, mb, arg>>
  BY DEF Throw
<1>3. PICK i \in 1..Len(mbList) : b = mbList[i]
  BY <1>0, Kinds
<1>4. b \in Blocks /\ room[b] # 0
  BY <1>0, <1>3, Kinds DEF ListIsTrue
<1>5. ASSUME mb' = [mb EXCEPT ![t] = b], NEW v \in Vaddrs, Place(t, v, b, t), Goto(t, "header")
      PROVE  SpaceInv'
  <2> DEFINE l == "header"
  <2>0. pc[t] \in {"throw", "new block"} /\ l \in {"header", "new header"}
    BY <1>1
  <2>1. Placed(t, v, b, l)
    BY <1>1, <1>5 DEF Placed
  <2> HIDE DEF l
  <2>3. OwnedOnce' /\ LocksAreOwned' /\ HeadersAreKept' /\ SweepIsSound'
    BY <1>4, <2>0, <2>1, PlacedStep
  <2>4. ShapeOK'
    <3>1. room' \in [Blocks -> Nat]
      BY <1>0, <1>1 DEF ShapeOK
    <3> QED
      BY <1>0, <1>1, <1>4, <2>0, <2>1, <3>1, PlacedShape
  <2>5. /\ \A u \in Threads : pc'[u] = IF u = t THEN l ELSE pc[u]
        /\ \A u \in Threads : mb'[u] = IF u = t THEN b ELSE mb[u]
        /\ \A w \in Vaddrs : place'[w] = IF w = v THEN b ELSE place[w]
    BY <1>0, <1>4, <2>1, PlacedFacts
  <2>2. ListIsTrue'
    <3>1. \A u \in Threads : /\ Filling(u)' <=> Filling(u)
                             /\ Filling(u) => mb'[u] = mb[u]
                             /\ pc'[u] # "crashed" \/ pc'[u] = pc[u]
      BY <1>1, <2>5 DEF Filling, l
    <3>2. \A w \in Vaddrs : place'[w] # Null => room'[place'[w]] # 0
      BY <1>0, <1>1, <1>4, <2>5 DEF ListIsTrue
    <3>3. \A u \in Threads : Filling(u)' =>
            /\ mb'[u] \in Blocks /\ room'[mb'[u]] # 0
            /\ \A j \in 1..Len(mbList') : mbList'[j] # mb'[u]
            /\ \A w \in Threads : Filling(w)' /\ mb'[w] = mb'[u] => w = u
      BY <1>0, <1>1, <3>1 DEF ListIsTrue
    <3>4. \A c \in Blocks : room'[c] # 0 =>
            (\E j \in 1..Len(mbList') : mbList'[j] = c) \/ (\E u \in Threads : Filling(u)' /\ mb'[u] = c)
      BY <1>0, <1>1, <3>1 DEF ListIsTrue
    <3>5. \A u \in Threads : pc'[u] # "crashed"
      BY <1>0, <3>1 DEF ListIsTrue
    <3> QED
      BY <1>0, <1>1, <3>2, <3>3, <3>4, <3>5 DEF ListIsTrue
  <2> QED
    BY <2>2, <2>3, <2>4 DEF SpaceInv
<1>6. ASSUME Goto(t, IF throws[t] > 1 THEN "throw" ELSE "new block"),
             UNCHANGED <<bookVars, lockVars, mb, arg>>
      PROVE  SpaceInv'
  <2> DEFINE l == IF throws[t] > 1 THEN "throw" ELSE "new block"
  <2>1. /\ pc' \in [Threads -> {"idle", "throw", "new block", "crashed"} \cup Making \cup Filtering]
        /\ \A u \in Threads : pc'[u] = IF u = t THEN l ELSE pc[u]
    BY <1>0, <1>6, ShapeOfPlaces
  <2>2. l \in {"throw", "new block"}
    OBVIOUS
  <2>3. UNCHANGED <<mbList, mbCap, room, place, header, writer, readers, handles, garbage, want, hold,
                    mb, arg, sweeper, cell, removeStack>>
    BY <1>1, <1>6 DEF bookVars, lockVars, callerVars, filterVars
  <2> HIDE DEF l
  <2>4. ShapeOK'
    BY <1>0, <2>1, <2>3 DEF ShapeOK
  <2>5. \A v \in Vaddrs : writer[v] \in Threads \cup {Nobody}
    BY <1>0 DEF ShapeOK
  <2>6. OwnedOnce'
    BY <1>0, <1>1, <2>1, <2>2, <2>3 DEF OwnedOnce, Making, Freeing
  <2>7. LocksAreOwned'
    BY <1>0, <1>1, <2>1, <2>2, <2>3, <2>5 DEF LocksAreOwned, Making
  <2>8. HeadersAreKept'
    BY <1>0, <1>1, <2>1, <2>2, <2>3, <2>5 DEF HeadersAreKept
  <2>9. SweepIsSound'
    BY <1>0, <1>1, <2>1, <2>2, <2>3 DEF SweepIsSound, ShapeOK, Filtering, Freeing
  <2>10. ListIsTrue'
    BY <1>0, <1>1, <2>1, <2>2, <2>3, ListFrame DEF Filling
  <2> QED
    BY <2>4, <2>6, <2>7, <2>8, <2>9, <2>10 DEF SpaceInv
<1> QED
  BY <1>2, <1>5, <1>6

-----------------------------------------------------------------------------
\* A set of naturals has a least element, by the well-foundedness of the order
\* of finite sets: 0..k grows with k.
LEMMA LeastElement ==
  ASSUME NEW T, T \subseteq Nat, T # {}
  PROVE  \E m \in T : \A n \in T : m <= n
<1> DEFINE F == {0..k : k \in T}
<1> DEFINE R == StrictSubsetOrdering(Nat)
<1>1. F \subseteq FiniteSubsetsOf(Nat)
  <2> SUFFICES ASSUME NEW k \in T PROVE 0..k \in FiniteSubsetsOf(Nat)
    OBVIOUS
  <2>1. IsFiniteSet(0..k)
    BY FS_Interval
  <2> QED
    BY <2>1 DEF FiniteSubsetsOf
<1>2. F # {}
  OBVIOUS
<1>3. IsWellFoundedOn(R, FiniteSubsetsOf(Nat))
  BY FS_StrictSubsetOrderingWellFounded
<1> HIDE DEF F, R
<1>4. \E x \in F : \A y \in F : ~(<<y, x>> \in R)
  BY <1>1, <1>2, <1>3, WFMin
<1> USE DEF F
<1>5. PICK m \in T : \A y \in F : ~(<<y, 0..m>> \in R)
  BY <1>4
<1>6. ASSUME NEW n \in T, ~(m <= n) PROVE FALSE
  <2>1. ~(<<0..n, 0..m>> \in R)
    BY <1>5
  <2>2. n < m /\ n \in Nat /\ m \in Nat
    BY <1>6
  <2>3. 0..n \subseteq 0..m /\ 0..n # 0..m
    BY <2>2
  <2>4. 0..n \in SUBSET Nat /\ 0..m \in SUBSET Nat
    BY <2>2
  <2> QED
    BY <2>1, <2>3, <2>4 DEF R, StrictSubsetOrdering
<1> QED
  BY <1>5, <1>6

LEMMA MinIsElement ==
  ASSUME NEW T, T \subseteq Nat, T # {}
  PROVE  Min(T) \in T
<1>1. \E m \in T : \A n \in T : m <= n
  BY LeastElement
<1> QED
  BY <1>1 DEF Min

LEMMA MaxOfTwo ==
  ASSUME NEW m \in Nat, NEW n \in Nat
  PROVE  Max({m, n}) = IF m >= n THEN m ELSE n
<1> DEFINE p == IF m >= n THEN m ELSE n
<1>1. p \in {m, n} /\ p >= m /\ p >= n /\ p \in Nat
  OBVIOUS
<1>2. \A q \in {m, n} : (\A y \in {m, n} : q >= y) => q = p
  BY <1>1
<1> HIDE DEF p
<1>3. \A y \in {m, n} : p >= y
  BY <1>1
<1>4. p = CHOOSE x \in {m, n} : \A y \in {m, n} : x >= y
  BY <1>1, <1>2, <1>3
<1> QED
  BY <1>4 DEF Max, p

\* pad_num_bytes is never zero, and a larger request is never padded to less.
LEMMA Padding ==
  /\ \A n \in Nat : PadNumBytes(n) \in Nat /\ PadNumBytes(n) # 0
  /\ \A m, n \in Nat : m <= n => PadNumBytes(m) <= PadNumBytes(n)
<1>1. Pad \in Nat
  BY MemSpaceAssumption
<1>2. ASSUME NEW n \in Nat
      PROVE  PadNumBytes(n) = IF n + (n % 2) >= 2 THEN n + (n % 2) + Pad ELSE Pad + 2
  <2>1. n + (n % 2) + Pad \in Nat /\ Pad + 2 \in Nat
    BY <1>1
  <2>2. PadNumBytes(n) = IF n + (n % 2) + Pad >= Pad + 2 THEN n + (n % 2) + Pad ELSE Pad + 2
    BY <2>1, MaxOfTwo DEF PadNumBytes
  <2>3. n + (n % 2) + Pad >= Pad + 2 <=> n + (n % 2) >= 2
    BY <1>1
  <2> QED
    BY <2>2, <2>3
<1>3. ASSUME NEW n \in Nat
      PROVE  PadNumBytes(n) \in Nat /\ PadNumBytes(n) # 0
  <2>1. n % 2 \in Nat
    OBVIOUS
  <2> QED
    BY <1>1, <1>2, <2>1
<1>4. ASSUME NEW m \in Nat, NEW n \in Nat, m <= n
      PROVE  PadNumBytes(m) <= PadNumBytes(n)
  <2>1. m % 2 \in Nat /\ n % 2 \in Nat /\ m + (m % 2) <= n + (n % 2)
    BY <1>4
  <2> DEFINE x == m + (m % 2)
             y == n + (n % 2)
  <2>2. x \in Nat /\ y \in Nat /\ x <= y
    BY <2>1
  <2>3. /\ PadNumBytes(m) = IF x >= 2 THEN x + Pad ELSE Pad + 2
        /\ PadNumBytes(n) = IF y >= 2 THEN y + Pad ELSE Pad + 2
    BY <1>2
  <2> HIDE DEF x, y
  <2> QED
    BY <1>1, <2>2, <2>3
<1> QED
  BY <1>3, <1>4

\* "this malloc should always work!" (ms.c:190): a new block has the room.
LEMMA NewBlockFits ==
  ASSUME NEW n \in Nat
  PROVE  /\ PadNumBytes(ReqBytes(n)) \in Nat /\ PadNumBytes(ReqBytes(n)) # 0
         /\ PadNumBytes(n) <= PadNumBytes(ReqBytes(n))
<1>1. MbMinBytes \in Nat
  BY MemSpaceAssumption
<1>2. ReqBytes(n) \in Nat /\ n <= ReqBytes(n)
  BY <1>1, MaxOfTwo DEF ReqBytes
<1> QED
  BY <1>2, Padding

LEMMA NewBlockStep ==
  ASSUME SpaceInv, NEW t \in Threads, NewBlock(t)
  PROVE  SpaceInv'
<1>0. ShapeOK /\ OwnedOnce /\ LocksAreOwned /\ HeadersAreKept /\ SweepIsSound /\ ListIsTrue
  BY DEF SpaceInv
<1> DEFINE b == Min(Unmade)
           bytes == PadNumBytes(ReqBytes(want[t]))
           l == "new header"
<1>1. Unmade \subseteq Nat /\ Unmade # {}
  BY NumbersAndNames DEF Unmade, NewBlock
<1>2. b \in Blocks /\ room[b] = 0
  <2>1. b \in Unmade
    BY <1>1, MinIsElement
  <2> QED
    BY <2>1 DEF Unmade
<1>3. bytes \in Nat /\ bytes # 0 /\ PadNumBytes(want[t]) <= bytes
  <2>1. want[t] \in Nat
    BY <1>0 DEF ShapeOK
  <2> QED
    BY <2>1, NewBlockFits
<1>4. /\ pc[t] = "new block"
      /\ room' = [room EXCEPT ![b] = bytes]
      /\ mb' = [mb EXCEPT ![t] = b]
      /\ \E v \in Vaddrs : Place(t, v, b, t)
      /\ Goto(t, l)
      /\ UNCHANGED <<mbList, mbCap>> /\ UNCHANGED <<callerVars, want, hold, filterVars>>
  <2>1. Goto(t, IF PadNumBytes(want[t]) <= bytes THEN "new header" ELSE "crashed")
    BY DEF NewBlock
  <2>2. Goto(t, l)
    BY <1>3, <2>1
  <2> QED
    BY <2>2 DEF NewBlock, listVars
<1> HIDE DEF b, bytes
<1>5. PICK v \in Vaddrs : Place(t, v, b, t)
  BY <1>4
<1>6. pc[t] \in {"throw", "new block"} /\ l \in {"header", "new header"} /\ Placed(t, v, b, l)
  BY <1>4, <1>5 DEF Placed
<1>7. ShapeOK'
  <2>1. room' \in [Blocks -> Nat]
    BY <1>0, <1>3, <1>4 DEF ShapeOK
  <2> HIDE DEF l
  <2> QED
    BY <1>0, <1>2, <1>4, <1>6, <2>1, PlacedShape
<1>9. OwnedOnce' /\ LocksAreOwned' /\ HeadersAreKept' /\ SweepIsSound'
  <2> HIDE DEF l
  <2> QED
    BY <1>2, <1>6, PlacedStep
<1>10. /\ \A u \in Threads : pc'[u] = IF u = t THEN l ELSE pc[u]
       /\ \A u \in Threads : mb'[u] = IF u = t THEN b ELSE mb[u]
       /\ \A w \in Vaddrs : place'[w] = IF w = v THEN b ELSE place[w]
  <2> HIDE DEF l
  <2>1. \A u \in Threads : /\ pc'[u] = IF u = t THEN l ELSE pc[u]
                           /\ mb'[u] = IF u = t THEN b ELSE mb[u]
                           /\ arg'[u] = IF u = t THEN v ELSE arg[u]
    BY <1>0, <1>2, <1>6, PlacedFacts
  <2>2. \A w \in Vaddrs : /\ place'[w] = IF w = v THEN b ELSE place[w]
                          /\ writer'[w] = IF w = v THEN t ELSE writer[w]
    BY <1>0, <1>2, <1>6, PlacedFacts
  <2> QED
    BY <2>1, <2>2
<1>8. ListIsTrue'
  <2>1. \A c \in Blocks : room'[c] = IF c = b THEN bytes ELSE room[c]
    BY <1>0, <1>4 DEF ShapeOK
  <2>2. \A i \in 1..Len(mbList) : mbList[i] \in Blocks /\ mbList[i] # b /\ room[mbList[i]] # 0
    BY <1>0, <1>2, Kinds DEF ListIsTrue
  <2>3. \A u \in Threads : /\ Filling(u)' <=> Filling(u) \/ u = t
                           /\ Filling(u) => u # t /\ mb'[u] = mb[u] /\ mb[u] \in Blocks /\ mb[u] # b
    BY <1>0, <1>2, <1>4, <1>10 DEF Filling, ListIsTrue
  <2>4. mb'[t] = b
    BY <1>10
  <2>5. \A u \in Threads : Filling(u)' =>
          /\ mb'[u] \in Blocks /\ room'[mb'[u]] # 0
          /\ \A i \in 1..Len(mbList') : mbList'[i] # mb'[u]
          /\ \A w \in Threads : Filling(w)' /\ mb'[w] = mb'[u] => w = u
    <3> HIDE DEF l
    <3> SUFFICES ASSUME NEW u \in Threads, Filling(u)'
                 PROVE  /\ mb'[u] \in Blocks /\ room'[mb'[u]] # 0
                        /\ \A i \in 1..Len(mbList') : mbList'[i] # mb'[u]
                        /\ \A w \in Threads : Filling(w)' /\ mb'[w] = mb'[u] => w = u
      OBVIOUS
    <3>1. CASE u = t
      BY <1>2, <1>3, <1>4, <2>1, <2>2, <2>3, <2>4, <3>1
    <3>2. CASE u # t
      <4>1. /\ mb[u] \in Blocks /\ room[mb[u]] # 0
            /\ \A i \in 1..Len(mbList) : mbList[i] # mb[u]
            /\ \A w \in Threads : Filling(w) /\ mb[w] = mb[u] => w = u
        BY <1>0, <2>3, <3>2 DEF ListIsTrue
      <4>2. \A w \in Threads : Filling(w)' /\ mb'[w] = mb'[u] => w = u
        BY <2>3, <2>4, <3>2, <4>1
      <4> QED
        BY <1>4, <2>1, <2>3, <3>2, <4>1, <4>2
    <3> QED
      BY <3>1, <3>2
  <2>6. \A c \in Blocks : room'[c] # 0 =>
          (\E i \in 1..Len(mbList') : mbList'[i] = c) \/ (\E u \in Threads : Filling(u)' /\ mb'[u] = c)
    <3> SUFFICES ASSUME NEW c \in Blocks, room'[c] # 0, c # b
                 PROVE  (\E i \in 1..Len(mbList') : mbList'[i] = c)
                          \/ (\E u \in Threads : Filling(u)' /\ mb'[u] = c)
      BY <2>3, <2>4
    <3>1. (\E i \in 1..Len(mbList) : mbList[i] = c) \/ (\E u \in Threads : Filling(u) /\ mb[u] = c)
      BY <1>0, <2>1 DEF ListIsTrue
    <3> QED
      BY <1>4, <2>3, <3>1
  <2>7. \A w \in Vaddrs : place'[w] # Null => room'[place'[w]] # 0
    <3>1. \A w \in Vaddrs : place[w] # Null => place[w] \in Blocks /\ room[place[w]] # 0
      BY <1>0, Kinds DEF ListIsTrue
    <3> QED
      BY <1>2, <1>3, <1>10, <2>1, <3>1
  <2>8. \A u \in Threads : pc'[u] # "crashed"
    BY <1>0, <1>10 DEF ListIsTrue
  <2>9. \A i \in 1..Len(mbList') : room'[mbList'[i]] # 0
    BY <1>4, <2>1, <2>2
  <2>10. /\ Len(mbList') <= mbCap'
         /\ \A i, j \in 1..Len(mbList') : mbList'[i] = mbList'[j] => i = j
    BY <1>0, <1>4 DEF ListIsTrue
  <2> HIDE DEF l
  <2> QED
    BY <2>5, <2>6, <2>7, <2>8, <2>9, <2>10 DEF ListIsTrue
<1> QED
  BY <1>7, <1>8, <1>9 DEF SpaceInv

-----------------------------------------------------------------------------
LEMMA WriteHeaderStep ==
  ASSUME SpaceInv, NEW t \in Threads, WriteHeader(t)
  PROVE  SpaceInv'
<1>0. ShapeOK /\ OwnedOnce /\ LocksAreOwned /\ HeadersAreKept /\ SweepIsSound /\ ListIsTrue
  BY DEF SpaceInv
<1> DEFINE a == arg[t]
           l == IF pc[t] = "header" THEN "idle" ELSE "add block"
<1>1. /\ pc[t] \in {"header", "new header"}
      /\ UNCHANGED <<mbList, mbCap, room, place, readers, garbage, sweeper, cell, removeStack>>
  BY DEF WriteHeader, listVars, filterVars
<1>2. /\ a \in Vaddrs /\ a \notin handles /\ place[a] # Null /\ a \notin garbage
      /\ writer[a] = t /\ mb[t] = place[a] /\ t # sweeper /\ t # Nobody
      /\ \A u \in Threads : pc[u] \in Making \cup Freeing /\ arg[u] = a => u = t
  <2>1. pc[t] \in Making \cup Freeing
    BY <1>1 DEF Making
  <2>2. t # sweeper /\ t # Nobody
    BY <1>0, <1>1, NumbersAndNames DEF SweepIsSound, Filtering, Freeing
  <2> QED
    BY <1>0, <1>1, <2>1, <2>2 DEF OwnedOnce, HeadersAreKept
<1>3. \A u \in Threads : pc'[u] = IF u = t THEN l ELSE pc[u]
  <2>1. CASE pc[t] = "header"
    <3>1. Goto(t, "idle") /\ l = "idle"
      BY <2>1 DEF WriteHeader, Return
    <3> QED
      BY <1>0, <3>1, ShapeOfPlaces
  <2>2. CASE pc[t] # "header"
    BY <1>0, <2>2 DEF WriteHeader, Goto, ShapeOK
  <2> QED
    BY <2>1, <2>2
<1>4. /\ \A v \in Vaddrs : header'[v] = IF v = a THEN place[a] ELSE header[v]
      /\ \A v \in Vaddrs : writer'[v] = IF v = a /\ ~hold[t] THEN Nobody ELSE writer[v]
  BY <1>0, <1>2 DEF WriteHeader, ShapeOK
<1>5. /\ \A u \in Threads : u # t => arg'[u] = arg[u] /\ mb'[u] = mb[u]
      /\ pc[t] = "header" => handles' = handles \cup {a}
      /\ pc[t] = "new header" => handles' = handles /\ arg'[t] = a /\ mb'[t] = mb[t]
  BY <1>0, <1>1 DEF WriteHeader, Return, ShapeOK
<1>6. /\ \A v \in Vaddrs : writer[v] \in Threads \cup {Nobody}
      /\ l \in {"idle", "add block"} /\ (l = "idle" <=> pc[t] = "header")
  BY <1>0, <1>1, Kinds
<1>7. handles' \subseteq Vaddrs /\ \A v \in Vaddrs \ handles' : v \notin handles
  BY <1>0, <1>1, <1>2, <1>5 DEF ShapeOK
<1>8. ShapeOK'
  <2>1. pc' \in [Threads -> {"idle", "throw", "new block", "crashed"} \cup Making \cup Filtering]
    BY <1>0 DEF ShapeOK, WriteHeader, Return, Goto, Making
  <2>2. /\ header' \in [Vaddrs -> Blocks \cup {Null}]
        /\ writer' \in [Vaddrs -> Threads \cup {Nobody}]
    BY <1>0 DEF ShapeOK, WriteHeader
  <2>3. /\ mb' \in [Threads -> Blocks \cup {Null}]
        /\ arg' \in [Threads -> Vaddrs \cup {Null}]
        /\ want' \in [Threads -> Nat]
        /\ hold' \in [Threads -> BOOLEAN]
    <3>1. CASE pc[t] = "header"
      <4>1. Return(t)
        BY <3>1 DEF WriteHeader
      <4> QED
        BY <1>0, <4>1 DEF ShapeOK, Return
    <3>2. CASE pc[t] # "header"
      BY <1>0, <3>2 DEF ShapeOK, WriteHeader
    <3> QED
      BY <3>1, <3>2
  <2> QED
    BY <1>0, <1>1, <1>7, <2>1, <2>2, <2>3 DEF ShapeOK
<1> HIDE DEF a, l
<1>9. OwnedOnce'
  <2>1. handles' \cap garbage' = {} /\ \A v \in handles' \cup garbage' : place'[v] # Null
    BY <1>0, <1>1, <1>2, <1>5 DEF OwnedOnce
  <2>2. ASSUME NEW u \in Threads, pc'[u] \in Making \cup Freeing
        PROVE  /\ arg'[u] \in Vaddrs /\ arg'[u] \notin handles' /\ place'[arg'[u]] # Null
               /\ arg'[u] \in garbage' <=> u = sweeper'
               /\ \A w \in Threads : pc'[w] \in Making \cup Freeing /\ arg'[w] = arg'[u] => w = u
    <3>1. pc[u] \in Making \cup Freeing /\ arg'[u] = arg[u]
      BY <1>1, <1>3, <1>5, <1>6, <2>2 DEF Making, Freeing, a
    <3>2. /\ arg[u] \in Vaddrs /\ arg[u] \notin handles /\ place[arg[u]] # Null
          /\ arg[u] \in garbage <=> u = sweeper
          /\ \A w \in Threads : pc[w] \in Making \cup Freeing /\ arg[w] = arg[u] => w = u
      BY <1>0, <3>1 DEF OwnedOnce
    <3>3. \A w \in Threads : pc'[w] \in Making \cup Freeing => pc[w] \in Making \cup Freeing /\ arg'[w] = arg[w]
      BY <1>1, <1>3, <1>5, <1>6 DEF Making, Freeing, a
    <3>4. arg[u] \notin handles'
      <4>1. CASE u = t
        BY <1>1, <1>3, <1>5, <1>6, <2>2, <3>2, <4>1 DEF Making, Freeing
      <4>2. CASE u # t
        BY <1>1, <1>2, <1>5, <3>1, <3>2, <4>2
      <4> QED
        BY <4>1, <4>2
    <3> QED
      BY <1>1, <3>1, <3>2, <3>3, <3>4
  <2> QED
    BY <2>1, <2>2 DEF OwnedOnce
<1>10. LocksAreOwned'
  <2>1. \A v \in Vaddrs : writer'[v] # Nobody => readers'[v] = {}
    BY <1>0, <1>1, <1>4, ZenonT(30) DEF LocksAreOwned
  <2>2. ASSUME NEW v \in Vaddrs \ handles', writer'[v] # Nobody
        PROVE  pc'[writer'[v]] \in Making /\ arg'[writer'[v]] = v
    <3>1. writer'[v] = writer[v] /\ writer[v] # Nobody
      BY <1>4, <2>2
    <3>2. v \notin handles /\ writer[v] \in Threads /\ pc[writer[v]] \in Making /\ arg[writer[v]] = v
      BY <1>0, <1>6, <1>7, <3>1 DEF LocksAreOwned
    <3>3. CASE writer[v] = t
      <4>1. v = a
        BY <3>2, <3>3 DEF a
      <4>2. pc[t] = "new header"
        BY <1>1, <1>5, <4>1, <2>2
      <4> QED
        BY <1>3, <1>5, <1>6, <3>1, <3>3, <4>1, <4>2 DEF Making
    <3>4. CASE writer[v] # t
      BY <1>3, <1>5, <3>1, <3>2, <3>4
    <3> QED
      BY <3>3, <3>4
  <2>3. \A v \in Vaddrs \ handles' : readers'[v] = {}
    BY <1>0, <1>1, <1>7 DEF LocksAreOwned
  <2> QED
    BY <2>1, <2>2, <2>3 DEF LocksAreOwned
<1>11. HeadersAreKept'
  <2>1. ASSUME NEW v \in Vaddrs, header'[v] # place'[v]
        PROVE  writer'[v] # Nobody /\ pc'[writer'[v]] \in {"header", "new header"} /\ arg'[writer'[v]] = v
    <3>1. v # a /\ header[v] # place[v]
      BY <1>1, <1>4, <2>1
    <3>2. writer[v] # Nobody /\ pc[writer[v]] \in {"header", "new header"} /\ arg[writer[v]] = v
      BY <1>0, <3>1 DEF HeadersAreKept
    <3>3. writer[v] \in Threads /\ writer[v] # t
      BY <1>6, <3>1, <3>2 DEF a
    <3> QED
      BY <1>3, <1>4, <1>5, <3>1, <3>2, <3>3, ZenonT(30)
  <2>2. ASSUME NEW u \in Threads, pc'[u] \in {"header", "new header"}
        PROVE  writer'[arg'[u]] = u /\ mb'[u] = place'[arg'[u]]
    <3>1. u # t /\ pc[u] \in {"header", "new header"}
      BY <1>3, <1>6, <2>2
    <3>2. writer[arg[u]] = u /\ mb[u] = place[arg[u]]
      BY <1>0, <3>1 DEF HeadersAreKept
    <3>3. arg[u] \in Vaddrs /\ arg[u] # a
      BY <1>0, <1>2, <3>1 DEF OwnedOnce, Making
    <3> QED
      BY <1>1, <1>4, <1>5, <3>1, <3>2, <3>3
  <2>3. \A u \in Threads : pc'[u] = "free" => mb'[u] = place'[arg'[u]]
    <3> SUFFICES ASSUME NEW u \in Threads, pc'[u] = "free" PROVE mb'[u] = place'[arg'[u]]
      OBVIOUS
    <3>1. u # t /\ pc[u] = "free"
      BY <1>3, <1>6
    <3> QED
      BY <1>0, <1>1, <1>5, <3>1 DEF HeadersAreKept
  <2> QED
    BY <2>1, <2>2, <2>3 DEF HeadersAreKept
<1>12. SweepIsSound'
  <2>1. \A u \in Threads : u # t => arg'[u] = arg[u] /\ pc'[u] = pc[u]
    BY <1>3, <1>5
  <2>2. pc'[t] \notin Filtering
    BY <1>3, <1>6 DEF Filtering, Freeing
  <2>3. sweeper \in Threads \cup {Nobody}
    BY <1>0, Kinds
  <2> QED
    BY <1>0, <1>1, <1>2, <2>1, <2>2, <2>3 DEF SweepIsSound, Filtering, Freeing
<1>13. ListIsTrue'
  <2>1. \A u \in Threads : /\ Filling(u)' <=> Filling(u)
                           /\ Filling(u) => mb'[u] = mb[u]
                           /\ pc'[u] # "crashed" \/ pc'[u] = pc[u]
    BY <1>1, <1>3, <1>5, <1>6 DEF Filling
  <2> QED
    BY <1>0, <1>1, <2>1, ListFrame
<1> QED
  BY <1>8, <1>9, <1>10, <1>11, <1>12, <1>13 DEF SpaceInv

LEMMA AddBlockStep ==
  ASSUME SpaceInv, NEW t \in Threads, AddBlock(t)
  PROVE  SpaceInv'
<1>0. ShapeOK /\ OwnedOnce /\ LocksAreOwned /\ HeadersAreKept /\ SweepIsSound /\ ListIsTrue
  BY DEF SpaceInv
<1> DEFINE a == arg[t]
<1>1. /\ pc[t] = "add block"
      /\ UNCHANGED <<room, place, header, writer, readers, garbage, sweeper, cell, removeStack>>
      /\ handles' = handles \cup {a}
      /\ mbList' = Append(mbList, mb[t])
      /\ mbCap' = IF Len(mbList) = mbCap THEN 2 * mbCap ELSE mbCap
  BY DEF AddBlock, bookVars, lockVars, filterVars
<1>2. /\ a \in Vaddrs /\ a \notin handles /\ place[a] # Null /\ a \notin garbage
      /\ t # sweeper /\ t # Nobody
      /\ \A u \in Threads : pc[u] \in Making \cup Freeing /\ arg[u] = a => u = t
  <2>1. pc[t] \in Making \cup Freeing
    BY <1>1 DEF Making
  <2>2. t # sweeper /\ t # Nobody
    BY <1>0, <1>1, NumbersAndNames DEF SweepIsSound, Filtering, Freeing
  <2> QED
    BY <1>0, <1>1, <2>1, <2>2 DEF OwnedOnce, HeadersAreKept
<1>3. \A u \in Threads : /\ pc'[u] = IF u = t THEN "idle" ELSE pc[u]
                         /\ u # t => arg'[u] = arg[u] /\ mb'[u] = mb[u]
  BY <1>0, <1>1 DEF AddBlock, Return, Goto, ShapeOK
<1>4. /\ \A v \in Vaddrs : writer[v] \in Threads \cup {Nobody}
      /\ sweeper \in Threads \cup {Nobody}
  BY <1>0, Kinds
<1>5. /\ mb[t] \in Blocks /\ room[mb[t]] # 0
      /\ \A i \in 1..Len(mbList) : mbList[i] # mb[t]
      /\ \A u \in Threads : Filling(u) /\ mb[u] = mb[t] => u = t
  BY <1>0, <1>1 DEF ListIsTrue, Filling
<1>6. /\ Len(mbList) \in Nat /\ mbList' \in Seq(Blocks) /\ Len(mbList') = Len(mbList) + 1
      /\ \A i \in 1..Len(mbList') : mbList'[i] = IF i <= Len(mbList) THEN mbList[i] ELSE mb[t]
  <2>1. mbList \in Seq(Blocks)
    BY <1>0 DEF ShapeOK
  <2>2. Append(mbList, mb[t]) \in Seq(Blocks) /\ Len(Append(mbList, mb[t])) = Len(mbList) + 1 /\ Len(mbList) \in Nat
    BY <1>5, <2>1
  <2>3. \A i \in 1..(Len(mbList) + 1) : Append(mbList, mb[t])[i] = IF i <= Len(mbList) THEN mbList[i] ELSE mb[t]
    BY <1>5, <2>1
  <2> QED
    BY <1>1, <2>2, <2>3
<1>7. mbCap' \in Nat /\ mbCap' >= 1 /\ Len(mbList') <= mbCap'
  <2>1. mbCap \in Nat /\ mbCap >= 1 /\ Len(mbList) <= mbCap
    BY <1>0 DEF ShapeOK, ListIsTrue
  <2>2. CASE Len(mbList) = mbCap
    <3>1. mbCap' = 2 * mbCap
      BY <1>1, <2>2
    <3> QED
      BY <1>6, <2>1, <2>2, <3>1
  <2>3. CASE Len(mbList) # mbCap
    <3>1. mbCap' = mbCap
      BY <1>1, <2>3
    <3> QED
      BY <1>6, <2>1, <2>3, <3>1
  <2> QED
    BY <2>2, <2>3
<1>8. ShapeOK'
  <2>1. pc' \in [Threads -> {"idle", "throw", "new block", "crashed"} \cup Making \cup Filtering]
    BY <1>0 DEF ShapeOK, AddBlock, Return, Goto
  <2>2. /\ mb' \in [Threads -> Blocks \cup {Null}]
        /\ arg' \in [Threads -> Vaddrs \cup {Null}]
        /\ want' \in [Threads -> Nat]
        /\ hold' \in [Threads -> BOOLEAN]
    BY <1>0 DEF ShapeOK, AddBlock, Return
  <2> QED
    BY <1>0, <1>1, <1>2, <1>6, <1>7, <2>1, <2>2 DEF ShapeOK
<1> HIDE DEF a
<1>9. OwnedOnce'
  <2>1. handles' \cap garbage' = {} /\ \A v \in handles' \cup garbage' : place'[v] # Null
    BY <1>0, <1>1, <1>2 DEF OwnedOnce
  <2>2. ASSUME NEW u \in Threads, pc'[u] \in Making \cup Freeing
        PROVE  /\ arg'[u] \in Vaddrs /\ arg'[u] \notin handles' /\ place'[arg'[u]] # Null
               /\ arg'[u] \in garbage' <=> u = sweeper'
               /\ \A w \in Threads : pc'[w] \in Making \cup Freeing /\ arg'[w] = arg'[u] => w = u
    <3>1. \A w \in Threads : pc'[w] \in Making \cup Freeing =>
            w # t /\ pc[w] \in Making \cup Freeing /\ arg'[w] = arg[w]
      BY <1>3 DEF Making, Freeing
    <3>2. /\ arg[u] \in Vaddrs /\ arg[u] \notin handles /\ place[arg[u]] # Null
          /\ arg[u] \in garbage <=> u = sweeper
          /\ \A w \in Threads : pc[w] \in Making \cup Freeing /\ arg[w] = arg[u] => w = u
      BY <1>0, <2>2, <3>1 DEF OwnedOnce
    <3>3. arg[u] \notin handles'
      BY <1>1, <1>2, <2>2, <3>1, <3>2
    <3> QED
      BY <1>1, <2>2, <3>1, <3>2, <3>3
  <2> QED
    BY <2>1, <2>2 DEF OwnedOnce
<1>10. LocksAreOwned'
  <2>1. \A v \in Vaddrs : writer'[v] # Nobody => readers'[v] = {}
    BY <1>0, <1>1 DEF LocksAreOwned
  <2>2. ASSUME NEW v \in Vaddrs \ handles', writer'[v] # Nobody
        PROVE  pc'[writer'[v]] \in Making /\ arg'[writer'[v]] = v
    <3>1. v \notin handles /\ v # a /\ writer'[v] = writer[v] /\ writer[v] \in Threads
      BY <1>1, <1>4, <2>2
    <3>2. pc[writer[v]] \in Making /\ arg[writer[v]] = v
      BY <1>0, <1>1, <2>2, <3>1 DEF LocksAreOwned
    <3>3. writer[v] # t
      BY <3>1, <3>2 DEF a
    <3> QED
      BY <1>3, <3>1, <3>2, <3>3
  <2>3. \A v \in Vaddrs \ handles' : readers'[v] = {}
    BY <1>0, <1>1 DEF LocksAreOwned
  <2> QED
    BY <2>1, <2>2, <2>3 DEF LocksAreOwned
<1>11. HeadersAreKept'
  <2>1. ASSUME NEW v \in Vaddrs, header'[v] # place'[v]
        PROVE  writer'[v] # Nobody /\ pc'[writer'[v]] \in {"header", "new header"} /\ arg'[writer'[v]] = v
    <3>1. writer[v] # Nobody /\ pc[writer[v]] \in {"header", "new header"} /\ arg[writer[v]] = v
      BY <1>0, <1>1, <2>1 DEF HeadersAreKept
    <3>2. writer[v] \in Threads /\ writer[v] # t
      BY <1>1, <1>4, <3>1
    <3> QED
      BY <1>1, <1>3, <3>1, <3>2
  <2>2. \A u \in Threads : pc'[u] \in {"header", "new header"} =>
          writer'[arg'[u]] = u /\ mb'[u] = place'[arg'[u]]
    BY <1>0, <1>1, <1>3 DEF HeadersAreKept
  <2>3. \A u \in Threads : pc'[u] = "free" => mb'[u] = place'[arg'[u]]
    BY <1>0, <1>1, <1>3, ZenonT(30) DEF HeadersAreKept
  <2> QED
    BY <2>1, <2>2, <2>3 DEF HeadersAreKept
<1>12. SweepIsSound'
  BY <1>0, <1>1, <1>2, <1>3, <1>4 DEF SweepIsSound, Filtering, Freeing
<1>13. ListIsTrue'
  <2>1. \A u \in Threads : /\ Filling(u)' => Filling(u) /\ u # t
                           /\ Filling(u) /\ u # t => Filling(u)' /\ mb'[u] = mb[u]
                           /\ pc'[u] # "crashed" \/ pc'[u] = pc[u]
    BY <1>1, <1>3 DEF Filling
  <2>2. ASSUME NEW u \in Threads, Filling(u)'
        PROVE  /\ mb'[u] \in Blocks /\ room'[mb'[u]] # 0
               /\ \A i \in 1..Len(mbList') : mbList'[i] # mb'[u]
               /\ \A w \in Threads : Filling(w)' /\ mb'[w] = mb'[u] => w = u
    <3>1. Filling(u) /\ u # t /\ mb'[u] = mb[u] /\ mb[u] # mb[t]
      BY <1>5, <2>1, <2>2
    <3>2. /\ mb[u] \in Blocks /\ room[mb[u]] # 0
          /\ \A i \in 1..Len(mbList) : mbList[i] # mb[u]
          /\ \A w \in Threads : Filling(w) /\ mb[w] = mb[u] => w = u
      BY <1>0, <3>1 DEF ListIsTrue
    <3>3. \A i \in 1..Len(mbList') : mbList'[i] # mb[u]
      BY <1>6, <3>1, <3>2
    <3>4. \A w \in Threads : Filling(w)' /\ mb'[w] = mb[u] => w = u
      BY <2>1, <3>2
    <3> QED
      BY <1>1, <3>1, <3>2, <3>3, <3>4
  <2>3. ASSUME NEW b \in Blocks, room'[b] # 0
        PROVE  (\E i \in 1..Len(mbList') : mbList'[i] = b) \/ (\E u \in Threads : Filling(u)' /\ mb'[u] = b)
    <3>1. (\E i \in 1..Len(mbList) : mbList[i] = b) \/ (\E u \in Threads : Filling(u) /\ mb[u] = b)
      BY <1>0, <1>1, <2>3 DEF ListIsTrue
    <3>2. ASSUME NEW i \in 1..Len(mbList), mbList[i] = b
          PROVE  \E j \in 1..Len(mbList') : mbList'[j] = b
      <4>1. i \in 1..Len(mbList') /\ mbList'[i] = b
        BY <1>6, <3>2
      <4> QED
        BY <4>1
    <3>3. CASE b = mb[t]
      <4>1. Len(mbList') \in 1..Len(mbList') /\ mbList'[Len(mbList')] = b
        BY <1>6, <3>3
      <4> QED
        BY <4>1
    <3>4. CASE b # mb[t]
      BY <2>1, <3>1, <3>2, <3>4
    <3> QED
      BY <3>3, <3>4
  <2>4. \A i \in 1..Len(mbList') : room'[mbList'[i]] # 0
    <3> SUFFICES ASSUME NEW i \in 1..Len(mbList') PROVE room'[mbList'[i]] # 0
      OBVIOUS
    <3>1. CASE i <= Len(mbList)
      <4>1. i \in 1..Len(mbList) /\ mbList'[i] = mbList[i]
        BY <1>6, <3>1
      <4> QED
        BY <1>0, <1>1, <4>1 DEF ListIsTrue
    <3>2. CASE ~(i <= Len(mbList))
      BY <1>1, <1>5, <1>6, <3>2
    <3> QED
      BY <3>1, <3>2
  <2>5. \A i, j \in 1..Len(mbList') : mbList'[i] = mbList'[j] => i = j
    BY <1>0, <1>5, <1>6 DEF ListIsTrue
  <2>6. /\ \A v \in Vaddrs : place'[v] # Null => room'[place'[v]] # 0
        /\ \A u \in Threads : pc'[u] # "crashed"
    BY <1>0, <1>1, <2>1 DEF ListIsTrue
  <2> QED
    BY <1>7, <2>2, <2>3, <2>4, <2>5, <2>6 DEF ListIsTrue
<1> QED
  BY <1>8, <1>9, <1>10, <1>11, <1>12, <1>13 DEF SpaceInv

-----------------------------------------------------------------------------
\* The steps that place nothing, write no header and end no making.
LEMMA FreeCallStep ==
  ASSUME SpaceInv, NEW t \in Threads, NEW v \in Vaddrs, FreeCall(t, v)
  PROVE  SpaceInv'
<1>0. ShapeOK /\ OwnedOnce /\ LocksAreOwned /\ HeadersAreKept /\ SweepIsSound /\ ListIsTrue
  BY DEF SpaceInv
<1>1. /\ pc[t] = "idle" /\ v \in handles /\ writer[v] = Nobody /\ readers[v] = {}
      /\ handles' = handles \ {v}
      /\ UNCHANGED <<mbList, mbCap, room, place, header, writer, readers, garbage, want, hold, mb,
                     sweeper, cell, removeStack>>
  BY DEF FreeCall, WriteFree, listVars, bookVars, lockVars, filterVars
<1>2. \A u \in Threads : /\ pc'[u] = IF u = t THEN "read header" ELSE pc[u]
                         /\ arg'[u] = IF u = t THEN v ELSE arg[u]
  BY <1>0 DEF FreeCall, Goto, ShapeOK
<1>3. /\ \A w \in Vaddrs : writer[w] \in Threads \cup {Nobody}
      /\ sweeper \in Threads \cup {Nobody} /\ t # Nobody
  BY <1>0, Kinds, NumbersAndNames
<1>4. t # sweeper /\ v \notin garbage /\ place[v] # Null
  BY <1>0, <1>1, <1>3 DEF SweepIsSound, OwnedOnce, Filtering, Freeing
<1>5. ShapeOK'
  <2>1. pc' \in [Threads -> {"idle", "throw", "new block", "crashed"} \cup Making \cup Filtering]
    BY <1>0 DEF ShapeOK, FreeCall, Goto, Filtering, Freeing
  <2>2. arg' \in [Threads -> Vaddrs \cup {Null}]
    BY <1>0 DEF ShapeOK, FreeCall
  <2> QED
    BY <1>0, <1>1, <2>1, <2>2 DEF ShapeOK
<1>6. OwnedOnce'
  <2>1. \A u \in Threads : u # t /\ pc[u] \in Making \cup Freeing => arg[u] # v
    BY <1>0, <1>1 DEF OwnedOnce
  <2>2. ASSUME NEW u \in Threads, pc'[u] \in Making \cup Freeing
        PROVE  /\ arg'[u] \in Vaddrs /\ arg'[u] \notin handles' /\ place'[arg'[u]] # Null
               /\ arg'[u] \in garbage' <=> u = sweeper'
               /\ \A w \in Threads : pc'[w] \in Making \cup Freeing /\ arg'[w] = arg'[u] => w = u
    <3>1. CASE u = t
      BY <1>1, <1>2, <1>4, <2>1, <3>1
    <3>2. CASE u # t
      <4>1. pc[u] \in Making \cup Freeing /\ arg'[u] = arg[u] /\ arg[u] # v
        BY <1>2, <2>1, <2>2, <3>2
      <4>2. /\ arg[u] \in Vaddrs /\ arg[u] \notin handles /\ place[arg[u]] # Null
            /\ arg[u] \in garbage <=> u = sweeper
            /\ \A w \in Threads : pc[w] \in Making \cup Freeing /\ arg[w] = arg[u] => w = u
        BY <1>0, <4>1 DEF OwnedOnce
      <4>3. \A w \in Threads : pc'[w] \in Making \cup Freeing /\ arg'[w] = arg'[u] => w = u
        BY <1>2, <4>1, <4>2
      <4> QED
        BY <1>1, <4>1, <4>2, <4>3
    <3> QED
      BY <3>1, <3>2
  <2>3. handles' \cap garbage' = {} /\ \A w \in handles' \cup garbage' : place'[w] # Null
    BY <1>0, <1>1 DEF OwnedOnce
  <2> QED
    BY <2>2, <2>3 DEF OwnedOnce
<1>7. LocksAreOwned'
  <2>1. \A w \in Vaddrs : writer'[w] # Nobody => readers'[w] = {}
    BY <1>0, <1>1 DEF LocksAreOwned
  <2>2. ASSUME NEW w \in Vaddrs \ handles'
        PROVE  /\ readers'[w] = {}
               /\ writer'[w] # Nobody => pc'[writer'[w]] \in Making /\ arg'[writer'[w]] = w
    <3>1. CASE w = v
      BY <1>1, <3>1
    <3>2. CASE w # v
      <4>1. /\ readers[w] = {}
            /\ writer[w] # Nobody => pc[writer[w]] \in Making /\ arg[writer[w]] = w
        BY <1>0, <1>1, <3>2 DEF LocksAreOwned
      <4>2. writer[w] # Nobody => writer[w] \in Threads /\ writer[w] # t
        BY <1>1, <1>3, <4>1 DEF Making
      <4> QED
        BY <1>1, <1>2, <4>1, <4>2
    <3> QED
      BY <3>1, <3>2
  <2> QED
    BY <2>1, <2>2 DEF LocksAreOwned
<1>8. HeadersAreKept'
  <2>1. ASSUME NEW w \in Vaddrs, header'[w] # place'[w]
        PROVE  writer'[w] # Nobody /\ pc'[writer'[w]] \in {"header", "new header"} /\ arg'[writer'[w]] = w
    <3>1. writer[w] # Nobody /\ pc[writer[w]] \in {"header", "new header"} /\ arg[writer[w]] = w
      BY <1>0, <1>1, <2>1 DEF HeadersAreKept
    <3>2. writer[w] \in Threads /\ writer[w] # t
      BY <1>1, <1>3, <3>1
    <3> QED
      BY <1>1, <1>2, <3>1, <3>2
  <2>2. \A u \in Threads : /\ pc'[u] \in {"header", "new header"} =>
                                writer'[arg'[u]] = u /\ mb'[u] = place'[arg'[u]]
                           /\ pc'[u] = "free" => mb'[u] = place'[arg'[u]]
    BY <1>0, <1>1, <1>2, ZenonT(30) DEF HeadersAreKept
  <2> QED
    BY <2>1, <2>2 DEF HeadersAreKept
<1>9. SweepIsSound'
  BY <1>0, <1>1, <1>2, <1>3, <1>4 DEF SweepIsSound, Filtering, Freeing
<1>10. ListIsTrue'
  <2>1. \A u \in Threads : /\ Filling(u)' <=> Filling(u)
                           /\ Filling(u) => mb'[u] = mb[u]
                           /\ pc'[u] # "crashed" \/ pc'[u] = pc[u]
    BY <1>1, <1>2 DEF Filling
  <2> QED
    BY <1>0, <1>1, <2>1, ListFrame
<1> QED
  BY <1>5, <1>6, <1>7, <1>8, <1>9, <1>10 DEF SpaceInv

LEMMA ReadHeaderStep ==
  ASSUME SpaceInv, NEW t \in Threads, ReadHeader(t)
  PROVE  SpaceInv'
<1>0. ShapeOK /\ OwnedOnce /\ LocksAreOwned /\ HeadersAreKept /\ SweepIsSound /\ ListIsTrue
  BY DEF SpaceInv
<1>1. /\ pc[t] = "read header" /\ writer[arg[t]] = Nobody
      /\ UNCHANGED <<mbList, mbCap, room, place, header, writer, readers, handles, garbage, want, hold,
                     arg, sweeper, cell, removeStack>>
  BY DEF ReadHeader, listVars, bookVars, lockVars, callerVars, filterVars
<1>2. \A u \in Threads : /\ pc'[u] = IF u = t THEN "free" ELSE pc[u]
                         /\ mb'[u] = IF u = t THEN header[arg[t]] ELSE mb[u]
  BY <1>0 DEF ReadHeader, Goto, ShapeOK
<1>3. /\ \A w \in Vaddrs : writer[w] \in Threads \cup {Nobody}
      /\ sweeper \in Threads \cup {Nobody}
  BY <1>0, Kinds
<1>4. arg[t] \in Vaddrs /\ header[arg[t]] = place[arg[t]]
  <2>1. arg[t] \in Vaddrs
    BY <1>0, <1>1 DEF OwnedOnce, Freeing
  <2> QED
    BY <1>0, <1>1, <2>1 DEF HeadersAreKept
<1>5. ShapeOK'
  <2>1. pc' \in [Threads -> {"idle", "throw", "new block", "crashed"} \cup Making \cup Filtering]
    BY <1>0 DEF ShapeOK, ReadHeader, Goto, Filtering, Freeing
  <2>2. mb' \in [Threads -> Blocks \cup {Null}]
    BY <1>0, <1>4 DEF ShapeOK, ReadHeader
  <2> QED
    BY <1>0, <1>1, <2>1, <2>2 DEF ShapeOK
<1>6. OwnedOnce'
  <2>1. \A u \in Threads : pc'[u] \in Making \cup Freeing <=> pc[u] \in Making \cup Freeing
    BY <1>1, <1>2 DEF Making, Freeing
  <2> QED
    BY <1>0, <1>1, <2>1 DEF OwnedOnce
<1>7. LocksAreOwned'
  BY <1>0, <1>1, <1>2, <1>3 DEF LocksAreOwned, Making
<1>8. HeadersAreKept'
  <2>1. \A w \in Vaddrs : header'[w] # place'[w] =>
          writer'[w] # Nobody /\ pc'[writer'[w]] \in {"header", "new header"} /\ arg'[writer'[w]] = w
    BY <1>0, <1>1, <1>2, <1>3 DEF HeadersAreKept
  <2>2. \A u \in Threads : /\ pc'[u] \in {"header", "new header"} =>
                                writer'[arg'[u]] = u /\ mb'[u] = place'[arg'[u]]
                           /\ pc'[u] = "free" => mb'[u] = place'[arg'[u]]
    BY <1>0, <1>1, <1>2, <1>4, ZenonT(30) DEF HeadersAreKept
  <2> QED
    BY <2>1, <2>2 DEF HeadersAreKept
<1>9. SweepIsSound'
  BY <1>0, <1>1, <1>2, <1>3 DEF SweepIsSound, Filtering, Freeing
<1>10. ListIsTrue'
  <2>1. \A u \in Threads : /\ Filling(u)' <=> Filling(u)
                           /\ Filling(u) => mb'[u] = mb[u]
                           /\ pc'[u] # "crashed" \/ pc'[u] = pc[u]
    BY <1>1, <1>2 DEF Filling
  <2> QED
    BY <1>0, <1>1, <2>1, ListFrame
<1> QED
  BY <1>5, <1>6, <1>7, <1>8, <1>9, <1>10 DEF SpaceInv

LEMMA MbFreeStep ==
  ASSUME SpaceInv, NEW t \in Threads, MbFree(t)
  PROVE  SpaceInv'
<1>0. ShapeOK /\ OwnedOnce /\ LocksAreOwned /\ HeadersAreKept /\ SweepIsSound /\ ListIsTrue
  BY DEF SpaceInv
<1> DEFINE a == arg[t]
           l == IF sweeper = t THEN "pop" ELSE "idle"
<1>1. /\ pc[t] = "free" /\ writer[a] = Nobody /\ readers[a] = {}
      /\ garbage' = garbage \ {a}
      /\ UNCHANGED <<mbList, mbCap, room, writer, readers, handles, want, hold,
                     sweeper, cell, removeStack>>
  BY DEF MbFree, WriteFree, listVars, lockVars, filterVars
<1>2. /\ \A u \in Threads : pc'[u] = IF u = t THEN l ELSE pc[u]
      /\ \A u \in Threads : mb'[u] = IF u = t THEN Null ELSE mb[u]
      /\ \A u \in Threads : arg'[u] = IF u = t THEN Null ELSE arg[u]
      /\ \A w \in Vaddrs : place'[w] = IF w = a THEN Null ELSE place[w]
      /\ \A w \in Vaddrs : header'[w] = IF w = a THEN Null ELSE header[w]
  BY <1>0 DEF MbFree, Goto, ShapeOK
<1>3. /\ \A w \in Vaddrs : writer[w] \in Threads \cup {Nobody}
      /\ sweeper \in Threads \cup {Nobody} /\ t # Nobody
      /\ l \in {"pop", "idle"} /\ (l = "pop" <=> sweeper = t)
      /\ handles \subseteq Vaddrs /\ garbage \subseteq Vaddrs
  BY <1>0, Kinds, NumbersAndNames DEF ShapeOK
<1>4. /\ a \in Vaddrs /\ a \notin handles /\ (a \in garbage <=> t = sweeper)
      /\ \A u \in Threads : pc[u] \in Making \cup Freeing /\ arg[u] = a => u = t
  BY <1>0, <1>1 DEF OwnedOnce, Freeing
<1>5. ShapeOK'
  <2>1. pc' \in [Threads -> {"idle", "throw", "new block", "crashed"} \cup Making \cup Filtering]
    BY <1>0 DEF ShapeOK, MbFree, Goto, Filtering, Freeing
  <2>2. /\ mb' \in [Threads -> Blocks \cup {Null}]
        /\ arg' \in [Threads -> Vaddrs \cup {Null}]
        /\ place' \in [Vaddrs -> Blocks \cup {Null}]
        /\ header' \in [Vaddrs -> Blocks \cup {Null}]
    BY <1>0 DEF ShapeOK, MbFree
  <2> QED
    BY <1>0, <1>1, <2>1, <2>2 DEF ShapeOK
<1> HIDE DEF a, l
<1>6. OwnedOnce'
  <2>1. handles' \cap garbage' = {} /\ \A w \in handles' \cup garbage' : place'[w] # Null
    BY <1>0, <1>1, <1>2, <1>3, <1>4 DEF OwnedOnce
  <2>2. ASSUME NEW u \in Threads, pc'[u] \in Making \cup Freeing
        PROVE  /\ arg'[u] \in Vaddrs /\ arg'[u] \notin handles' /\ place'[arg'[u]] # Null
               /\ arg'[u] \in garbage' <=> u = sweeper'
               /\ \A w \in Threads : pc'[w] \in Making \cup Freeing /\ arg'[w] = arg'[u] => w = u
    <3>1. \A w \in Threads : pc'[w] \in Making \cup Freeing =>
            w # t /\ pc[w] \in Making \cup Freeing /\ arg'[w] = arg[w]
      BY <1>2, <1>3 DEF Making, Freeing
    <3>2. /\ arg[u] \in Vaddrs /\ arg[u] \notin handles /\ place[arg[u]] # Null
          /\ arg[u] \in garbage <=> u = sweeper
          /\ \A w \in Threads : pc[w] \in Making \cup Freeing /\ arg[w] = arg[u] => w = u
      BY <1>0, <2>2, <3>1 DEF OwnedOnce
    <3>3. u # t /\ arg'[u] = arg[u] /\ arg[u] # a
      BY <1>4, <2>2, <3>1
    <3>4. \A w \in Threads : pc'[w] \in Making \cup Freeing /\ arg'[w] = arg'[u] => w = u
      BY <3>1, <3>2, <3>3
    <3> QED
      BY <1>1, <1>2, <3>2, <3>3, <3>4
  <2> QED
    BY <2>1, <2>2 DEF OwnedOnce
<1>7. LocksAreOwned'
  <2>1. \A w \in Vaddrs : writer'[w] # Nobody => readers'[w] = {}
    BY <1>0, <1>1 DEF LocksAreOwned
  <2>2. ASSUME NEW w \in Vaddrs \ handles'
        PROVE  /\ readers'[w] = {}
               /\ writer'[w] # Nobody => pc'[writer'[w]] \in Making /\ arg'[writer'[w]] = w
    <3>1. /\ readers[w] = {}
          /\ writer[w] # Nobody => pc[writer[w]] \in Making /\ arg[writer[w]] = w
      BY <1>0, <1>1 DEF LocksAreOwned
    <3>2. writer[w] # Nobody => writer[w] \in Threads /\ writer[w] # t
      BY <1>1, <1>3, <3>1 DEF Making
    <3> QED
      BY <1>1, <1>2, <3>1, <3>2
  <2> QED
    BY <2>1, <2>2 DEF LocksAreOwned
<1>8. HeadersAreKept'
  <2>1. ASSUME NEW w \in Vaddrs, header'[w] # place'[w]
        PROVE  writer'[w] # Nobody /\ pc'[writer'[w]] \in {"header", "new header"} /\ arg'[writer'[w]] = w
    <3>1. w # a /\ header[w] # place[w]
      BY <1>2, <2>1
    <3>2. writer[w] # Nobody /\ pc[writer[w]] \in {"header", "new header"} /\ arg[writer[w]] = w
      BY <1>0, <3>1 DEF HeadersAreKept
    <3>3. writer[w] \in Threads /\ writer[w] # t
      BY <1>1, <1>3, <3>2
    <3> QED
      BY <1>1, <1>2, <3>2, <3>3
  <2>2. ASSUME NEW u \in Threads, pc'[u] \in {"header", "new header", "free"}
        PROVE  /\ u # t /\ pc[u] = pc'[u] /\ arg'[u] = arg[u] /\ mb'[u] = mb[u]
               /\ place'[arg[u]] = place[arg[u]]
    <3>1. u # t /\ pc[u] = pc'[u]
      BY <1>2, <1>3, <2>2
    <3>2. arg[u] \in Vaddrs /\ arg[u] # a
      BY <1>0, <1>4, <2>2, <3>1 DEF OwnedOnce, Making, Freeing
    <3> QED
      BY <1>2, <3>1, <3>2
  <2>3. \A u \in Threads : /\ pc'[u] \in {"header", "new header"} =>
                                writer'[arg'[u]] = u /\ mb'[u] = place'[arg'[u]]
                           /\ pc'[u] = "free" => mb'[u] = place'[arg'[u]]
    <3> SUFFICES ASSUME NEW u \in Threads, pc'[u] \in {"header", "new header", "free"}
                 PROVE  /\ pc'[u] # "free" => writer'[arg'[u]] = u
                        /\ mb'[u] = place'[arg'[u]]
      OBVIOUS
    <3>1. mb[u] = place[arg[u]] /\ (pc[u] # "free" => writer[arg[u]] = u)
      BY <1>0, <2>2, ZenonT(30) DEF HeadersAreKept
    <3> QED
      BY <1>1, <2>2, <3>1
  <2> QED
    BY <2>1, <2>3 DEF HeadersAreKept
<1>9. SweepIsSound'
  <2>1. \A u \in Threads : pc'[u] \in {"filter", "pop"} => sweeper' = u
    BY <1>0, <1>1, <1>2, <1>3 DEF SweepIsSound
  <2>2. sweeper' # Nobody => pc'[sweeper'] \in Filtering
    BY <1>0, <1>1, <1>2, <1>3 DEF SweepIsSound, Filtering
  <2>3. \A i \in 1..Len(removeStack') : removeStack'[i] \in garbage'
    <3>1. t = sweeper => \A i \in 1..Len(removeStack) : removeStack[i] # a
      BY <1>0, <1>1, <1>3 DEF SweepIsSound, Freeing, a
    <3> QED
      BY <1>0, <1>1, <1>4, <3>1 DEF SweepIsSound
  <2>4. \A i \in 1..Len(removeStack') :
          /\ sweeper' # Nobody /\ pc'[sweeper'] = "filter" => removeStack'[i] < cell'
          /\ sweeper' # Nobody /\ pc'[sweeper'] \in Freeing => removeStack'[i] # arg'[sweeper']
    <3>1. CASE sweeper = t
      BY <1>1, <1>2, <1>3, <3>1 DEF Freeing
    <3>2. CASE sweeper # t
      BY <1>0, <1>1, <1>2, <1>3, <3>2 DEF SweepIsSound
    <3> QED
      BY <3>1, <3>2
  <2> QED
    BY <1>0, <1>1, <2>1, <2>2, <2>3, <2>4 DEF SweepIsSound
<1>10. ListIsTrue'
  <2>1. \A u \in Threads : /\ Filling(u)' <=> Filling(u)
                           /\ Filling(u) => mb'[u] = mb[u]
                           /\ pc'[u] # "crashed" \/ pc'[u] = pc[u]
    BY <1>1, <1>2, <1>3 DEF Filling
  <2>2. \A w \in Vaddrs : place'[w] = place[w] \/ place'[w] = Null
    BY <1>2
  <2> QED
    BY <1>0, <1>1, <2>1, <2>2, ListFrame
<1> QED
  BY <1>5, <1>6, <1>7, <1>8, <1>9, <1>10 DEF SpaceInv

LEMMA GiveUpStep ==
  ASSUME SpaceInv, NEW v \in Vaddrs, GiveUp(v)
  PROVE  SpaceInv'
<1>0. ShapeOK /\ OwnedOnce /\ LocksAreOwned /\ HeadersAreKept /\ SweepIsSound /\ ListIsTrue
  BY DEF SpaceInv
<1>1. /\ v \in handles /\ writer[v] = Nobody /\ readers[v] = {}
      /\ handles' = handles \ {v} /\ garbage' = garbage \cup {v}
      /\ UNCHANGED <<mbList, mbCap, room, place, header, writer, readers, pc, want, hold, mb, arg,
                     sweeper, cell, removeStack>>
  BY DEF GiveUp, WriteFree, listVars, bookVars, lockVars, callVars, filterVars
<1>2. ShapeOK'
  BY <1>0, <1>1 DEF ShapeOK
<1>3. OwnedOnce'
  <2>1. \A u \in Threads : pc[u] \in Making \cup Freeing => arg[u] # v
    BY <1>0, <1>1 DEF OwnedOnce
  <2> QED
    BY <1>0, <1>1, <2>1 DEF OwnedOnce
<1>4. LocksAreOwned'
  BY <1>0, <1>1 DEF LocksAreOwned
<1>5. HeadersAreKept'
  BY <1>0, <1>1 DEF HeadersAreKept
<1>6. SweepIsSound'
  BY <1>0, <1>1 DEF SweepIsSound
<1>7. ListIsTrue'
  BY <1>0, <1>1 DEF ListIsTrue, Filling
<1> QED
  BY <1>2, <1>3, <1>4, <1>5, <1>6, <1>7 DEF SpaceInv

-----------------------------------------------------------------------------
\* A step of ms_filter that frees nothing: the other callers and the objects do
\* not notice it.
LEMMA FilterFrame ==
  ASSUME SpaceInv, NEW t \in Threads, NEW l \in {"idle", "filter", "pop", "read header"},
         pc[t] \in {"idle", "filter", "pop"}, Goto(t, l),
         \A u \in Threads : u # t => arg'[u] = arg[u],
         UNCHANGED <<listVars, room, bookVars, lockVars, callerVars, want, hold, mb>>
  PROVE  /\ LocksAreOwned' /\ HeadersAreKept' /\ ListIsTrue'
         /\ \A u \in Threads : pc'[u] = IF u = t THEN l ELSE pc[u]
         /\ pc' \in [Threads -> {"idle", "throw", "new block", "crashed"} \cup Making \cup Filtering]
<1>0. ShapeOK /\ LocksAreOwned /\ HeadersAreKept /\ ListIsTrue
  BY DEF SpaceInv
<1>1. UNCHANGED <<mbList, mbCap, room, place, header, writer, readers, handles, garbage, mb>>
  BY DEF listVars, bookVars, lockVars, callerVars
<1>2. /\ \A u \in Threads : pc'[u] = IF u = t THEN l ELSE pc[u]
      /\ pc' \in [Threads -> {"idle", "throw", "new block", "crashed"} \cup Making \cup Filtering]
  <2>1. l \in {"idle", "throw", "new block", "crashed"} \cup Making \cup Filtering
    BY DEF Filtering, Freeing
  <2> QED
    BY <1>0, <2>1, ShapeOfPlaces
<1>3. \A v \in Vaddrs : writer[v] \in Threads \cup {Nobody}
  BY <1>0, Kinds
<1>4. LocksAreOwned'
  BY <1>0, <1>1, <1>2, <1>3 DEF LocksAreOwned, Making
<1>5. HeadersAreKept'
  BY <1>0, <1>1, <1>2, <1>3, ZenonT(30) DEF HeadersAreKept
<1>6. ListIsTrue'
  <2>1. \A u \in Threads : /\ Filling(u)' <=> Filling(u)
                           /\ Filling(u) => mb'[u] = mb[u]
                           /\ pc'[u] # "crashed" \/ pc'[u] = pc[u]
    BY <1>1, <1>2 DEF Filling
  <2> QED
    BY <1>0, <1>1, <2>1, ListFrame
<1> QED
  BY <1>2, <1>4, <1>5, <1>6

LEMMA FilterCallStep ==
  ASSUME SpaceInv, NEW t \in Threads, FilterCall(t)
  PROVE  SpaceInv'
<1>0. ShapeOK /\ OwnedOnce /\ SweepIsSound
  BY DEF SpaceInv
<1>1. /\ pc[t] = "idle" /\ sweeper = Nobody /\ sweeper' = t /\ cell' = 1
      /\ UNCHANGED <<mbList, mbCap, room, place, header, writer, readers, handles, garbage, want, hold,
                     mb, arg, removeStack>>
  BY DEF FilterCall, listVars, bookVars, lockVars, callerVars
<1>2. /\ LocksAreOwned' /\ HeadersAreKept' /\ ListIsTrue'
      /\ \A u \in Threads : pc'[u] = IF u = t THEN "filter" ELSE pc[u]
      /\ pc' \in [Threads -> {"idle", "throw", "new block", "crashed"} \cup Making \cup Filtering]
  BY <1>1, FilterFrame DEF FilterCall
<1>3. removeStack = <<>> /\ t # Nobody /\ \A u \in Threads : pc[u] \notin {"filter", "pop"}
  BY <1>0, <1>1, NumbersAndNames DEF SweepIsSound
<1>4. ShapeOK'
  BY <1>0, <1>1, <1>2 DEF ShapeOK
<1>5. OwnedOnce'
  <2>1. \A u \in Threads : pc'[u] \in Making \cup Freeing => u # t /\ pc[u] \in Making \cup Freeing
    BY <1>2 DEF Making, Freeing
  <2>2. \A u \in Threads : u # Nobody
    BY NumbersAndNames
  <2> QED
    BY <1>0, <1>1, <2>1, <2>2 DEF OwnedOnce
<1>6. SweepIsSound'
  <2>1. \A i \in 1..Len(removeStack') : FALSE
    <3>1. Len(removeStack') = 0
      BY <1>1, <1>3
    <3> QED
      BY <3>1
  <2>2. \A u \in Threads : pc'[u] \in {"filter", "pop"} => u = t
    BY <1>2, <1>3
  <2>3. pc'[t] \in Filtering
    BY <1>2 DEF Filtering
  <2> QED
    BY <1>1, <1>3, <2>1, <2>2, <2>3 DEF SweepIsSound
<1> QED
  BY <1>2, <1>4, <1>5, <1>6 DEF SpaceInv

\* remove_stack grows by the cell the walk is at.
LEMMA PushRejected ==
  ASSUME NEW s \in Seq(Vaddrs), NEW v \in Vaddrs
  PROVE  /\ Append(s, v) \in Seq(Vaddrs) /\ Len(Append(s, v)) = Len(s) + 1 /\ Len(s) \in Nat
         /\ \A i \in 1..(Len(s) + 1) : Append(s, v)[i] = IF i <= Len(s) THEN s[i] ELSE v
  OBVIOUS

LEMMA FilterCellStep ==
  ASSUME SpaceInv, NEW t \in Threads, FilterCell(t)
  PROVE  SpaceInv'
<1>0. ShapeOK /\ OwnedOnce /\ LocksAreOwned /\ HeadersAreKept /\ SweepIsSound /\ ListIsTrue
  BY DEF SpaceInv
<1>1. /\ pc[t] = "filter" /\ cell \in Vaddrs /\ cell' = cell + 1
      /\ removeStack' = IF place[cell] # Null /\ cell \in garbage THEN Append(removeStack, cell) ELSE removeStack
      /\ UNCHANGED <<mbList, mbCap, room, place, header, writer, readers, handles, garbage, pc, want, hold,
                     mb, arg, sweeper>>
  BY DEF FilterCell, Rejected, listVars, bookVars, lockVars, callerVars, callVars
<1>2. cell \in Nat /\ removeStack \in Seq(Vaddrs) /\ Vaddrs \subseteq Nat /\ sweeper = t /\ t # Nobody
  BY <1>0, <1>1, NumbersAndNames DEF ShapeOK, SweepIsSound
<1>3. /\ \A i \in 1..Len(removeStack) : removeStack[i] \in Vaddrs /\ removeStack[i] < cell
                                         /\ removeStack[i] \in garbage
      /\ \A i, j \in 1..Len(removeStack) : i < j => removeStack[i] < removeStack[j]
  BY <1>0, <1>1, <1>2, Kinds DEF SweepIsSound
<1>4. /\ removeStack' \in Seq(Vaddrs)
      /\ \A i \in 1..Len(removeStack') : removeStack'[i] \in garbage /\ removeStack'[i] < cell'
      /\ \A i, j \in 1..Len(removeStack') : i < j => removeStack'[i] < removeStack'[j]
  <2>1. CASE removeStack' = removeStack
    <3>1. ASSUME NEW i \in 1..Len(removeStack) PROVE removeStack[i] < cell + 1
      <4>1. removeStack[i] \in Nat /\ removeStack[i] < cell
        BY <1>2, <1>3
      <4> QED
        BY <1>2, <4>1
    <3> QED
      BY <1>1, <1>2, <1>3, <2>1, <3>1
  <2>2. CASE cell \in garbage /\ removeStack' = Append(removeStack, cell)
    <3>1. /\ removeStack' \in Seq(Vaddrs) /\ Len(removeStack') = Len(removeStack) + 1
          /\ Len(removeStack) \in Nat
          /\ \A i \in 1..(Len(removeStack) + 1) :
               removeStack'[i] = IF i <= Len(removeStack) THEN removeStack[i] ELSE cell
      BY <1>1, <1>2, <2>2, PushRejected
    <3>2. \A i \in 1..Len(removeStack') : /\ removeStack'[i] \in garbage
                                          /\ removeStack'[i] < cell'
                                          /\ i <= Len(removeStack) => removeStack'[i] < cell
                                          /\ ~(i <= Len(removeStack)) => removeStack'[i] = cell
      <4> SUFFICES ASSUME NEW i \in 1..Len(removeStack')
                   PROVE  /\ removeStack'[i] \in garbage
                          /\ removeStack'[i] < cell'
                          /\ i <= Len(removeStack) => removeStack'[i] < cell
                          /\ ~(i <= Len(removeStack)) => removeStack'[i] = cell
        OBVIOUS
      <4>1. CASE i <= Len(removeStack)
        <5>1. i \in 1..Len(removeStack) /\ removeStack'[i] = removeStack[i]
          BY <3>1, <4>1
        <5>2. removeStack[i] \in garbage /\ removeStack[i] < cell /\ removeStack[i] \in Nat
          BY <1>2, <1>3, <5>1
        <5> QED
          BY <1>1, <1>2, <4>1, <5>1, <5>2
      <4>2. CASE ~(i <= Len(removeStack))
        <5>1. removeStack'[i] = cell
          BY <3>1, <4>2
        <5> QED
          BY <1>1, <1>2, <2>2, <4>2, <5>1
      <4> QED
        BY <4>1, <4>2
    <3>3. \A i, j \in 1..Len(removeStack') : i < j => removeStack'[i] < removeStack'[j]
      <4> SUFFICES ASSUME NEW i \in 1..Len(removeStack'), NEW j \in 1..Len(removeStack'), i < j
                   PROVE  removeStack'[i] < removeStack'[j]
        OBVIOUS
      <4>1. i \in 1..Len(removeStack)
        BY <3>1
      <4>2. CASE j <= Len(removeStack)
        BY <1>3, <3>1, <4>1, <4>2
      <4>3. CASE ~(j <= Len(removeStack))
        BY <3>2, <4>1, <4>3
      <4> QED
        BY <4>2, <4>3
    <3> QED
      BY <3>1, <3>2, <3>3
  <2> QED
    BY <1>1, <2>1, <2>2
<1>5. ShapeOK'
  <2>1. cell' \in Nat
    BY <1>1, <1>2
  <2> QED
    BY <1>0, <1>1, <1>4, <2>1 DEF ShapeOK
<1>6. OwnedOnce'
  BY <1>0, <1>1 DEF OwnedOnce
<1>7. LocksAreOwned' /\ HeadersAreKept'
  BY <1>0, <1>1 DEF LocksAreOwned, HeadersAreKept
<1>8. SweepIsSound'
  BY <1>0, <1>1, <1>2, <1>4 DEF SweepIsSound, Freeing
<1>9. ListIsTrue'
  BY <1>0, <1>1 DEF ListIsTrue, Filling
<1> QED
  BY <1>5, <1>6, <1>7, <1>8, <1>9 DEF SpaceInv

LEMMA FilterWalkedStep ==
  ASSUME SpaceInv, NEW t \in Threads, FilterWalked(t)
  PROVE  SpaceInv'
<1>0. ShapeOK /\ OwnedOnce /\ SweepIsSound
  BY DEF SpaceInv
<1>1. /\ pc[t] = "filter" /\ cell' = 0
      /\ UNCHANGED <<mbList, mbCap, room, place, header, writer, readers, handles, garbage, want, hold,
                     mb, arg, sweeper, removeStack>>
  BY DEF FilterWalked, listVars, bookVars, lockVars, callerVars
<1>2. /\ LocksAreOwned' /\ HeadersAreKept' /\ ListIsTrue'
      /\ \A u \in Threads : pc'[u] = IF u = t THEN "pop" ELSE pc[u]
      /\ pc' \in [Threads -> {"idle", "throw", "new block", "crashed"} \cup Making \cup Filtering]
  BY <1>1, FilterFrame DEF FilterWalked
<1>3. sweeper = t
  BY <1>0, <1>1 DEF SweepIsSound
<1>4. ShapeOK'
  BY <1>0, <1>1, <1>2 DEF ShapeOK
<1>5. OwnedOnce'
  <2>1. \A u \in Threads : pc'[u] \in Making \cup Freeing => u # t /\ pc[u] \in Making \cup Freeing
    BY <1>2 DEF Making, Freeing
  <2> QED
    BY <1>0, <1>1, <2>1 DEF OwnedOnce
<1>6. SweepIsSound'
  BY <1>0, <1>1, <1>2, <1>3 DEF SweepIsSound, Filtering, Freeing
<1> QED
  BY <1>2, <1>4, <1>5, <1>6 DEF SpaceInv

LEMMA PopLast ==
  ASSUME NEW s \in Seq(Vaddrs), s # <<>>
  PROVE  /\ Front(s) \in Seq(Vaddrs) /\ Len(Front(s)) = Len(s) - 1
         /\ \A i \in 1..(Len(s) - 1) : Front(s)[i] = s[i]
         /\ Last(s) = s[Len(s)] /\ s[Len(s)] \in Vaddrs
<1>1. Len(s) \in Nat \ {0} /\ s[Len(s)] \in Vaddrs
  <2>1. Len(s) \in Nat \ {0}
    OBVIOUS
  <2> QED
    BY <2>1
<1> DEFINE m == Len(s) - 1
<1>2. m \in Nat /\ \A i \in 1..m : s[i] \in Vaddrs
  BY <1>1
<1> HIDE DEF m
<1>3. /\ SubSeq(s, 1, m) \in Seq(Vaddrs)
      /\ Len(SubSeq(s, 1, m)) = IF 1 <= m THEN m - 1 + 1 ELSE 0
      /\ \A i \in 1..(m - 1 + 1) : SubSeq(s, 1, m)[i] = s[1 + i - 1]
  BY <1>2, SubSeqProperties
<1>4. Len(SubSeq(s, 1, m)) = m
  BY <1>2, <1>3
<1>5. ASSUME NEW i \in 1..m PROVE SubSeq(s, 1, m)[i] = s[i]
  <2>1. i \in 1..(m - 1 + 1) /\ 1 + i - 1 = i
    BY <1>2
  <2> QED
    BY <1>3, <2>1
<1> QED
  BY <1>1, <1>3, <1>4, <1>5 DEF m, Front, Last

LEMMA FilterPopStep ==
  ASSUME SpaceInv, NEW t \in Threads, FilterPop(t)
  PROVE  SpaceInv'
<1>0. ShapeOK /\ OwnedOnce /\ SweepIsSound
  BY DEF SpaceInv
<1> DEFINE n == Len(removeStack)
<1>1. /\ pc[t] = "pop" /\ removeStack # <<>>
      /\ arg' = [arg EXCEPT ![t] = Last(removeStack)]
      /\ removeStack' = Front(removeStack)
      /\ UNCHANGED <<mbList, mbCap, room, place, header, writer, readers, handles, garbage, want, hold,
                     mb, sweeper, cell>>
  BY DEF FilterPop, listVars, bookVars, lockVars, callerVars
<1>2. /\ n \in Nat \ {0} /\ Last(removeStack) = removeStack[n] /\ removeStack[n] \in Vaddrs
      /\ removeStack' \in Seq(Vaddrs) /\ Len(removeStack') = n - 1
      /\ \A i \in 1..(n - 1) : removeStack'[i] = removeStack[i]
  <2>1. removeStack \in Seq(Vaddrs)
    BY <1>0 DEF ShapeOK
  <2>2. n \in Nat \ {0}
    BY <1>1, <2>1
  <2> QED
    BY <1>1, <2>1, <2>2, PopLast
<1>3. \A u \in Threads : arg'[u] = IF u = t THEN removeStack[n] ELSE arg[u]
  BY <1>0, <1>1, <1>2 DEF ShapeOK
<1>4. /\ LocksAreOwned' /\ HeadersAreKept' /\ ListIsTrue'
      /\ \A u \in Threads : pc'[u] = IF u = t THEN "read header" ELSE pc[u]
      /\ pc' \in [Threads -> {"idle", "throw", "new block", "crashed"} \cup Making \cup Filtering]
  BY <1>1, <1>3, FilterFrame DEF FilterPop
<1>5. sweeper = t /\ t # Nobody /\ removeStack[n] \in garbage
  BY <1>0, <1>1, <1>2, NumbersAndNames DEF SweepIsSound
<1>6. ShapeOK'
  <2>1. arg' \in [Threads -> Vaddrs \cup {Null}]
    BY <1>0, <1>1, <1>2 DEF ShapeOK
  <2> QED
    BY <1>0, <1>1, <1>2, <1>4, <2>1 DEF ShapeOK
<1> HIDE DEF n
<1>7. OwnedOnce'
  <2>1. removeStack[n] \notin handles /\ place[removeStack[n]] # Null
    BY <1>0, <1>5 DEF OwnedOnce
  <2>2. \A u \in Threads : u # t /\ pc[u] \in Making \cup Freeing => arg[u] \notin garbage
    BY <1>0, <1>5 DEF OwnedOnce
  <2>3. ASSUME NEW u \in Threads, pc'[u] \in Making \cup Freeing
        PROVE  /\ arg'[u] \in Vaddrs /\ arg'[u] \notin handles' /\ place'[arg'[u]] # Null
               /\ arg'[u] \in garbage' <=> u = sweeper'
               /\ \A w \in Threads : pc'[w] \in Making \cup Freeing /\ arg'[w] = arg'[u] => w = u
    <3>1. CASE u = t
      <4>1. arg'[u] = removeStack[n] /\ removeStack[n] \in Vaddrs
        BY <1>2, <1>3, <3>1
      <4>2. \A w \in Threads : w # t /\ pc'[w] \in Making \cup Freeing => arg'[w] # removeStack[n]
        BY <1>3, <1>4, <1>5, <2>2
      <4> QED
        BY <1>1, <1>5, <2>1, <3>1, <4>1, <4>2
    <3>2. CASE u # t
      <4>1. pc[u] \in Making \cup Freeing /\ arg'[u] = arg[u] /\ arg[u] \notin garbage
        BY <1>3, <1>4, <2>2, <2>3, <3>2
      <4>2. /\ arg[u] \in Vaddrs /\ arg[u] \notin handles /\ place[arg[u]] # Null
            /\ arg[u] \in garbage <=> u = sweeper
            /\ \A w \in Threads : pc[w] \in Making \cup Freeing /\ arg[w] = arg[u] => w = u
        BY <1>0, <4>1 DEF OwnedOnce
      <4>3. \A w \in Threads : pc'[w] \in Making \cup Freeing /\ arg'[w] = arg'[u] => w = u
        BY <1>3, <1>4, <1>5, <4>1, <4>2
      <4> QED
        BY <1>1, <4>1, <4>2, <4>3
    <3> QED
      BY <3>1, <3>2
  <2>4. handles' \cap garbage' = {} /\ \A w \in handles' \cup garbage' : place'[w] # Null
    BY <1>0, <1>1 DEF OwnedOnce
  <2> QED
    BY <2>3, <2>4 DEF OwnedOnce
<1>8. SweepIsSound'
  <2>1. \A i \in 1..Len(removeStack') : i \in 1..Len(removeStack) /\ i < n /\ removeStack'[i] = removeStack[i]
    BY <1>2 DEF n
  <2>2. \A i \in 1..Len(removeStack') : removeStack'[i] \in garbage /\ removeStack'[i] # removeStack[n]
    <3> SUFFICES ASSUME NEW i \in 1..Len(removeStack')
                 PROVE  removeStack'[i] \in garbage /\ removeStack'[i] # removeStack[n]
      OBVIOUS
    <3>1. i \in 1..Len(removeStack) /\ n \in 1..Len(removeStack) /\ i < n
      BY <1>2, <2>1 DEF n
    <3>2. removeStack[i] < removeStack[n] /\ removeStack[i] \in garbage
      BY <1>0, <3>1 DEF SweepIsSound
    <3>3. removeStack[i] \in Nat /\ removeStack[n] \in Nat
      BY <1>0, <3>1, Kinds, NumbersAndNames
    <3> QED
      BY <2>1, <3>2, <3>3
  <2>3. \A i, j \in 1..Len(removeStack') : i < j => removeStack'[i] < removeStack'[j]
    BY <1>0, <2>1 DEF SweepIsSound
  <2>4. \A u \in Threads : pc'[u] \in {"filter", "pop"} => sweeper' = u
    BY <1>0, <1>1, <1>4 DEF SweepIsSound
  <2> QED
    BY <1>1, <1>3, <1>4, <1>5, <2>2, <2>3, <2>4 DEF SweepIsSound, Filtering, Freeing
<1> QED
  BY <1>4, <1>6, <1>7, <1>8 DEF SpaceInv

LEMMA FilterReturnStep ==
  ASSUME SpaceInv, NEW t \in Threads, FilterReturn(t)
  PROVE  SpaceInv'
<1>0. ShapeOK /\ OwnedOnce /\ SweepIsSound
  BY DEF SpaceInv
<1>1. /\ pc[t] = "pop" /\ removeStack = <<>> /\ sweeper' = Nobody
      /\ UNCHANGED <<mbList, mbCap, room, place, header, writer, readers, handles, garbage, want, hold,
                     mb, arg, cell, removeStack>>
  BY DEF FilterReturn, listVars, bookVars, lockVars, callerVars
<1>2. /\ LocksAreOwned' /\ HeadersAreKept' /\ ListIsTrue'
      /\ \A u \in Threads : pc'[u] = IF u = t THEN "idle" ELSE pc[u]
      /\ pc' \in [Threads -> {"idle", "throw", "new block", "crashed"} \cup Making \cup Filtering]
  BY <1>1, FilterFrame DEF FilterReturn
<1>3. sweeper = t /\ \A u \in Threads : pc[u] \in {"filter", "pop"} => u = t
  BY <1>0, <1>1 DEF SweepIsSound
<1>4. ShapeOK'
  BY <1>0, <1>1, <1>2 DEF ShapeOK
<1>5. OwnedOnce'
  <2>1. \A u \in Threads : pc'[u] \in Making \cup Freeing => u # t /\ pc[u] \in Making \cup Freeing
    BY <1>2 DEF Making, Freeing
  <2>2. \A u \in Threads : u # Nobody
    BY NumbersAndNames
  <2> QED
    BY <1>0, <1>1, <1>3, <2>1, <2>2 DEF OwnedOnce
<1>6. SweepIsSound'
  <2>1. \A i \in 1..Len(removeStack') : FALSE
    <3>1. Len(removeStack') = 0
      BY <1>1
    <3> QED
      BY <3>1
  <2>2. \A u \in Threads : pc'[u] \notin {"filter", "pop"}
    BY <1>2, <1>3
  <2> QED
    BY <1>1, <2>1, <2>2 DEF SweepIsSound
<1> QED
  BY <1>2, <1>4, <1>5, <1>6 DEF SpaceInv

-----------------------------------------------------------------------------
\* The steps of the users of the objects.
LEMMA LockFrame ==
  ASSUME SpaceInv,
         writer' \in [Vaddrs -> Threads \cup {Nobody}], readers' \in [Vaddrs -> SUBSET Threads],
         \A v \in Vaddrs \ handles : writer'[v] = writer[v] /\ readers'[v] = readers[v],
         \A v \in Vaddrs : writer'[v] # Nobody => readers'[v] = {},
         UNCHANGED <<listVars, room, bookVars, callerVars, callVars, filterVars>>
  PROVE  SpaceInv'
<1>0. ShapeOK /\ OwnedOnce /\ LocksAreOwned /\ HeadersAreKept /\ SweepIsSound /\ ListIsTrue
  BY DEF SpaceInv
<1>1. UNCHANGED <<mbList, mbCap, room, place, header, handles, garbage, pc, want, hold, mb, arg,
                  sweeper, cell, removeStack>>
  BY DEF listVars, bookVars, callerVars, callVars, filterVars
<1>2. /\ \A v \in Vaddrs : writer[v] \in Threads \cup {Nobody}
      /\ \A v \in Vaddrs \ handles : writer'[v] = writer[v] /\ readers'[v] = readers[v]
  BY <1>0, Kinds
<1>3. \A u \in Threads : pc[u] \in Making => arg[u] \in Vaddrs \ handles
  BY <1>0 DEF OwnedOnce
<1>4. ShapeOK'
  BY <1>0, <1>1 DEF ShapeOK
<1>5. OwnedOnce' /\ SweepIsSound' /\ ListIsTrue'
  <2>1. OwnedOnce' /\ SweepIsSound'
    BY <1>0, <1>1 DEF OwnedOnce, SweepIsSound
  <2>2. ListIsTrue'
    BY <1>0, <1>1, ZenonT(30) DEF ListIsTrue, Filling
  <2> QED
    BY <2>1, <2>2
<1>6. LocksAreOwned'
  BY <1>0, <1>1, <1>2 DEF LocksAreOwned
<1>7. HeadersAreKept'
  <2>1. ASSUME NEW v \in Vaddrs, header'[v] # place'[v]
        PROVE  writer'[v] # Nobody /\ pc'[writer'[v]] \in {"header", "new header"} /\ arg'[writer'[v]] = v
    <3>1. writer[v] # Nobody /\ pc[writer[v]] \in {"header", "new header"} /\ arg[writer[v]] = v
      BY <1>0, <1>1, <2>1 DEF HeadersAreKept
    <3>2. v \notin handles
      BY <1>2, <1>3, <3>1, ZenonT(30) DEF Making
    <3> QED
      BY <1>1, <1>2, <3>1, <3>2
  <2>2. \A u \in Threads : pc'[u] \in {"header", "new header"} =>
          writer'[arg'[u]] = u /\ mb'[u] = place'[arg'[u]]
    BY <1>0, <1>1, <1>2, <1>3 DEF HeadersAreKept, Making
  <2>3. \A u \in Threads : pc'[u] = "free" => mb'[u] = place'[arg'[u]]
    BY <1>0, <1>1 DEF HeadersAreKept
  <2> QED
    BY <2>1, <2>2, <2>3 DEF HeadersAreKept
<1> QED
  BY <1>4, <1>5, <1>6, <1>7 DEF SpaceInv

LEMMA GetWriteStep ==
  ASSUME SpaceInv, NEW t \in Threads, NEW v \in Vaddrs, GetWrite(t, v)
  PROVE  SpaceInv'
<1>0. ShapeOK /\ LocksAreOwned
  BY DEF SpaceInv
<1>1. /\ v \in handles /\ readers[v] = {}
      /\ writer' = [writer EXCEPT ![v] = t] /\ readers' = readers
  BY DEF GetWrite, WriteFree
<1>2. \A w \in Vaddrs : writer'[w] = IF w = v THEN t ELSE writer[w]
  BY <1>0, <1>1 DEF ShapeOK
<1>3. writer' \in [Vaddrs -> Threads \cup {Nobody}] /\ readers' \in [Vaddrs -> SUBSET Threads]
  BY <1>0, <1>1 DEF ShapeOK
<1>4. \A w \in Vaddrs : writer'[w] # Nobody => readers'[w] = {}
  BY <1>0, <1>1, <1>2 DEF LocksAreOwned
<1>5. \A w \in Vaddrs \ handles : writer'[w] = writer[w] /\ readers'[w] = readers[w]
  BY <1>1, <1>2
<1> QED
  BY <1>3, <1>4, <1>5, LockFrame DEF GetWrite

LEMMA GetReadStep ==
  ASSUME SpaceInv, NEW t \in Threads, NEW v \in Vaddrs, GetRead(t, v)
  PROVE  SpaceInv'
<1>0. ShapeOK /\ LocksAreOwned
  BY DEF SpaceInv
<1>1. /\ v \in handles /\ writer[v] = Nobody
      /\ readers' = [readers EXCEPT ![v] = @ \cup {t}] /\ writer' = writer
  BY DEF GetRead
<1>2. \A w \in Vaddrs : w # v => readers'[w] = readers[w]
  BY <1>0, <1>1 DEF ShapeOK
<1>3. writer' \in [Vaddrs -> Threads \cup {Nobody}] /\ readers' \in [Vaddrs -> SUBSET Threads]
  BY <1>0, <1>1 DEF ShapeOK
<1>4. \A w \in Vaddrs : writer'[w] # Nobody => readers'[w] = {}
  BY <1>0, <1>1, <1>2 DEF LocksAreOwned
<1>5. \A w \in Vaddrs \ handles : writer'[w] = writer[w] /\ readers'[w] = readers[w]
  BY <1>1, <1>2
<1> QED
  BY <1>3, <1>4, <1>5, LockFrame DEF GetRead

\* A caller that is in no call has locks only on what callers have.
LEMMA IdleLocks ==
  ASSUME SpaceInv, NEW t \in Threads, pc[t] = "idle", NEW v \in Locked(t)
  PROVE  v \in Vaddrs /\ v \in handles
<1>0. LocksAreOwned /\ v \in Vaddrs /\ (writer[v] = t \/ t \in readers[v]) /\ t # Nobody
  BY NumbersAndNames DEF SpaceInv, Locked
<1> QED
  BY <1>0 DEF LocksAreOwned, Making

LEMMA UnlockStep ==
  ASSUME SpaceInv, NEW t \in Threads, NEW v \in Vaddrs, Unlock(t, v)
  PROVE  SpaceInv'
<1>0. ShapeOK /\ LocksAreOwned
  BY DEF SpaceInv
<1>1. /\ v \in handles
      /\ writer' = [writer EXCEPT ![v] = Nobody]
      /\ readers' = [readers EXCEPT ![v] = @ \ {t}]
  BY IdleLocks DEF Unlock
<1>2. \A w \in Vaddrs : /\ writer'[w] = IF w = v THEN Nobody ELSE writer[w]
                        /\ w # v => readers'[w] = readers[w]
  BY <1>0, <1>1 DEF ShapeOK
<1>3. writer' \in [Vaddrs -> Threads \cup {Nobody}] /\ readers' \in [Vaddrs -> SUBSET Threads]
  BY <1>0, <1>1 DEF ShapeOK
<1>4. \A w \in Vaddrs : writer'[w] # Nobody => readers'[w] = {}
  BY <1>0, <1>2 DEF LocksAreOwned
<1>5. \A w \in Vaddrs \ handles : writer'[w] = writer[w] /\ readers'[w] = readers[w]
  BY <1>1, <1>2
<1> QED
  BY <1>3, <1>4, <1>5, LockFrame DEF Unlock

-----------------------------------------------------------------------------
LEMMA FirstBlock ==
  /\ 1 \in Blocks /\ <<1>> \in Seq(Blocks) /\ Len(<<1>>) = 1
  /\ \A i \in 1..1 : i = 1 /\ <<1>>[i] = 1
  /\ PadNumBytes(MbMinBytes) \in Nat /\ PadNumBytes(MbMinBytes) # 0
<1>1. 1 \in Blocks
  <2>1. Cardinality(Blocks) \in Nat
    BY MemSpaceAssumption, FS_CardinalityType
  <2>2. PICK b \in Blocks : TRUE
    BY MemSpaceAssumption
  <2>3. b \in 1..Cardinality(Blocks)
    BY MemSpaceAssumption
  <2>4. 1 \in 1..Cardinality(Blocks)
    BY <2>1, <2>3
  <2> QED
    BY <2>4, MemSpaceAssumption
<1>2. MbMinBytes \in Nat
  BY MemSpaceAssumption
<1> QED
  BY <1>1, <1>2, Padding

\* A space with one block and nothing in it.
LEMMA Fresh ==
  ASSUME mbList = << 1 >>, mbCap = 2,
         room = [b \in Blocks |-> IF b = 1 THEN PadNumBytes(MbMinBytes) ELSE 0],
         \A t \in Threads : pc[t] = "idle",
         \A v \in Vaddrs : place[v] = Null
  PROVE  ListIsTrue /\ mbList \in Seq(Blocks) /\ mbCap \in Nat /\ mbCap >= 1 /\ room \in [Blocks -> Nat]
<1>1. /\ mbList \in Seq(Blocks) /\ Len(mbList) = 1
      /\ \A i \in 1..Len(mbList) : i = 1 /\ mbList[i] = 1
      /\ room[1] # 0 /\ 1 \in 1..Len(mbList)
  BY FirstBlock
<1>2. room \in [Blocks -> Nat] /\ \A b \in Blocks : room[b] # 0 => b = 1
  BY FirstBlock
<1>3. \A t \in Threads : ~Filling(t) /\ pc[t] # "crashed"
  BY DEF Filling
<1>4. \A b \in Blocks : room[b] # 0 => \E i \in 1..Len(mbList) : mbList[i] = b
  BY <1>1, <1>2
<1> QED
  BY <1>1, <1>2, <1>3, <1>4 DEF ListIsTrue

LEMMA InitSpace == Init => SpaceInv
<1> SUFFICES ASSUME Init PROVE SpaceInv
  OBVIOUS
<1>1. ListIsTrue /\ mbList \in Seq(Blocks) /\ mbCap \in Nat /\ mbCap >= 1 /\ room \in [Blocks -> Nat]
  BY Fresh DEF Init
<1>2. ShapeOK
  <2>1. removeStack \in Seq(Vaddrs)
    BY DEF Init
  <2> QED
    BY <1>1, <2>1 DEF Init, ShapeOK
<1>3. OwnedOnce
  BY DEF Init, OwnedOnce, Making, Freeing
<1>4. LocksAreOwned
  BY DEF Init, LocksAreOwned
<1>5. HeadersAreKept
  BY DEF Init, HeadersAreKept
<1>6. SweepIsSound
  <2>1. \A i \in 1..Len(removeStack) : FALSE
    <3>1. Len(removeStack) = 0
      BY DEF Init
    <3> QED
      BY <3>1
  <2>2. removeStack = <<>> /\ sweeper = Nobody /\ \A t \in Threads : pc[t] \notin {"filter", "pop"}
    BY DEF Init
  <2> QED
    BY <2>1, <2>2 DEF SweepIsSound
<1> QED
  BY <1>1, <1>2, <1>3, <1>4, <1>5, <1>6 DEF SpaceInv

\* Between two spaces every block is on the list, so nothing is left in the book.
LEMMA RenewStep ==
  ASSUME SpaceInv, Renew
  PROVE  SpaceInv'
<1>0. ShapeOK /\ OwnedOnce /\ LocksAreOwned /\ SweepIsSound /\ ListIsTrue
  BY DEF SpaceInv
<1>1. /\ \A t \in Threads : pc[t] = "idle"
      /\ place' = [v \in Vaddrs |-> IF place[v] \in ToSet(mbList) THEN Null ELSE place[v]]
      /\ header' = [v \in Vaddrs |-> Null]
      /\ mbList' = <<1>> /\ mbCap' = 2
      /\ room' = [b \in Blocks |-> IF b = 1 THEN PadNumBytes(MbMinBytes) ELSE 0]
      /\ handles' = {} /\ garbage' = {}
      /\ UNCHANGED <<writer, readers, pc, want, hold, mb, arg, sweeper, cell, removeStack>>
      /\ \A v \in Vaddrs : writer[v] = Nobody /\ readers[v] = {}
  BY DEF Renew, WriteFree, lockVars, callVars, filterVars
<1>2. \A v \in Vaddrs : place'[v] = Null
  <2> SUFFICES ASSUME NEW v \in Vaddrs, place[v] # Null PROVE place[v] \in ToSet(mbList)
    BY <1>1
  <2>1. place[v] \in Blocks /\ room[place[v]] # 0
    BY <1>0, Kinds DEF ListIsTrue
  <2>2. \A t \in Threads : ~Filling(t)
    BY <1>1 DEF Filling
  <2>3. PICK i \in 1..Len(mbList) : mbList[i] = place[v]
    BY <1>0, <2>1, <2>2 DEF ListIsTrue
  <2>4. mbList \in Seq(Blocks)
    BY <1>0 DEF ShapeOK
  <2> QED
    BY <2>3, <2>4 DEF ToSet
<1>3. sweeper = Nobody /\ removeStack = <<>>
  <2>1. sweeper \in Threads \cup {Nobody}
    BY <1>0, Kinds
  <2> QED
    BY <1>0, <1>1, <2>1 DEF SweepIsSound, Filtering, Freeing
<1>4. ListIsTrue' /\ mbList' \in Seq(Blocks) /\ mbCap' \in Nat /\ mbCap' >= 1 /\ room' \in [Blocks -> Nat]
  <2>1. /\ mbList' \in Seq(Blocks) /\ Len(mbList') = 1
        /\ \A i \in 1..Len(mbList') : i = 1 /\ mbList'[i] = 1
        /\ room'[1] # 0 /\ 1 \in 1..Len(mbList')
    BY <1>1, FirstBlock
  <2>2. room' \in [Blocks -> Nat] /\ \A b \in Blocks : room'[b] # 0 => b = 1
    BY <1>1, FirstBlock
  <2>3. \A t \in Threads : ~Filling(t)' /\ pc'[t] # "crashed"
    BY <1>1 DEF Filling
  <2>4. \A b \in Blocks : room'[b] # 0 => \E i \in 1..Len(mbList') : mbList'[i] = b
    BY <2>1, <2>2
  <2>5. mbCap' \in Nat /\ mbCap' >= 1 /\ Len(mbList') <= mbCap'
    BY <1>1, <2>1
  <2> QED
    BY <1>2, <2>1, <2>2, <2>3, <2>4, <2>5 DEF ListIsTrue
<1>5. ShapeOK'
  <2>1. place' \in [Vaddrs -> Blocks \cup {Null}] /\ header' \in [Vaddrs -> Blocks \cup {Null}]
    BY <1>0, <1>1 DEF ShapeOK
  <2> QED
    BY <1>0, <1>1, <1>4, <2>1 DEF ShapeOK
<1>6. OwnedOnce'
  BY <1>1 DEF OwnedOnce, Making, Freeing
<1>7. LocksAreOwned'
  BY <1>1 DEF LocksAreOwned
<1>8. HeadersAreKept'
  BY <1>1, <1>2 DEF HeadersAreKept
<1>9. SweepIsSound'
  <2>1. \A i \in 1..Len(removeStack') : FALSE
    <3>1. Len(removeStack') = 0
      BY <1>1, <1>3
    <3> QED
      BY <3>1
  <2> QED
    BY <1>1, <1>3, <2>1 DEF SweepIsSound
<1> QED
  BY <1>4, <1>5, <1>6, <1>7, <1>8, <1>9 DEF SpaceInv

LEMMA NextKeeps ==
  ASSUME SpaceInv, [Next]_vars
  PROVE  SpaceInv'
<1>1. CASE UNCHANGED vars
  <2>1. /\ writer' = writer /\ readers' = readers
        /\ UNCHANGED <<listVars, room, bookVars, callerVars, callVars, filterVars>>
    BY <1>1 DEF vars, lockVars
  <2>2. /\ writer' \in [Vaddrs -> Threads \cup {Nobody}] /\ readers' \in [Vaddrs -> SUBSET Threads]
        /\ \A v \in Vaddrs : writer'[v] # Nobody => readers'[v] = {}
    BY <2>1 DEF SpaceInv, ShapeOK, LocksAreOwned
  <2> QED
    BY <2>1, <2>2, LockFrame
<1>2. ASSUME NEW t \in Threads, NEW n \in Requests, NEW h \in BOOLEAN, MallocCall(t, n, h)
      PROVE  SpaceInv'
  BY <1>2, MallocCallStep
<1>3. ASSUME NEW t \in Threads, Throw(t) \/ NewBlock(t) \/ WriteHeader(t) \/ AddBlock(t)
      PROVE  SpaceInv'
  BY <1>3, ThrowStep, NewBlockStep, WriteHeaderStep, AddBlockStep
<1>4. ASSUME NEW t \in Threads, ReadHeader(t) \/ MbFree(t)
      PROVE  SpaceInv'
  BY <1>4, ReadHeaderStep, MbFreeStep
<1>5. ASSUME NEW t \in Threads,
             FilterCall(t) \/ FilterCell(t) \/ FilterWalked(t) \/ FilterPop(t) \/ FilterReturn(t)
      PROVE  SpaceInv'
  BY <1>5, FilterCallStep, FilterCellStep, FilterWalkedStep, FilterPopStep, FilterReturnStep
<1>6. ASSUME NEW t \in Threads, NEW v \in Vaddrs,
             FreeCall(t, v) \/ GetWrite(t, v) \/ GetRead(t, v) \/ Unlock(t, v)
      PROVE  SpaceInv'
  BY <1>6, FreeCallStep, GetWriteStep, GetReadStep, UnlockStep
<1>7. ASSUME NEW v \in Vaddrs, GiveUp(v)
      PROVE  SpaceInv'
  BY <1>7, GiveUpStep
<1>8. CASE Renew
  BY <1>8, RenewStep
<1> QED
  BY <1>1, <1>2, <1>3, <1>4, <1>5, <1>6, <1>7, <1>8 DEF Next

-----------------------------------------------------------------------------
(***************************************************************************)
(* What follows of a state in which SpaceInv holds.                        *)
(***************************************************************************)
LEMMA HeadersFollow == SpaceInv => HeadersAreTrue
<1> SUFFICES ASSUME SpaceInv PROVE HeadersAreTrue
  OBVIOUS
<1>1. OwnedOnce /\ HeadersAreKept
  BY DEF SpaceInv
<1>2. \A v \in Vaddrs : place[v] # Null /\ writer[v] = Nobody => header[v] = place[v]
  BY <1>1 DEF HeadersAreKept
<1>3. \A t \in Threads : pc[t] = "free" => place[arg[t]] # Null /\ mb[t] = place[arg[t]]
  BY <1>1 DEF HeadersAreKept, OwnedOnce, Freeing
<1> QED
  BY <1>2, <1>3 DEF HeadersAreTrue

LEMMA BlocksFollow == SpaceInv => BlocksAreListed
<1> SUFFICES ASSUME SpaceInv PROVE BlocksAreListed
  OBVIOUS
<1>0. ShapeOK /\ ListIsTrue
  BY DEF SpaceInv
<1> DEFINE filling(b) == {t \in Threads : mb[t] = b /\ pc[t] \in {"new header", "add block"}}
           listed(b) == {i \in DOMAIN mbList : mbList[i] = b}
<1>1. ASSUME NEW b \in Blocks, room[b] # 0
      PROVE  Cardinality(listed(b)) + Cardinality(filling(b)) = 1
  <2>0. DOMAIN mbList = 1..Len(mbList) /\ Len(mbList) \in Nat
    <3>1. mbList \in Seq(Blocks)
      BY <1>0 DEF ShapeOK
    <3> QED
      BY <3>1
  <2>1. CASE \E i \in 1..Len(mbList) : mbList[i] = b
    <3>1. PICK i \in 1..Len(mbList) : mbList[i] = b
      BY <2>1
    <3>2. listed(b) = {i}
      BY <1>0, <2>0, <3>1 DEF ListIsTrue
    <3>3. filling(b) = {}
      BY <1>0, <3>1, ZenonT(30) DEF ListIsTrue, Filling
    <3>4. Cardinality(listed(b)) = 1 /\ Cardinality(filling(b)) = 0
      BY <3>2, <3>3, FS_Singleton, FS_EmptySet
    <3> HIDE DEF listed, filling
    <3> QED
      BY <3>4
  <2>2. CASE ~ \E i \in 1..Len(mbList) : mbList[i] = b
    <3>1. PICK t \in Threads : Filling(t) /\ mb[t] = b
      BY <1>0, <1>1, <2>2 DEF ListIsTrue
    <3>2. listed(b) = {}
      BY <2>0, <2>2
    <3>3. filling(b) = {t}
      BY <1>0, <3>1 DEF ListIsTrue, Filling
    <3>4. Cardinality(listed(b)) = 0 /\ Cardinality(filling(b)) = 1
      BY <3>2, <3>3, FS_Singleton, FS_EmptySet
    <3> HIDE DEF listed, filling
    <3> QED
      BY <3>4
  <2> QED
    BY <2>1, <2>2
<1>2. /\ \A v \in Vaddrs : place[v] # Null => room[place[v]] # 0
      /\ Len(mbList) <= mbCap
      /\ \A t \in Threads : pc[t] # "crashed"
  BY <1>0 DEF ListIsTrue
<1> QED
  BY <1>1, <1>2 DEF BlocksAreListed

-----------------------------------------------------------------------------
(***************************************************************************)
(* The space as ObjectSpace sees it, step by step.                         *)
(***************************************************************************)
Object == [v \in Vaddrs |-> CASE v \in handles -> "live"
                              [] v \in BeingFreed -> "given up"
                              [] OTHER -> "none"]
Users == [v \in Vaddrs |-> IF v \in handles THEN readers[v] \cup ({writer[v]} \ {Nobody}) ELSE {}]


\* An object that a caller has is not being freed, so that it is in one state.
LEMMA LiveOrGivenUp ==
  ASSUME SpaceInv
  PROVE  handles \cap BeingFreed = {}
<1>1. handles \cap garbage = {} /\ \A t \in Threads : pc[t] \in Freeing => arg[t] \notin handles
  BY DEF SpaceInv, OwnedOnce
<1> QED
  BY <1>1 DEF BeingFreed, Freeing

LEMMA ObjectIs ==
  ASSUME handles \cap BeingFreed = {}
  PROVE  /\ Object = [v \in Vaddrs |-> Object[v]]
         /\ Users = [v \in Vaddrs |-> Users[v]]
         /\ \A v \in Vaddrs :
              /\ Object[v] = IF v \in handles THEN "live" ELSE IF v \in BeingFreed THEN "given up" ELSE "none"
              /\ Users[v] = IF v \in handles THEN readers[v] \cup ({writer[v]} \ {Nobody}) ELSE {}
<1>1. Object = [v \in Vaddrs |-> IF v \in handles THEN "live" ELSE IF v \in BeingFreed THEN "given up" ELSE "none"]
  BY Zenon DEF Object
<1>2. Users = [v \in Vaddrs |-> IF v \in handles THEN readers[v] \cup ({writer[v]} \ {Nobody}) ELSE {}]
  BY DEF Users
<1> QED
  BY <1>1, <1>2

LEMMA ObjectWillBe ==
  ASSUME handles' \cap BeingFreed' = {}
  PROVE  /\ Object' = [v \in Vaddrs |-> Object'[v]]
         /\ Users' = [v \in Vaddrs |-> Users'[v]]
         /\ \A v \in Vaddrs :
              /\ Object'[v] = IF v \in handles' THEN "live" ELSE IF v \in BeingFreed' THEN "given up" ELSE "none"
              /\ Users'[v] = IF v \in handles' THEN readers'[v] \cup ({writer'[v]} \ {Nobody}) ELSE {}
<1>1. Object' = [v \in Vaddrs |-> IF v \in handles' THEN "live" ELSE IF v \in BeingFreed' THEN "given up" ELSE "none"]
  BY Zenon DEF Object
<1>2. Users' = [v \in Vaddrs |-> IF v \in handles' THEN readers'[v] \cup ({writer'[v]} \ {Nobody}) ELSE {}]
  BY DEF Users
<1> QED
  BY <1>1, <1>2

\* What is seen of the objects but v stays.
Beside(v) == \A w \in Vaddrs \ {v} :
  /\ w \in handles' <=> w \in handles
  /\ w \in BeingFreed' <=> w \in BeingFreed
  /\ w \in handles => readers'[w] = readers[w] /\ writer'[w] = writer[w]

\* A step that changes one object.
LEMMA OneObject ==
  ASSUME SpaceInv, SpaceInv', NEW v \in Vaddrs, Beside(v)
  PROVE  Object' = [Object EXCEPT ![v] = Object'[v]] /\ Users' = [Users EXCEPT ![v] = Users'[v]]
<1>1. handles \cap BeingFreed = {}
  BY LiveOrGivenUp
<1>2. handles' \cap BeingFreed' = {}
  <2>1. /\ handles' \cap garbage' = {}
        /\ \A t \in Threads : pc'[t] \in Freeing => arg'[t] \notin handles'
    BY DEF SpaceInv, OwnedOnce
  <2> QED
    BY <2>1 DEF BeingFreed, Freeing
<1>3. \A w \in Vaddrs \ {v} : Object'[w] = Object[w] /\ Users'[w] = Users[w]
  BY <1>1, <1>2, ObjectIs, ObjectWillBe DEF Beside
<1> QED
  BY <1>1, <1>2, <1>3, ObjectIs, ObjectWillBe
\* The steps of ObjectSpace, of the space as it is seen.
LEMMA SpaceSteps ==
  /\ Space!Init <=> Object = [v \in Vaddrs |-> "none"] /\ Users = [v \in Vaddrs |-> {}]
  /\ \A v \in Vaddrs : \A us \in SUBSET Threads :
       /\ Space!Alloc(v, us) <=> Object[v] = "none" /\ Object' = [Object EXCEPT ![v] = "live"]
                                 /\ Users' = [Users EXCEPT ![v] = us]
       /\ Space!Use(v, us) <=> Object[v] = "live" /\ Users' = [Users EXCEPT ![v] = us] /\ Object' = Object
  /\ \A v \in Vaddrs :
       /\ Space!GiveUp(v) <=> Users[v] = {} /\ Object[v] = "live"
                              /\ Object' = [Object EXCEPT ![v] = "given up"] /\ Users' = Users
       /\ Space!Free(v) <=> Users[v] = {} /\ Object[v] = "given up"
                            /\ Object' = [Object EXCEPT ![v] = "none"] /\ Users' = Users
  /\ Space!Delete <=> Users = [v \in Vaddrs |-> {}] /\ Object' = [v \in Vaddrs |-> "none"] /\ Users' = Users
BY DEF Object, Users, Space!Init, Space!Alloc, Space!Use, Space!GiveUp, Space!Free, Space!Delete, Space!Becomes

\* The steps that change nothing a caller can see.
LEMMA Unseen ==
  ASSUME SpaceInv, SpaceInv', handles' = handles, BeingFreed' = BeingFreed,
         \A w \in handles : readers'[w] = readers[w] /\ writer'[w] = writer[w]
  PROVE  UNCHANGED <<Object, Users>>
<1>1. handles \cap BeingFreed = {}
  BY LiveOrGivenUp
<1>2. \A w \in Vaddrs : Object'[w] = Object[w] /\ Users'[w] = Users[w]
  BY <1>1, ObjectIs, ObjectWillBe
<1> QED
  BY <1>1, <1>2, ObjectIs, ObjectWillBe

\* Whether an object is being freed depends on what is garbage and on the calls
\* that free.
LEMMA FreedByCalls ==
  ASSUME garbage' = garbage,
         \A u \in Threads : /\ pc'[u] \in {"read header", "free"} <=> pc[u] \in {"read header", "free"}
                            /\ pc[u] \in {"read header", "free"} => arg'[u] = arg[u]
  PROVE  BeingFreed' = BeingFreed
BY DEF BeingFreed

LEMMA QuietSteps ==
  ASSUME SpaceInv, SpaceInv', NEW t \in Threads,
         \/ \E n \in Requests, h \in BOOLEAN : MallocCall(t, n, h)
         \/ ReadHeader(t) \/ FilterCall(t) \/ FilterCell(t) \/ FilterWalked(t) \/ FilterReturn(t)
  PROVE  UNCHANGED <<Object, Users>>
<1>0. ShapeOK
  BY DEF SpaceInv
<1>1. UNCHANGED <<handles, garbage, readers, writer, arg>>
  BY DEF MallocCall, ReadHeader, FilterCall, FilterCell, FilterWalked, FilterReturn, callerVars, lockVars, callVars
<1>2. \A u \in Threads : pc'[u] \in {"read header", "free"} <=> pc[u] \in {"read header", "free"}
  <2>1. \/ pc[t] = "idle" /\ pc' = [pc EXCEPT ![t] = "throw"]
        \/ pc[t] = "read header" /\ pc' = [pc EXCEPT ![t] = "free"]
        \/ pc[t] = "idle" /\ pc' = [pc EXCEPT ![t] = "filter"]
        \/ pc' = pc
        \/ pc[t] = "filter" /\ pc' = [pc EXCEPT ![t] = "pop"]
        \/ pc[t] = "pop" /\ pc' = [pc EXCEPT ![t] = "idle"]
    BY DEF MallocCall, ReadHeader, FilterCall, FilterCell, FilterWalked, FilterReturn, Goto, callVars
  <2>2. pc = [u \in Threads |-> pc[u]]
    BY <1>0 DEF ShapeOK
  <2> QED
    BY <2>1, <2>2
<1>3. BeingFreed' = BeingFreed
  BY <1>1, <1>2, FreedByCalls
<1> QED
  BY <1>1, <1>3, Unseen

LEMMA PlacingSteps ==
  ASSUME SpaceInv, SpaceInv', NEW t \in Threads, Throw(t) \/ NewBlock(t)
  PROVE  UNCHANGED <<Object, Users>>
<1>0. ShapeOK /\ OwnedOnce
  BY DEF SpaceInv
<1>1. /\ pc[t] \in {"throw", "new block"}
      /\ \E l \in {"header", "throw", "new block", "new header", "crashed"} : pc' = [pc EXCEPT ![t] = l]
      /\ UNCHANGED <<handles, garbage>>
  BY DEF Throw, NewBlock, Goto, callerVars
<1>2. \/ UNCHANGED <<readers, writer, arg>>
      \/ \E v \in Vaddrs : /\ place[v] = Null /\ readers' = readers
                           /\ writer' = [writer EXCEPT ![v] = t] /\ arg' = [arg EXCEPT ![t] = v]
  BY DEF Throw, NewBlock, Place, lockVars
<1>3. \A u \in Threads : /\ pc'[u] \in {"read header", "free"} <=> pc[u] \in {"read header", "free"}
                         /\ pc[u] \in {"read header", "free"} => arg'[u] = arg[u]
  <2>1. pc = [u \in Threads |-> pc[u]] /\ arg = [u \in Threads |-> arg[u]]
    BY <1>0 DEF ShapeOK
  <2> QED
    BY <1>1, <1>2, <2>1
<1>4. BeingFreed' = BeingFreed
  BY <1>1, <1>3, FreedByCalls
<1>5. \A w \in handles : w \in Vaddrs /\ place[w] # Null
  BY <1>0 DEF OwnedOnce, ShapeOK
<1>6. writer = [v \in Vaddrs |-> writer[v]]
  BY <1>0 DEF ShapeOK
<1>7. \A w \in handles : readers'[w] = readers[w] /\ writer'[w] = writer[w]
  BY <1>2, <1>5, <1>6
<1> QED
  BY <1>1, <1>4, <1>7, Unseen

\* ms_filter's pop frees what was garbage already.
LEMMA PopStep ==
  ASSUME SpaceInv, SpaceInv', NEW t \in Threads, FilterPop(t)
  PROVE  UNCHANGED <<Object, Users>>
<1>0. ShapeOK /\ OwnedOnce /\ SweepIsSound
  BY DEF SpaceInv
<1>1. /\ pc[t] = "pop" /\ removeStack # <<>>
      /\ pc' = [pc EXCEPT ![t] = "read header"]
      /\ arg' = [arg EXCEPT ![t] = removeStack[Len(removeStack)]]
      /\ UNCHANGED <<handles, garbage, readers, writer>>
  BY DEF FilterPop, Goto, Last, callerVars, lockVars
<1>2. \A u \in Threads : /\ pc'[u] = IF u = t THEN "read header" ELSE pc[u]
                         /\ arg'[u] = IF u = t THEN removeStack[Len(removeStack)] ELSE arg[u]
  <2>1. pc = [u \in Threads |-> pc[u]] /\ arg = [u \in Threads |-> arg[u]]
    BY <1>0 DEF ShapeOK
  <2> QED
    BY <1>1, <2>1
<1>3. removeStack[Len(removeStack)] \in garbage
  <2>1. removeStack \in Seq(Vaddrs)
    BY <1>0 DEF ShapeOK
  <2>2. Len(removeStack) \in 1..Len(removeStack)
    <3>1. removeStack # <<>>
      BY <1>1
    <3>2. Len(removeStack) # 0
      BY <2>1, <3>1, EmptySeq
    <3>3. Len(removeStack) \in Nat
      BY <2>1
    <3> QED
      BY <3>2, <3>3
  <2> QED
    BY <1>0, <2>2 DEF SweepIsSound
<1>4. BeingFreed' = BeingFreed
  BY <1>1, <1>2, <1>3 DEF BeingFreed
<1> QED
  BY <1>1, <1>4, Unseen

\* The object of a call that makes it is not seen before the call returns.
LEMMA MakingIsUnseen ==
  ASSUME SpaceInv, NEW t \in Threads, pc[t] \in Making
  PROVE  arg[t] \in Vaddrs /\ arg[t] \notin handles /\ arg[t] \notin BeingFreed /\ t # sweeper
<1>0. OwnedOnce /\ SweepIsSound
  BY DEF SpaceInv
<1>1. arg[t] \in Vaddrs /\ arg[t] \notin handles
  BY <1>0 DEF OwnedOnce
<1>2. t # sweeper
  <2>1. t # Nobody
    BY NumbersAndNames
  <2> QED
    BY <1>0, <2>1 DEF SweepIsSound, Making, Filtering, Freeing
<1>3. arg[t] \notin garbage
  BY <1>0, <1>2 DEF OwnedOnce
<1>4. \A u \in Threads : pc[u] \in {"read header", "free"} => arg[u] # arg[t]
  BY <1>0 DEF OwnedOnce, Making, Freeing
<1> QED
  BY <1>1, <1>2, <1>3, <1>4 DEF BeingFreed

\* Nobody but its maker has a lock on it then.
LEMMA MakerHasLock ==
  ASSUME SpaceInv, NEW t \in Threads, pc[t] \in Making
  PROVE  readers[arg[t]] = {} /\ writer[arg[t]] \in {Nobody, t}
<1>0. ShapeOK /\ OwnedOnce /\ LocksAreOwned
  BY DEF SpaceInv
<1>1. arg[t] \in Vaddrs \ handles
  BY MakingIsUnseen
<1>2. readers[arg[t]] = {}
  BY <1>0, <1>1 DEF LocksAreOwned
<1>3. writer[arg[t]] \in Threads \cup {Nobody}
  BY <1>0, <1>1, Kinds
<1>4. writer[arg[t]] # Nobody => writer[arg[t]] = t
  <2> SUFFICES ASSUME writer[arg[t]] # Nobody PROVE writer[arg[t]] = t
    OBVIOUS
  <2>1. pc[writer[arg[t]]] \in Making /\ arg[writer[arg[t]]] = arg[t]
    BY <1>0, <1>1 DEF LocksAreOwned
  <2> QED
    BY <1>0, <1>3, <2>1 DEF OwnedOnce
<1> QED
  BY <1>2, <1>3, <1>4

LEMMA AllocNext ==
  ASSUME NEW t \in Threads, NEW v \in Vaddrs, NEW us \in {{}, {t}},
         Object[v] = "none", Object' = [Object EXCEPT ![v] = "live"], Users' = [Users EXCEPT ![v] = us]
  PROVE  Space!Next
<1>1. Space!Alloc(v, us)
  <2>1. us \in SUBSET Threads
    OBVIOUS
  <2> QED
    BY <2>1, SpaceSteps
<1>2. us = {} \/ us = {t}
  OBVIOUS
<1> QED
  BY <1>1, <1>2 DEF Space!Next

\* A call of ms_malloc_p returns: the object appears, with its maker's lock or none.
LEMMA ReturnsObject ==
  ASSUME SpaceInv, SpaceInv', NEW t \in Threads, pc[t] \in Making,
         handles' = handles \cup {arg[t]}, readers' = readers, garbage' = garbage,
         \A w \in Vaddrs \ {arg[t]} : writer'[w] = writer[w],
         writer'[arg[t]] \in {Nobody, writer[arg[t]]},
         \A u \in Threads : /\ pc'[u] = IF u = t THEN "idle" ELSE pc[u]
                            /\ u # t => arg'[u] = arg[u]
  PROVE  Space!Next
<1> DEFINE v == arg[t]
<1>1. v \in Vaddrs /\ v \notin handles /\ v \notin BeingFreed
  BY MakingIsUnseen
<1>2. BeingFreed' = BeingFreed
  BY FreedByCalls DEF Making
<1>3. readers[v] = {} /\ writer'[v] \in {Nobody, t}
  BY MakerHasLock
<1>4. Object[v] = "none" /\ Object' = [Object EXCEPT ![v] = "live"]
  <2>1. handles \cap BeingFreed = {} /\ handles' \cap BeingFreed' = {}
    BY <1>1, <1>2, LiveOrGivenUp
  <2>2. Object[v] = "none" /\ Object'[v] = "live"
    BY <1>1, <2>1, ObjectIs, ObjectWillBe
  <2>3. Beside(v)
    BY <1>2 DEF Beside
  <2> QED
    BY <1>1, <2>2, <2>3, OneObject
<1>5. Users' = [Users EXCEPT ![v] = {writer'[v]} \ {Nobody}]
  <2>1. handles' \cap BeingFreed' = {}
    BY <1>1, <1>2, LiveOrGivenUp
  <2>2. Users'[v] = {writer'[v]} \ {Nobody}
    BY <1>1, <1>3, <2>1, ObjectWillBe
  <2>3. Beside(v)
    BY <1>2 DEF Beside
  <2> QED
    BY <1>1, <2>2, <2>3, OneObject
<1>6. {writer'[v]} \ {Nobody} \in {{}, {t}}
  BY <1>3
<1> HIDE DEF v
<1> QED
  BY <1>1, <1>4, <1>5, <1>6, AllocNext

LEMMA HeaderSteps ==
  ASSUME SpaceInv, SpaceInv', NEW t \in Threads, WriteHeader(t)
  PROVE  Space!Next \/ UNCHANGED <<Object, Users>>
<1>0. ShapeOK
  BY DEF SpaceInv
<1>1. /\ pc[t] \in Making /\ arg[t] \in Vaddrs
      /\ readers' = readers /\ garbage' = garbage
      /\ writer' = writer \/ writer' = [writer EXCEPT ![arg[t]] = Nobody]
  BY MakingIsUnseen DEF WriteHeader, Making
<1>2. /\ writer'[arg[t]] \in {Nobody, writer[arg[t]]}
      /\ \A w \in Vaddrs \ {arg[t]} : writer'[w] = writer[w]
  <2>1. writer = [v \in Vaddrs |-> writer[v]]
    BY <1>0 DEF ShapeOK
  <2> QED
    BY <1>1, <2>1
<1>3. pc = [u \in Threads |-> pc[u]] /\ arg = [u \in Threads |-> arg[u]]
  BY <1>0 DEF ShapeOK
<1>4. CASE pc[t] = "header"
  <2>1. /\ handles' = handles \cup {arg[t]}
        /\ pc' = [pc EXCEPT ![t] = "idle"] /\ arg' = [arg EXCEPT ![t] = Null]
    BY <1>4 DEF WriteHeader, Return, Goto
  <2>2. \A u \in Threads : /\ pc'[u] = IF u = t THEN "idle" ELSE pc[u]
                           /\ u # t => arg'[u] = arg[u]
    BY <1>3, <2>1
  <2> QED
    BY <1>1, <1>2, <2>1, <2>2, ReturnsObject
<1>5. CASE pc[t] = "new header"
  <2>1. UNCHANGED <<handles, arg>> /\ pc' = [pc EXCEPT ![t] = "add block"]
    BY <1>5 DEF WriteHeader, Goto
  <2>2. BeingFreed' = BeingFreed
    BY <1>1, <1>3, <1>5, <2>1, FreedByCalls
  <2>3. arg[t] \notin handles /\ handles \subseteq Vaddrs
    BY <1>0, <1>1, MakingIsUnseen DEF ShapeOK
  <2>4. \A w \in handles : readers'[w] = readers[w] /\ writer'[w] = writer[w]
    BY <1>1, <1>2, <2>3
  <2> QED
    BY <2>1, <2>2, <2>4, Unseen
<1>6. pc[t] \in {"header", "new header"}
  BY DEF WriteHeader
<1> QED
  BY <1>4, <1>5, <1>6

LEMMA AddSteps ==
  ASSUME SpaceInv, SpaceInv', NEW t \in Threads, AddBlock(t)
  PROVE  Space!Next
<1>0. pc = [u \in Threads |-> pc[u]] /\ arg = [u \in Threads |-> arg[u]]
  BY DEF SpaceInv, ShapeOK
<1>1. /\ pc[t] \in Making /\ handles' = handles \cup {arg[t]}
      /\ UNCHANGED <<readers, writer, garbage>>
      /\ pc' = [pc EXCEPT ![t] = "idle"] /\ arg' = [arg EXCEPT ![t] = Null]
  BY DEF AddBlock, Return, Goto, lockVars, Making
<1>2. \A u \in Threads : /\ pc'[u] = IF u = t THEN "idle" ELSE pc[u]
                         /\ u # t => arg'[u] = arg[u]
  BY <1>0, <1>1
<1>3. \A w \in Vaddrs \ {arg[t]} : writer'[w] = writer[w]
  BY <1>1
<1>4. writer'[arg[t]] \in {Nobody, writer[arg[t]]}
  BY <1>1
<1>5. readers' = readers /\ garbage' = garbage
  BY <1>1
<1> QED
  BY <1>1, <1>2, <1>3, <1>4, <1>5, ReturnsObject

\* An object nobody uses is given up, to a call of ms_free or to ms_filter.
LEMMA GivesUp ==
  ASSUME SpaceInv, SpaceInv', NEW v \in handles, WriteFree(v),
         handles' = handles \ {v}, BeingFreed' = BeingFreed \cup {v}, UNCHANGED <<readers, writer>>
  PROVE  Space!Next
<1>1. v \in Vaddrs
  BY DEF SpaceInv, ShapeOK
<1>2. handles \cap BeingFreed = {} /\ handles' \cap BeingFreed' = {}
  BY LiveOrGivenUp
<1>3. readers[v] = {} /\ writer[v] = Nobody
  BY DEF WriteFree
<1>4. Object[v] = "live" /\ Object'[v] = "given up"
  BY <1>1, <1>2, ObjectIs, ObjectWillBe
<1>5. Users[v] = {} /\ Users'[v] = {}
  BY <1>1, <1>2, <1>3, ObjectIs, ObjectWillBe
<1>6. Object' = [Object EXCEPT ![v] = Object'[v]] /\ Users' = [Users EXCEPT ![v] = Users'[v]]
  <2>1. Beside(v)
    BY DEF Beside
  <2> QED
    BY <1>1, <2>1, OneObject
<1>7. Users' = Users
  <2>1. Users = [w \in Vaddrs |-> Users[w]]
    BY <1>2, ObjectIs
  <2> QED
    BY <1>5, <1>6, <2>1
<1>8. Space!GiveUp(v)
  BY <1>1, <1>4, <1>5, <1>6, <1>7, SpaceSteps
<1> QED
  BY <1>1, <1>8 DEF Space!Next

LEMMA GiveUpSteps ==
  ASSUME SpaceInv, SpaceInv', NEW v \in Vaddrs, GiveUp(v) \/ \E t \in Threads : FreeCall(t, v)
  PROVE  Space!Next
<1>1. CASE GiveUp(v)
  <2>1. /\ v \in handles /\ WriteFree(v) /\ handles' = handles \ {v}
        /\ garbage' = garbage \cup {v} /\ UNCHANGED <<readers, writer, pc, arg>>
    BY <1>1 DEF GiveUp, lockVars, callVars
  <2>2. BeingFreed' = BeingFreed \cup {v}
    BY <2>1 DEF BeingFreed
  <2> QED
    BY <2>1, <2>2, GivesUp
<1>2. ASSUME NEW t \in Threads, FreeCall(t, v)
      PROVE  Space!Next
  <2>1. /\ v \in handles /\ WriteFree(v) /\ handles' = handles \ {v} /\ pc[t] = "idle"
        /\ UNCHANGED <<readers, writer, garbage>>
        /\ pc' = [pc EXCEPT ![t] = "read header"] /\ arg' = [arg EXCEPT ![t] = v]
    BY <1>2 DEF FreeCall, Goto, lockVars
  <2>2. \A u \in Threads : /\ pc'[u] = IF u = t THEN "read header" ELSE pc[u]
                           /\ arg'[u] = IF u = t THEN v ELSE arg[u]
    <3>1. pc = [u \in Threads |-> pc[u]] /\ arg = [u \in Threads |-> arg[u]]
      BY DEF SpaceInv, ShapeOK
    <3> QED
      BY <2>1, <3>1
  <2>3. BeingFreed' = BeingFreed \cup {v}
    BY <2>1, <2>2 DEF BeingFreed
  <2> QED
    BY <2>1, <2>3, GivesUp
<1> QED
  BY <1>1, <1>2

\* mb_free frees what was given up, which nobody can have locked since.
LEMMA FreesGivenUp ==
  ASSUME SpaceInv, SpaceInv', NEW t \in Threads, MbFree(t)
  PROVE  Space!Next
<1> DEFINE v == arg[t]
<1>0. ShapeOK /\ OwnedOnce
  BY DEF SpaceInv
<1>1. /\ pc[t] = "free" /\ UNCHANGED <<handles, readers, writer>>
      /\ garbage' = garbage \ {v}
      /\ \E l \in {"pop", "idle"} : pc' = [pc EXCEPT ![t] = l]
      /\ arg' = [arg EXCEPT ![t] = Null]
  BY DEF MbFree, Goto, lockVars
<1>2. v \in Vaddrs /\ v \notin handles
  BY <1>0, <1>1 DEF OwnedOnce, Freeing
<1>3. \A u \in Threads : /\ u # t => pc'[u] = pc[u] /\ arg'[u] = arg[u]
                         /\ pc'[t] \notin {"read header", "free"}
  <2>1. pc = [u \in Threads |-> pc[u]] /\ arg = [u \in Threads |-> arg[u]]
    BY <1>0 DEF ShapeOK
  <2> QED
    BY <1>1, <2>1
<1>4. \A u \in Threads : pc[u] \in {"read header", "free"} /\ arg[u] = v => u = t
  BY <1>0, <1>1 DEF OwnedOnce, Freeing
<1>5. v \in BeingFreed
  BY <1>1 DEF BeingFreed
<1>6. BeingFreed' = BeingFreed \ {v}
  <2>1. BeingFreed' \subseteq BeingFreed \ {v}
    BY <1>1, <1>3, <1>4 DEF BeingFreed
  <2>2. BeingFreed \ {v} \subseteq BeingFreed'
    BY <1>1, <1>3 DEF BeingFreed
  <2> QED
    BY <2>1, <2>2
<1>7. handles \cap BeingFreed = {} /\ handles' \cap BeingFreed' = {}
  BY <1>1, <1>6, LiveOrGivenUp
<1> HIDE DEF v
<1>8. Object[v] = "given up" /\ Object'[v] = "none" /\ Users[v] = {} /\ Users'[v] = {}
  BY <1>1, <1>2, <1>5, <1>6, <1>7, ObjectIs, ObjectWillBe
<1>9. Object' = [Object EXCEPT ![v] = Object'[v]] /\ Users' = [Users EXCEPT ![v] = Users'[v]]
  <2>1. Beside(v)
    BY <1>1, <1>6 DEF Beside
  <2> QED
    BY <1>2, <2>1, OneObject
<1>10. Users' = Users
  <2>1. Users = [w \in Vaddrs |-> Users[w]]
    BY <1>7, ObjectIs
  <2> QED
    BY <1>8, <1>9, <2>1
<1>11. \E w \in Vaddrs : Space!Free(w)
  BY <1>2, <1>8, <1>9, <1>10, SpaceSteps
<1> QED
  BY <1>11 DEF Space!Next

LEMMA UseNext ==
  ASSUME NEW v \in Vaddrs, NEW us \in SUBSET Threads,
         Object[v] = "live", Object' = Object, Users' = [Users EXCEPT ![v] = us]
  PROVE  Space!Next
<1>1. Space!Use(v, us)
  BY SpaceSteps
<1>2. \E w \in SUBSET Threads : Space!Use(v, w)
  BY <1>1
<1> QED
  BY <1>2 DEF Space!Next

\* Whoever locks or unlocks an object does so while a caller has it.
LEMMA UsesObject ==
  ASSUME SpaceInv, SpaceInv', NEW v \in handles, handles' = handles, BeingFreed' = BeingFreed,
         \A w \in Vaddrs \ {v} : readers'[w] = readers[w] /\ writer'[w] = writer[w]
  PROVE  Space!Next
<1>1. v \in Vaddrs /\ handles \cap BeingFreed = {} /\ handles' \cap BeingFreed' = {}
  BY LiveOrGivenUp DEF SpaceInv, ShapeOK
<1>2. Object[v] = "live" /\ Object'[v] = "live" /\ Users'[v] = readers'[v] \cup ({writer'[v]} \ {Nobody})
  BY <1>1, ObjectIs, ObjectWillBe
<1>3. Users'[v] \in SUBSET Threads
  <2>1. writer' \in [Vaddrs -> Threads \cup {Nobody}] /\ readers' \in [Vaddrs -> SUBSET Threads]
    BY DEF SpaceInv, ShapeOK
  <2>2. writer'[v] \in Threads \cup {Nobody} /\ readers'[v] \in SUBSET Threads
    BY <1>1, <2>1
  <2> QED
    BY <1>2, <2>2
<1>4. Object' = [Object EXCEPT ![v] = Object'[v]] /\ Users' = [Users EXCEPT ![v] = Users'[v]]
  <2>1. Beside(v)
    BY <1>1 DEF Beside
  <2> QED
    BY <1>1, <2>1, OneObject
<1>5. Object' = Object
  <2>1. Object = [w \in Vaddrs |-> Object[w]]
    BY <1>1, ObjectIs
  <2> QED
    BY <1>2, <1>4, <2>1
<1>6. PICK us \in SUBSET Threads : us = Users'[v]
  BY <1>3
<1> QED
  BY <1>1, <1>2, <1>4, <1>5, <1>6, UseNext

LEMMA UserSteps ==
  ASSUME SpaceInv, SpaceInv', NEW t \in Threads, NEW v \in Vaddrs,
         GetWrite(t, v) \/ GetRead(t, v) \/ Unlock(t, v)
  PROVE  Space!Next
<1>1. UNCHANGED <<handles, garbage, pc, arg>>
  BY DEF GetWrite, GetRead, Unlock, callerVars, callVars
<1>2. v \in handles
  BY IdleLocks DEF GetWrite, GetRead, Unlock
<1>3. /\ writer' = writer \/ \E u \in Threads \cup {Nobody} : writer' = [writer EXCEPT ![v] = u]
      /\ readers' = readers \/ \E us \in {readers[v] \cup {t}, readers[v] \ {t}} : readers' = [readers EXCEPT ![v] = us]
  BY DEF GetWrite, GetRead, Unlock
<1>4. \A w \in Vaddrs \ {v} : readers'[w] = readers[w] /\ writer'[w] = writer[w]
  <2>1. writer = [w \in Vaddrs |-> writer[w]] /\ readers = [w \in Vaddrs |-> readers[w]]
    BY DEF SpaceInv, ShapeOK
  <2> QED
    BY <1>3, <2>1
<1>5. BeingFreed' = BeingFreed
  BY <1>1 DEF BeingFreed
<1> QED
  BY <1>1, <1>2, <1>4, <1>5, UsesObject

LEMMA DeletesAll ==
  ASSUME SpaceInv, SpaceInv', Renew
  PROVE  Space!Next
<1>1. /\ \A t \in Threads : pc[t] = "idle" /\ pc' = pc
      /\ \A v \in Vaddrs : writer[v] = Nobody /\ readers[v] = {}
      /\ handles' = {} /\ garbage' = {} /\ UNCHANGED <<writer, readers>>
  BY DEF Renew, WriteFree, lockVars, callVars
<1>2. handles \cap BeingFreed = {} /\ BeingFreed' = {}
  <2>1. BeingFreed' = {}
    BY <1>1 DEF BeingFreed
  <2> QED
    BY <2>1, LiveOrGivenUp
<1>3. \A v \in Vaddrs : Users[v] = {} /\ Users'[v] = {} /\ Object'[v] = "none"
  BY <1>1, <1>2, ObjectIs, ObjectWillBe
<1>4. /\ Users = [v \in Vaddrs |-> Users[v]] /\ Users' = [v \in Vaddrs |-> Users'[v]]
      /\ Object' = [v \in Vaddrs |-> Object'[v]]
  BY <1>1, <1>2, ObjectIs, ObjectWillBe
<1>5. Users = [v \in Vaddrs |-> {}] /\ Object' = [v \in Vaddrs |-> "none"] /\ Users' = Users
  BY <1>3, <1>4
<1>6. Space!Delete
  BY <1>5, SpaceSteps
<1> QED
  BY <1>6 DEF Space!Next

LEMMA StepMaps ==
  ASSUME SpaceInv, SpaceInv', [Next]_vars
  PROVE  Space!Next \/ UNCHANGED <<Object, Users>>
<1>1. CASE UNCHANGED vars
  <2>1. UNCHANGED <<handles, garbage, readers, writer, pc, arg>>
    BY <1>1 DEF vars, callerVars, lockVars, callVars
  <2>2. BeingFreed' = BeingFreed
    BY <2>1 DEF BeingFreed
  <2> QED
    BY <2>1, <2>2, Unseen
<1>2. ASSUME NEW t \in Threads,
             \/ \E n \in Requests, h \in BOOLEAN : MallocCall(t, n, h)
             \/ ReadHeader(t) \/ FilterCall(t) \/ FilterCell(t) \/ FilterWalked(t) \/ FilterReturn(t)
      PROVE  UNCHANGED <<Object, Users>>
  BY <1>2, QuietSteps
<1>3. ASSUME NEW t \in Threads, Throw(t) \/ NewBlock(t) \/ FilterPop(t)
      PROVE  UNCHANGED <<Object, Users>>
  BY <1>3, PlacingSteps, PopStep
<1>4. ASSUME NEW t \in Threads, WriteHeader(t) \/ AddBlock(t) \/ MbFree(t)
      PROVE  Space!Next \/ UNCHANGED <<Object, Users>>
  BY <1>4, HeaderSteps, AddSteps, FreesGivenUp
<1>5. ASSUME NEW v \in Vaddrs,
             GiveUp(v) \/ \E t \in Threads : FreeCall(t, v) \/ GetWrite(t, v) \/ GetRead(t, v) \/ Unlock(t, v)
      PROVE  Space!Next
  BY <1>5, GiveUpSteps, UserSteps
<1>6. CASE Renew
  BY <1>6, DeletesAll
<1> QED
  BY <1>1, <1>2, <1>3, <1>4, <1>5, <1>6 DEF Next

LEMMA InitMaps == Init => Space!Init
<1> SUFFICES ASSUME Init PROVE Space!Init
  OBVIOUS
<1>1. handles = {} /\ BeingFreed = {}
  BY DEF Init, BeingFreed
<1>2. \A v \in Vaddrs : Object[v] = "none" /\ Users[v] = {}
  BY <1>1, ObjectIs
<1>3. Object = [v \in Vaddrs |-> Object[v]] /\ Users = [v \in Vaddrs |-> Users[v]]
  BY <1>1, ObjectIs
<1>4. Object = [v \in Vaddrs |-> "none"] /\ Users = [v \in Vaddrs |-> {}]
  BY <1>2, <1>3
<1> QED
  BY <1>4, SpaceSteps

-----------------------------------------------------------------------------
\* Whatever the number of callers, addresses, blocks and the sizes they ask for,
\* the invariant holds in every state of a space.
THEOREM SpaceHolds == Spec => []SpaceInv
<1>1. Init => SpaceInv
  BY InitSpace
<1>2. SpaceInv /\ [Next]_vars => SpaceInv'
  BY NextKeeps
<1> QED
  BY <1>1, <1>2, PTL DEF Spec

\* ms_free and ms_filter find in the header of an object the block it lies in
\* (ms.c:239), and free there, whatever other calls run beside them.
THEOREM HeadersHold == Spec => []HeadersAreTrue
<1>1. SpaceInv => HeadersAreTrue
  BY HeadersFollow
<1> QED
  BY <1>1, SpaceHolds, PTL

\* mem_space_add_mb_unsafe puts every block on the list once, and the first
\* malloc in a new block never fails (ms.c:190).
THEOREM BlocksHold == Spec => []BlocksAreListed
<1>1. SpaceInv => BlocksAreListed
  BY BlocksFollow
<1> QED
  BY <1>1, SpaceHolds, PTL

\* The calls of ms.h do to the objects what ObjectSpace allows: one that is given
\* out stays until it is given up, and nobody uses it when it goes.
THEOREM SpaceIsObjectSpace == Spec => ImplementsObjectSpace
<1>1. Init => Space!Init
  BY InitMaps
<1>2. SpaceInv /\ SpaceInv' /\ [Next]_vars => [Space!Next]_<<Object, Users>>
  BY StepMaps
<1> QED
  BY <1>1, <1>2, SpaceHolds, PTL DEF Spec, ImplementsObjectSpace, Space!Spec, Object, Users
=============================================================================
