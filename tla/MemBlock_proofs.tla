--------------------------- MODULE MemBlock_proofs ---------------------------
(***************************************************************************)
(* Proofs about the memory block.  The tags are argued about apart from    *)
(* the threads: each of the three ways a call changes them (the head of    *)
(* the list is taken, two pieces become one, a piece moves into the free   *)
(* piece before it) keeps a tiling (Tiled), with no two free pieces side   *)
(* by side (Spread), and a list that has the free pieces, the largest      *)
(* first (Listed).  Who owns an address (OwnedOnce) and its lock           *)
(* (LocksAreOwned) then says that what a call found under mem_lck is       *)
(* still there when it changes it (CallIsTrue).                            *)
(***************************************************************************)
EXTENDS MemBlock, FiniteSetTheorems, SequenceTheorems, WellFoundedInduction, TLAPS

-----------------------------------------------------------------------------
(***************************************************************************)
(* The invariant.  T is what the block has in tags, or will have.          *)
(***************************************************************************)
Tags == [head : [Offsets -> 0..(Cap + 1)], foot : [Offsets -> 0..(Cap + 1)]]

In(T) == {o \in Offsets : T.head[o] # 0}
Size(T, o) == TagSize(T.head[o])
IsFree(T, o) == T.head[o] % 2 = 0
End(T, o) == o + Size(T, o)
FreeIn(T) == {o \in In(T) : IsFree(T, o)}
AllocIn(T) == In(T) \ FreeIn(T)

Good(n) == n \in Nat /\ n % 2 = 0 /\ n >= MinSize

\* The pieces of T tile the block, and the piece before a piece is where the
\* footer says.
Tiled(T) ==
  /\ 0 \in In(T)
  /\ \A o \in In(T) :
       /\ Good(Size(T, o))
       /\ End(T, o) \in In(T) \cup {Cap}
       /\ \A p \in In(T) : p <= o \/ End(T, o) <= p
       /\ T.foot[End(T, o)] = T.head[o]
       /\ o = 0 \/ \E p \in In(T) : End(T, p) = o

Spread(T) == \A o \in FreeIn(T) : End(T, o) \notin FreeIn(T)

\* The list has each piece of S once, the largest first.
Listed(list, S, T) ==
  /\ list \in Seq(Offsets)
  /\ \A i \in 1..Len(list) : list[i] \in S
  /\ \A o \in S : \E i \in 1..Len(list) : list[i] = o
  /\ \A i, j \in 1..Len(list) : i # j => list[i] # list[j]
  /\ \A i, j \in 1..Len(list) : i < j => Size(T, list[i]) >= Size(T, list[j])

BlockOK(T, list) == T \in Tags /\ Tiled(T) /\ Spread(T) /\ Listed(list, FreeIn(T), T)

\* An allocated piece and its address name each other, and it holds what was asked for.
Named ==
  /\ \A o \in AllocIn(tags) : owner[o] \in Vaddrs /\ paddr[owner[o]] = o
  /\ \A v \in Vaddrs : paddr[v] # Null =>
       /\ paddr[v] \in AllocIn(tags) /\ owner[paddr[v]] = v
       /\ need[v] \in Nat \ {0} /\ need[v] + Pad <= Size(tags, paddr[v])

Freeing == {"free", "read", "discard"}

\* Every address of the book has one owner, a caller or the call that frees it.
OwnedOnce ==
  /\ \A v \in handles : paddr[v] # Null
  /\ \A v \in Vaddrs : paddr[v] # Null => v \in handles \/ \E t \in Threads : pc[t] \in Freeing /\ arg[t] = v
  /\ \A t \in Threads : pc[t] \in Freeing =>
       /\ arg[t] \in Vaddrs /\ arg[t] \notin handles /\ paddr[arg[t]] # Null
       /\ \A u \in Threads : pc[u] \in Freeing /\ arg[u] = arg[t] => u = t

\* Nobody but a shift has a lock on what no caller has.
LocksAreOwned ==
  /\ \A v \in Vaddrs : writer[v] # Nobody => readers[v] = {}
  /\ \A v \in Vaddrs \ handles :
       /\ readers[v] = {}
       /\ writer[v] # Nobody => pc[writer[v]] = "move" /\ arg[writer[v]] = v

\* What the call that has mem_lck works with.
CallIsTrue ==
  /\ \A t \in Threads : pc[t] \in {"read", "discard", "move"} => memLck = t
  /\ \A t \in Threads : pc[t] = "discard" => piece[t] = paddr[arg[t]]
  /\ \A t \in Threads : pc[t] = "move" =>
       /\ arg[t] \in Vaddrs /\ writer[arg[t]] = t
       /\ piece[t] \in FreeIn(tags) /\ paddr[arg[t]] = End(tags, piece[t])

BlockInv == TypeOK /\ BlockOK(tags, sizeFree) /\ Named /\ OwnedOnce /\ LocksAreOwned /\ CallIsTrue

-----------------------------------------------------------------------------
(***************************************************************************)
(* Numbers.                                                                *)
(***************************************************************************)
Even(n) == n % 2 = 0

LEMMA EvenSums ==
  ASSUME NEW m \in Nat, NEW n \in Nat, Even(m), Even(n)
  PROVE  Even(m + n) /\ (m >= n => m - n \in Nat /\ Even(m - n))
BY DEF Even

LEMMA Padded ==
  ASSUME NEW n \in Nat
  PROVE  Good(PadNumBytes(n)) /\ PadNumBytes(n) >= n + Pad
<1>1. Pad \in Nat /\ Pad % 2 = 0
  BY MemBlockAssumption
<1>2. RoundNumBytes(n) \in Nat /\ RoundNumBytes(n) >= n /\ RoundNumBytes(n) % 2 = 0
  BY DEF RoundNumBytes
<1>3. MinSize \in Nat /\ MinSize % 2 = 0
  BY <1>1 DEF MinSize
<1>4. RoundNumBytes(n) + Pad \in Nat /\ (RoundNumBytes(n) + Pad) % 2 = 0
  BY <1>1, <1>2
<1> QED
  BY <1>1, <1>2, <1>3, <1>4 DEF PadNumBytes, Good

LEMMA CapIsGood == Cap \in Nat /\ Good(Cap) /\ 0 \in Offsets /\ Cap \in Offsets
<1>1. Pad \in Nat /\ Pad % 2 = 0 /\ MinBytes \in Nat \ {0}
  BY MemBlockAssumption
<1>2. RoundNumBytes(MinBytes) \in Nat /\ RoundNumBytes(MinBytes) >= 2 /\ RoundNumBytes(MinBytes) % 2 = 0
  BY <1>1 DEF RoundNumBytes
<1>3. Cap \in Nat /\ Cap % 2 = 0 /\ Cap >= Pad + 2
  BY <1>1, <1>2 DEF Cap
<1> QED
  BY <1>3 DEF Good, MinSize, Offsets

\* The two kinds of tags.
AllocTag(n) == Tag(n, TRUE)
FreeTag(n) == Tag(n, FALSE)

LEMMA TagReads ==
  ASSUME NEW n, Good(n), n <= Cap
  PROVE  /\ AllocTag(n) \in 1..(Cap + 1) /\ TagSize(AllocTag(n)) = n /\ AllocTag(n) % 2 = 1
         /\ FreeTag(n) \in 1..(Cap + 1) /\ TagSize(FreeTag(n)) = n /\ FreeTag(n) % 2 = 0
<1>1. n \in Nat /\ n % 2 = 0 /\ n >= 2 /\ Cap \in Nat
  BY CapIsGood, MemBlockAssumption DEF Good, MinSize
<1>2. AllocTag(n) = n + 1 /\ FreeTag(n) = n
  BY <1>1 DEF Tag, AllocTag, FreeTag
<1>3. (n + 1) % 2 = 1 /\ n + 1 \in 1..(Cap + 1) /\ n \in 1..(Cap + 1)
  BY <1>1
<1>4. TagSize(n + 1) = n /\ TagSize(n) = n
  BY <1>1, <1>3 DEF TagSize
<1> QED
  BY <1>1, <1>2, <1>3, <1>4

\* A tag is a size and a bit.
LEMMA TagIs ==
  ASSUME NEW x \in 0..(Cap + 1)
  PROVE  TagSize(x) \in Nat /\ (x % 2 = 0 \/ x % 2 = 1)
BY CapIsGood DEF TagSize

-----------------------------------------------------------------------------
(***************************************************************************)
(* Tilings.                                                                *)
(***************************************************************************)
LEMMA PieceFacts ==
  ASSUME NEW T \in Tags, Tiled(T), NEW o \in In(T)
  PROVE  /\ o \in 0..Cap /\ o \in Nat /\ o < Cap /\ Cap \in Nat
         /\ Good(Size(T, o)) /\ Size(T, o) \in Nat /\ Size(T, o) >= 2
         /\ End(T, o) = o + Size(T, o) /\ End(T, o) \in In(T) \cup {Cap}
         /\ End(T, o) \in 0..Cap /\ o < End(T, o)
         /\ T.foot[End(T, o)] = T.head[o]
         /\ \A p \in In(T) : p <= o \/ End(T, o) <= p
<1>1. Cap \in Nat /\ In(T) \subseteq 0..Cap
  BY CapIsGood DEF In, Offsets
<1>2. Good(Size(T, o)) /\ End(T, o) \in In(T) \cup {Cap} /\ T.foot[End(T, o)] = T.head[o]
      /\ \A p \in In(T) : p <= o \/ End(T, o) <= p
  BY DEF Tiled
<1>3. Size(T, o) \in Nat /\ Size(T, o) >= 2
  BY <1>2, MemBlockAssumption DEF Good, MinSize
<1>4. End(T, o) = o + Size(T, o)
  BY DEF End
<1> QED
  BY <1>1, <1>2, <1>3, <1>4

\* The pieces from o to e become one or two: o alone, or o and m.
Recut(T, U, o, e, new) ==
  /\ U \in Tags
  /\ \A p \in Offsets : p < o \/ p >= e => U.head[p] = T.head[p]
  /\ \A p \in Offsets : p <= o \/ p > e => U.foot[p] = T.foot[p]
  /\ \A p \in Offsets : o <= p /\ p < e => (U.head[p] # 0 <=> p \in new)

LEMMA RecutPieces ==
  ASSUME NEW T \in Tags, NEW U, NEW o \in In(T), NEW e \in In(T) \cup {Cap}, o < e,
         NEW new \in SUBSET (o..(e - 1)), Tiled(T), Recut(T, U, o, e, new)
  PROVE  /\ In(U) = {p \in In(T) : p < o \/ p >= e} \cup new
         /\ \A p \in In(T) : p < o \/ p >= e => U.head[p] = T.head[p] /\ Size(U, p) = Size(T, p) /\ End(U, p) = End(T, p)
         /\ \A p \in In(T) : p < o => End(T, p) <= o
         /\ \A p \in In(T) : p < e => End(T, p) <= e
<1>1. o \in Nat /\ Cap \in Nat /\ e \in 0..Cap /\ In(T) \subseteq 0..Cap /\ Offsets = 0..Cap
  BY CapIsGood DEF In, Offsets
<1>2. \A p \in Offsets : p < o \/ p >= e => U.head[p] = T.head[p]
  BY DEF Recut
<1>3. \A p \in Offsets : o <= p /\ p < e => (U.head[p] # 0 <=> p \in new)
  BY DEF Recut
<1>4. In(U) = {p \in In(T) : p < o \/ p >= e} \cup new
  <2>1. \A p \in new : p \in Offsets /\ o <= p /\ p < e
    BY <1>1
  <2>2. ASSUME NEW p \in Offsets
        PROVE  U.head[p] # 0 <=> p \in new \/ (T.head[p] # 0 /\ (p < o \/ p >= e))
    <3>1. CASE p < o \/ p >= e
      BY <1>1, <1>2, <2>1, <3>1
    <3>2. CASE o <= p /\ p < e
      BY <1>1, <1>3, <3>2
    <3> QED
      BY <1>1, <3>1, <3>2
  <2> QED
    BY <2>1, <2>2 DEF In
<1>5. \A p \in In(T) : p < o \/ p >= e => U.head[p] = T.head[p] /\ Size(U, p) = Size(T, p) /\ End(U, p) = End(T, p)
  BY <1>1, <1>2 DEF Size, End
<1>6. \A p \in In(T) : p < o => End(T, p) <= o
  BY <1>1, PieceFacts
<1>7. \A p \in In(T) : p < e => End(T, p) <= e
  BY <1>1, PieceFacts
<1> QED
  BY <1>4, <1>5, <1>6, <1>7

\* What is cut tiles its part of the block.
TilesPart(U, o, e, new) ==
  /\ o \in new
  /\ \E q \in new : End(U, q) = e
  /\ \A q \in new :
       /\ Good(Size(U, q))
       /\ End(U, q) \in new \cup {e}
       /\ \A p \in new : p <= q \/ End(U, q) <= p
       /\ U.foot[End(U, q)] = U.head[q]
       /\ q = o \/ \E p \in new : End(U, p) = q

LEMMA RecutTiled ==
  ASSUME NEW T \in Tags, NEW U, NEW o \in In(T), NEW e \in In(T) \cup {Cap}, o < e,
         NEW new \in SUBSET (o..(e - 1)), Tiled(T), Recut(T, U, o, e, new), TilesPart(U, o, e, new)
  PROVE  Tiled(U)
<1>0. /\ o \in Nat /\ Cap \in Nat /\ e \in 0..Cap /\ In(T) \subseteq 0..Cap /\ Offsets = 0..Cap
      /\ \A p \in new : p \in Offsets /\ o <= p /\ p < e
  <2>1. o \in Nat /\ Cap \in Nat /\ e \in 0..Cap /\ In(T) \subseteq 0..Cap /\ Offsets = 0..Cap
    BY CapIsGood DEF In, Offsets
  <2>2. \A p \in new : p \in 0..Cap /\ o <= p /\ p < e
    BY <2>1
  <2> QED
    BY <2>1, <2>2
<1>1. In(U) = {p \in In(T) : p < o \/ p >= e} \cup new
  BY RecutPieces
<1>2. \A p \in In(T) : p < o \/ p >= e => U.head[p] = T.head[p] /\ Size(U, p) = Size(T, p) /\ End(U, p) = End(T, p)
  BY <1>0 DEF Recut, Size, End
<1>3. /\ \A p \in In(T) : p < o => End(T, p) <= o
      /\ \A p \in In(T) : p < e => End(T, p) <= e
  BY RecutPieces
<1>4. \A p \in In(T) : p \in 0..Cap /\ End(T, p) \in 0..Cap /\ p < End(T, p)
  BY PieceFacts
<1>5. /\ o \in new /\ \E q \in new : End(U, q) = e
      /\ \A q \in new :
           /\ Good(Size(U, q))
           /\ End(U, q) \in new \cup {e}
           /\ \A p \in new : p <= q \/ End(U, q) <= p
           /\ U.foot[End(U, q)] = U.head[q]
           /\ q = o \/ \E p \in new : End(U, p) = q
  BY DEF TilesPart
<1>6. \A p \in Offsets : p <= o \/ p > e => U.foot[p] = T.foot[p]
  BY DEF Recut
<1>7. 0 \in In(U)
  <2>1. 0 \in In(T)
    BY DEF Tiled
  <2> QED
    BY <1>0, <1>1, <1>5, <2>1
<1>8. e \in In(U) \cup {Cap}
  BY <1>0, <1>1
<1>9. ASSUME NEW q \in In(T), q < o \/ q >= e
      PROVE  /\ Good(Size(U, q))
             /\ End(U, q) \in In(U) \cup {Cap}
             /\ \A p \in In(U) : p <= q \/ End(U, q) <= p
             /\ U.foot[End(U, q)] = U.head[q]
             /\ q = 0 \/ \E p \in In(U) : End(U, p) = q
  <2>1. Good(Size(U, q)) /\ End(U, q) = End(T, q) /\ U.head[q] = T.head[q]
    BY <1>2, <1>9, PieceFacts
  <2>2. End(T, q) \in In(T) \cup {Cap} /\ (End(T, q) <= o \/ End(T, q) > e)
    BY <1>0, <1>3, <1>4, <1>9, PieceFacts
  <2>3. End(T, q) \in In(U) \cup {Cap}
    BY <1>0, <1>1, <1>4, <1>5, <2>2
  <2>4. ASSUME NEW p \in In(U)
        PROVE  p <= q \/ End(T, q) <= p
    <3>1. CASE p \in In(T)
      BY <3>1, PieceFacts
    <3>2. CASE p \in new
      BY <1>0, <1>3, <1>4, <1>9, <3>2
    <3> QED
      BY <1>1, <3>1, <3>2
  <2>5. U.foot[End(T, q)] = T.head[q]
    <3>1. T.foot[End(T, q)] = T.head[q]
      BY PieceFacts
    <3>2. U.foot[End(T, q)] = T.foot[End(T, q)]
      BY <1>0, <1>4, <1>6, <2>2
    <3> QED
      BY <3>1, <3>2
  <2>6. ASSUME q # 0
        PROVE  \E p \in In(U) : End(U, p) = q
    <3>1. PICK p \in In(T) : End(T, p) = q
      BY <2>6 DEF Tiled
    <3>2. CASE p < o \/ p >= e
      <4>1. p \in In(U) /\ End(U, p) = q
        BY <1>1, <1>2, <3>1, <3>2
      <4> QED
        BY <4>1
    <3>3. CASE o <= p /\ p < e
      <4>1. q = e
        BY <1>0, <1>3, <1>4, <1>9, <3>1, <3>3
      <4> QED
        BY <1>1, <1>5, <4>1
    <3> QED
      BY <1>0, <1>4, <3>2, <3>3
  <2> QED
    BY <2>1, <2>3, <2>4, <2>5, <2>6
<1>10. ASSUME NEW q \in new
       PROVE  /\ Good(Size(U, q))
              /\ End(U, q) \in In(U) \cup {Cap}
              /\ \A p \in In(U) : p <= q \/ End(U, q) <= p
              /\ U.foot[End(U, q)] = U.head[q]
              /\ q = 0 \/ \E p \in In(U) : End(U, p) = q
  <2>1. Good(Size(U, q)) /\ U.foot[End(U, q)] = U.head[q]
    BY <1>5
  <2>2. End(U, q) \in In(U) \cup {Cap}
    BY <1>1, <1>5, <1>8
  <2>3. ASSUME NEW p \in In(U)
        PROVE  p <= q \/ End(U, q) <= p
    <3>1. CASE p \in new
      BY <1>5, <3>1
    <3>2. CASE p \notin new
      <4>1. p \in 0..Cap /\ (p < o \/ p >= e)
        BY <1>0, <1>1, <3>2
      <4>2. End(U, q) \in 0..Cap /\ End(U, q) <= e
        <5>1. End(U, q) \in new \cup {e}
          BY <1>5
        <5>2. \A x \in new \cup {e} : x \in 0..Cap /\ x <= e
          BY <1>0
        <5> QED
          BY <5>1, <5>2
      <4> QED
        BY <1>0, <4>1, <4>2
    <3> QED
      BY <3>1, <3>2
  <2>4. ASSUME q # 0
        PROVE  \E p \in In(U) : End(U, p) = q
    <3>1. CASE q = o
      <4>1. PICK p \in In(T) : End(T, p) = o
        BY <2>4, <3>1 DEF Tiled
      <4>2. p < o
        BY <1>4, <4>1
      <4>3. p \in In(U) /\ End(U, p) = o
        BY <1>1, <1>2, <4>1, <4>2
      <4> QED
        BY <3>1, <4>3
    <3>2. CASE q # o
      BY <1>1, <1>5, <3>2
    <3> QED
      BY <3>1, <3>2
  <2> QED
    BY <2>1, <2>2, <2>3, <2>4
<1> QED
  BY <1>1, <1>7, <1>9, <1>10 DEF Tiled

-----------------------------------------------------------------------------
(***************************************************************************)
(* mp_init.                                                                *)
(***************************************************************************)
\* A piece from o to e with the tag g.
Writes(T, U, o, e, g) ==
  /\ U \in Tags
  /\ \A p \in Offsets :
       /\ U.head[p] = IF p = o THEN g ELSE IF o < p /\ p < e THEN 0 ELSE T.head[p]
       /\ U.foot[p] = IF p = e THEN g ELSE IF o < p /\ p < e THEN 0 ELSE T.foot[p]

MpAllocInit(T, o, n) == MpInit(T, o, n, TRUE)
MpFreeInit(T, o, n) == MpInit(T, o, n, FALSE)

LEMMA InitWrites ==
  ASSUME NEW T \in Tags, NEW o \in Offsets, NEW e \in Offsets, NEW n \in Nat, o + n = e, Good(n)
  PROVE  /\ Writes(T, MpAllocInit(T, o, n), o, e, AllocTag(n))
         /\ Writes(T, MpFreeInit(T, o, n), o, e, FreeTag(n))
<1>1. o \in Nat /\ e \in Nat /\ Cap \in Nat /\ n <= Cap
  BY CapIsGood DEF Offsets
<1>2. AllocTag(n) \in 0..(Cap + 1) /\ FreeTag(n) \in 0..(Cap + 1) /\ 0 \in 0..(Cap + 1)
  BY <1>1, TagReads
<1>3. T.head \in [Offsets -> 0..(Cap + 1)] /\ T.foot \in [Offsets -> 0..(Cap + 1)]
  BY DEF Tags
<1>4. ASSUME NEW g \in 0..(Cap + 1), NEW U,
             U = [head |-> [p \in Offsets |-> IF p = o THEN g ELSE IF o < p /\ p < o + n THEN 0 ELSE T.head[p]],
                  foot |-> [p \in Offsets |-> IF p = o + n THEN g ELSE IF o < p /\ p < o + n THEN 0 ELSE T.foot[p]]]
      PROVE  Writes(T, U, o, e, g)
  <2> DEFINE h == [p \in Offsets |-> IF p = o THEN g ELSE IF o < p /\ p < e THEN 0 ELSE T.head[p]]
             f == [p \in Offsets |-> IF p = e THEN g ELSE IF o < p /\ p < e THEN 0 ELSE T.foot[p]]
  <2>1. U = [head |-> h, foot |-> f]
    BY <1>4
  <2>2. h \in [Offsets -> 0..(Cap + 1)] /\ f \in [Offsets -> 0..(Cap + 1)]
    BY <1>2, <1>3
  <2>3. U \in Tags
    <3> HIDE DEF h, f
    <3> QED
      BY <2>1, <2>2 DEF Tags
  <2>4. U.head = h /\ U.foot = f
    <3> HIDE DEF h, f
    <3> QED
      BY <2>1
  <2> QED
    BY <2>3, <2>4 DEF Writes
<1>5. Writes(T, MpAllocInit(T, o, n), o, e, AllocTag(n))
  BY <1>2, <1>4 DEF MpAllocInit, MpInit, AllocTag
<1>6. Writes(T, MpFreeInit(T, o, n), o, e, FreeTag(n))
  BY <1>2, <1>4 DEF MpFreeInit, MpInit, FreeTag
<1> QED
  BY <1>5, <1>6

\* What the pieces are when those from o to e are cut anew; head says which tags
\* the new ones have.
Cut(T, U, o, e, new) ==
  /\ U \in Tags /\ Tiled(U)
  /\ In(U) = {p \in In(T) : p < o \/ p >= e} \cup new
  /\ \A p \in In(T) : p < o \/ p >= e => U.head[p] = T.head[p]

LEMMA OnePiece ==
  ASSUME NEW T \in Tags, Tiled(T), NEW o \in In(T), NEW e \in In(T) \cup {Cap}, o < e,
         NEW n \in Nat, o + n = e, Good(n), NEW g \in 1..(Cap + 1), TagSize(g) = n,
         NEW U, Writes(T, U, o, e, g)
  PROVE  Cut(T, U, o, e, {o}) /\ U.head[o] = g
<1>0. o \in Nat /\ Cap \in Nat /\ e \in 0..Cap /\ In(T) \subseteq 0..Cap /\ Offsets = 0..Cap /\ o \in Offsets /\ e \in Offsets
  BY CapIsGood DEF In, Offsets
<1>1. /\ U \in Tags
      /\ \A p \in Offsets :
           /\ U.head[p] = IF p = o THEN g ELSE IF o < p /\ p < e THEN 0 ELSE T.head[p]
           /\ U.foot[p] = IF p = e THEN g ELSE IF o < p /\ p < e THEN 0 ELSE T.foot[p]
  BY DEF Writes
<1>3. U.head[o] = g /\ U.foot[e] = g /\ g # 0
  BY <1>0, <1>1
<1>4. Size(U, o) = n /\ End(U, o) = e
  BY <1>3 DEF Size, End
<1>5. Recut(T, U, o, e, {o})
  BY <1>0, <1>1, <1>3 DEF Recut
<1>6. TilesPart(U, o, e, {o})
  BY <1>0, <1>3, <1>4 DEF TilesPart
<1>7. {o} \in SUBSET (o..(e - 1))
  BY <1>0
<1>8. Tiled(U)
  BY <1>5, <1>6, <1>7, RecutTiled
<1>9. In(U) = {p \in In(T) : p < o \/ p >= e} \cup {o}
  BY <1>5, <1>7, RecutPieces
<1>10. \A p \in In(T) : p < o \/ p >= e => U.head[p] = T.head[p]
  BY <1>0, <1>5 DEF Recut
<1> QED
  BY <1>1, <1>3, <1>8, <1>9, <1>10 DEF Cut

\* The piece that is cut into two, written in either order.
WritesTwo(T, U, o, m, e, g, h) ==
  \E V \in Tags : \/ Writes(T, V, m, e, h) /\ Writes(V, U, o, m, g)
                  \/ Writes(T, V, o, m, g) /\ Writes(V, U, m, e, h)

\* An allocated piece of n bytes and a free one of k bytes fit.
Fit(o, n, m, k, e) ==
  /\ n \in Nat /\ k \in Nat /\ Good(n) /\ Good(k) /\ n <= Cap /\ k <= Cap
  /\ o + n = m /\ m + k = e

Halved(T, U, o, n, m, k, e) == Cut(T, U, o, e, {o, m}) /\ U.head[o] = AllocTag(n) /\ U.head[m] = FreeTag(k)

LEMMA TwoPieces ==
  ASSUME NEW T \in Tags, Tiled(T), NEW o \in In(T), NEW e \in In(T) \cup {Cap}, NEW m \in Offsets,
         NEW n, NEW k, Fit(o, n, m, k, e), NEW U, WritesTwo(T, U, o, m, e, AllocTag(n), FreeTag(k))
  PROVE  Halved(T, U, o, n, m, k, e)
<1> DEFINE g == AllocTag(n)
           h == FreeTag(k)
<1>a. n \in Nat /\ k \in Nat /\ o + n = m /\ m + k = e /\ Good(n) /\ Good(k)
  BY DEF Fit
<1>b. g \in 1..(Cap + 1) /\ TagSize(g) = n /\ h \in 1..(Cap + 1) /\ TagSize(h) = k
  BY TagReads DEF Fit
<1>c. WritesTwo(T, U, o, m, e, g, h)
  OBVIOUS
<1> HIDE DEF g, h
<1>0. /\ o \in Nat /\ Cap \in Nat /\ e \in 0..Cap /\ In(T) \subseteq 0..Cap /\ Offsets = 0..Cap
      /\ o \in Offsets /\ e \in Offsets /\ m \in Nat
  BY CapIsGood DEF In, Offsets
<1>1. o < m /\ m < e
  <2>1. n >= 2 /\ k >= 2
    BY <1>a, MemBlockAssumption DEF Good, MinSize
  <2> QED
    BY <1>0, <1>a, <2>1
<1>3. /\ U \in Tags
      /\ \A p \in Offsets :
           /\ U.head[p] = IF p = o THEN g ELSE IF p = m THEN h
                          ELSE IF o < p /\ p < e THEN 0 ELSE T.head[p]
           /\ p <= o \/ p > e => U.foot[p] = T.foot[p]
           /\ p = m => U.foot[p] = g
           /\ p = e => U.foot[p] = h
  <2>0. PICK V \in Tags : \/ Writes(T, V, m, e, h) /\ Writes(V, U, o, m, g)
                          \/ Writes(T, V, o, m, g) /\ Writes(V, U, m, e, h)
    BY <1>c DEF WritesTwo
  <2>1. CASE Writes(T, V, m, e, h) /\ Writes(V, U, o, m, g)
    BY <1>0, <1>1, <1>b, <2>1 DEF Writes
  <2>2. CASE Writes(T, V, o, m, g) /\ Writes(V, U, m, e, h)
    BY <1>0, <1>1, <1>b, <2>2 DEF Writes
  <2> QED
    BY <2>0, <2>1, <2>2
<1>4. U.head[o] = g /\ U.head[m] = h
  BY <1>0, <1>1, <1>3
<1>5. /\ Size(U, o) = n /\ End(U, o) = m
      /\ Size(U, m) = k /\ End(U, m) = e
  BY <1>0, <1>a, <1>b, <1>4 DEF Size, End
<1> DEFINE new == {o, m}
<1>6. Recut(T, U, o, e, new)
  BY <1>0, <1>1, <1>b, <1>3 DEF Recut
<1>7. TilesPart(U, o, e, new)
  BY <1>0, <1>1, <1>a, <1>b, <1>3, <1>4, <1>5 DEF TilesPart
<1>8. new \in SUBSET (o..(e - 1)) /\ o < e
  BY <1>0, <1>1
<1> HIDE DEF new
<1>9. Tiled(U)
  BY <1>6, <1>7, <1>8, RecutTiled
<1>10. In(U) = {p \in In(T) : p < o \/ p >= e} \cup new
  BY <1>6, <1>8, RecutPieces
<1>11. \A p \in In(T) : p < o \/ p >= e => U.head[p] = T.head[p]
  BY <1>0, <1>6 DEF Recut
<1>12. Cut(T, U, o, e, {o, m})
  BY <1>3, <1>9, <1>10, <1>11 DEF Cut, new
<1> QED
  BY <1>4, <1>12 DEF Halved, g, h

-----------------------------------------------------------------------------
(***************************************************************************)
(* The list of the free pieces.                                            *)
(***************************************************************************)
\* A set of naturals has a least element, by the well-foundedness of the order
\* of finite sets: 0..k grows with k.
LEMMA LeastElement ==
  ASSUME NEW T, T \subseteq Nat, T # {}
  PROVE  \E m \in T : \A n \in T : m <= n
<1> DEFINE F == {0..k : k \in T}
<1> DEFINE R == StrictSubsetOrdering(Nat)
<1>1. F \subseteq FiniteSubsetsOf(Nat)
  <2> SUFFICES ASSUME NEW k \in T PROVE 0..k \in FiniteSubsetsOf(Nat)
    OBVIOUS
  <2>1. IsFiniteSet(0..k)
    BY FS_Interval
  <2> QED
    BY <2>1 DEF FiniteSubsetsOf
<1>2. F # {}
  OBVIOUS
<1>3. IsWellFoundedOn(R, FiniteSubsetsOf(Nat))
  BY FS_StrictSubsetOrderingWellFounded
<1> HIDE DEF F, R
<1>4. \E x \in F : \A y \in F : ~(<<y, x>> \in R)
  BY <1>1, <1>2, <1>3, WFMin
<1> USE DEF F
<1>5. PICK m \in T : \A y \in F : ~(<<y, 0..m>> \in R)
  BY <1>4
<1>6. ASSUME NEW n \in T, ~(m <= n) PROVE FALSE
  <2>1. ~(<<0..n, 0..m>> \in R)
    BY <1>5
  <2>2. n < m /\ n \in Nat /\ m \in Nat
    BY <1>6
  <2>3. 0..n \subseteq 0..m /\ 0..n # 0..m
    BY <2>2
  <2>4. 0..n \in SUBSET Nat /\ 0..m \in SUBSET Nat
    BY <2>2
  <2> QED
    BY <2>1, <2>3, <2>4 DEF R, StrictSubsetOrdering
<1> QED
  BY <1>5, <1>6

\* A sequence without its i-th place, and one with o put before it.
LEMMA Removed ==
  ASSUME NEW s \in Seq(Offsets), NEW i \in 1..Len(s)
  PROVE  /\ RemoveAt(s, i) \in Seq(Offsets) /\ Len(RemoveAt(s, i)) = Len(s) - 1
         /\ \A j \in 1..(Len(s) - 1) : RemoveAt(s, i)[j] = s[IF j < i THEN j ELSE j + 1]
<1> DEFINE n == Len(s)
           l == SubSeq(s, 1, i - 1)
           r == SubSeq(s, i + 1, n)
<1>1. n \in Nat /\ i \in Nat /\ 1 <= i /\ i <= n /\ i - 1 \in Int /\ i + 1 \in Int
  OBVIOUS
<1>2. \A j \in 1..n : s[j] \in Offsets
  OBVIOUS
<1> HIDE DEF n
<1>3. l \in Seq(Offsets) /\ Len(l) = i - 1 /\ \A j \in 1..(i - 1) : l[j] = s[j]
  <2>1. \A j \in 1..(i - 1) : s[j] \in Offsets
    BY <1>1, <1>2
  <2>2. /\ l \in Seq(Offsets) /\ Len(l) = IF 1 <= i - 1 THEN i - 1 - 1 + 1 ELSE 0
        /\ \A j \in 1..(i - 1 - 1 + 1) : l[j] = s[1 + j - 1]
    BY <1>1, <2>1, SubSeqProperties
  <2> HIDE DEF l
  <2>3. Len(l) = i - 1
    BY <1>1, <2>2
  <2>4. ASSUME NEW j \in 1..(i - 1) PROVE l[j] = s[j]
    <3>1. j \in 1..(i - 1 - 1 + 1) /\ 1 + j - 1 = j
      BY <1>1
    <3> QED
      BY <2>2, <3>1
  <2> QED
    BY <2>2, <2>3, <2>4
<1>4. r \in Seq(Offsets) /\ Len(r) = n - i /\ \A j \in 1..(n - i) : r[j] = s[i + j]
  <2>1. \A j \in (i + 1)..n : s[j] \in Offsets
    BY <1>1, <1>2
  <2>2. /\ r \in Seq(Offsets) /\ Len(r) = IF i + 1 <= n THEN n - (i + 1) + 1 ELSE 0
        /\ \A j \in 1..(n - (i + 1) + 1) : r[j] = s[(i + 1) + j - 1]
    BY <1>1, <2>1, SubSeqProperties
  <2> HIDE DEF r
  <2>3. Len(r) = n - i
    BY <1>1, <2>2
  <2>4. ASSUME NEW j \in 1..(n - i) PROVE r[j] = s[i + j]
    <3>1. j \in 1..(n - (i + 1) + 1) /\ (i + 1) + j - 1 = i + j
      BY <1>1
    <3> QED
      BY <2>2, <3>1
  <2> QED
    BY <2>2, <2>3, <2>4
<1>5. RemoveAt(s, i) = l \o r
  BY DEF RemoveAt, n
<1> HIDE DEF l, r
<1>6. /\ l \o r \in Seq(Offsets) /\ Len(l \o r) = Len(l) + Len(r)
      /\ \A j \in 1..(Len(l) + Len(r)) : (l \o r)[j] = IF j <= Len(l) THEN l[j] ELSE r[j - Len(l)]
  BY <1>3, <1>4, ConcatProperties
<1>7. Len(l) = i - 1 /\ Len(l) + Len(r) = n - 1
  BY <1>1, <1>3, <1>4
<1>8. ASSUME NEW j \in 1..(n - 1)
      PROVE  (l \o r)[j] = s[IF j < i THEN j ELSE j + 1]
  <2>1. CASE j < i
    <3>1. j <= Len(l) /\ j \in 1..(i - 1) /\ j \in 1..(Len(l) + Len(r))
      BY <1>1, <1>7, <2>1
    <3> QED
      BY <1>3, <1>6, <2>1, <3>1
  <2>2. CASE ~(j < i)
    <3>1. ~(j <= Len(l)) /\ j \in 1..(Len(l) + Len(r)) /\ j - Len(l) \in 1..(n - i) /\ i + (j - Len(l)) = j + 1
      BY <1>1, <1>7, <2>2
    <3>2. (l \o r)[j] = r[j - Len(l)]
      BY <1>6, <3>1
    <3>3. r[j - Len(l)] = s[i + (j - Len(l))]
      BY <1>4, <3>1
    <3> QED
      BY <2>2, <3>1, <3>2, <3>3
  <2> QED
    BY <2>1, <2>2
<1> QED
  BY <1>5, <1>6, <1>7, <1>8 DEF n

LEMMA Inserted ==
  ASSUME NEW s \in Seq(Offsets), NEW i \in 1..(Len(s) + 1), NEW o \in Offsets
  PROVE  /\ InsertAt(s, i, o) \in Seq(Offsets) /\ Len(InsertAt(s, i, o)) = Len(s) + 1
         /\ \A j \in 1..(Len(s) + 1) :
              InsertAt(s, i, o)[j] = IF j < i THEN s[j] ELSE IF j = i THEN o ELSE s[j - 1]
<1> DEFINE n == Len(s)
           l == SubSeq(s, 1, i - 1)
           r == SubSeq(s, i, n)
           lo == l \o <<o>>
<1>1. n \in Nat /\ i \in Nat /\ 1 <= i /\ i <= n + 1 /\ i - 1 \in Int /\ i \in Int
  OBVIOUS
<1>2. \A j \in 1..n : s[j] \in Offsets
  OBVIOUS
<1> HIDE DEF n
<1>3. l \in Seq(Offsets) /\ Len(l) = i - 1 /\ \A j \in 1..(i - 1) : l[j] = s[j]
  <2>1. \A j \in 1..(i - 1) : s[j] \in Offsets
    BY <1>1, <1>2
  <2>2. /\ l \in Seq(Offsets) /\ Len(l) = IF 1 <= i - 1 THEN i - 1 - 1 + 1 ELSE 0
        /\ \A j \in 1..(i - 1 - 1 + 1) : l[j] = s[1 + j - 1]
    BY <1>1, <2>1, SubSeqProperties
  <2> HIDE DEF l
  <2>3. Len(l) = i - 1
    BY <1>1, <2>2
  <2>4. ASSUME NEW j \in 1..(i - 1) PROVE l[j] = s[j]
    <3>1. j \in 1..(i - 1 - 1 + 1) /\ 1 + j - 1 = j
      BY <1>1
    <3> QED
      BY <2>2, <3>1
  <2> QED
    BY <2>2, <2>3, <2>4
<1>4. r \in Seq(Offsets) /\ Len(r) = n - i + 1 /\ \A j \in 1..(n - i + 1) : r[j] = s[i + j - 1]
  <2>1. \A j \in i..n : s[j] \in Offsets
    BY <1>1, <1>2
  <2>2. /\ r \in Seq(Offsets) /\ Len(r) = IF i <= n THEN n - i + 1 ELSE 0
        /\ \A j \in 1..(n - i + 1) : r[j] = s[i + j - 1]
    BY <1>1, <2>1, SubSeqProperties
  <2> HIDE DEF r
  <2>3. Len(r) = n - i + 1
    BY <1>1, <2>2
  <2> QED
    BY <2>2, <2>3
<1>5. InsertAt(s, i, o) = lo \o r
  BY DEF InsertAt, n
<1>6. <<o>> \in Seq(Offsets) /\ Len(<<o>>) = 1 /\ <<o>>[1] = o
  OBVIOUS
<1> HIDE DEF l, r
<1>7. /\ lo \in Seq(Offsets) /\ Len(lo) = Len(l) + Len(<<o>>)
      /\ \A j \in 1..(Len(l) + Len(<<o>>)) : lo[j] = IF j <= Len(l) THEN l[j] ELSE <<o>>[j - Len(l)]
  BY <1>3, <1>6, ConcatProperties
<1> HIDE DEF lo
<1>8. Len(lo) = i /\ lo[i] = o /\ \A j \in 1..(i - 1) : lo[j] = s[j]
  <2>1. Len(lo) = i /\ Len(l) = i - 1
    BY <1>1, <1>3, <1>6, <1>7
  <2>2. lo[i] = <<o>>[i - Len(l)]
    BY <1>1, <1>6, <1>7, <2>1
  <2>3. i - Len(l) = 1
    BY <1>1, <2>1
  <2>4. \A j \in 1..(i - 1) : lo[j] = l[j]
    BY <1>1, <1>6, <1>7, <2>1
  <2> QED
    BY <1>3, <1>6, <2>1, <2>2, <2>3, <2>4
<1>9. /\ lo \o r \in Seq(Offsets) /\ Len(lo \o r) = Len(lo) + Len(r)
      /\ \A j \in 1..(Len(lo) + Len(r)) : (lo \o r)[j] = IF j <= Len(lo) THEN lo[j] ELSE r[j - Len(lo)]
  <2>1. lo \in Seq(Offsets) /\ r \in Seq(Offsets)
    BY <1>4, <1>7
  <2> QED
    BY <2>1, ConcatProperties
<1>10. Len(lo) + Len(r) = n + 1
  BY <1>1, <1>4, <1>8
<1>11. ASSUME NEW j \in 1..(n + 1)
       PROVE  (lo \o r)[j] = IF j < i THEN s[j] ELSE IF j = i THEN o ELSE s[j - 1]
  <2>1. CASE j <= i
    <3>1. (lo \o r)[j] = lo[j]
      BY <1>8, <1>9, <1>10, <2>1
    <3>2. j < i => j \in 1..(i - 1)
      BY <1>1
    <3> QED
      BY <1>1, <1>8, <2>1, <3>1, <3>2
  <2>2. CASE ~(j <= i)
    <3>1. (lo \o r)[j] = r[j - i]
      BY <1>8, <1>9, <1>10, <2>2
    <3>2. j - i \in 1..(n - i + 1) /\ i + (j - i) - 1 = j - 1
      BY <1>1, <2>2
    <3>3. r[j - i] = s[i + (j - i) - 1]
      BY <1>4, <3>2
    <3> QED
      BY <1>1, <2>2, <3>1, <3>2, <3>3
  <2> QED
    BY <1>1, <2>1, <2>2
<1> QED
  BY <1>5, <1>9, <1>10, <1>11 DEF n

LEMMA Relisted ==
  ASSUME NEW list, NEW S, NEW T, NEW U, Listed(list, S, T), \A o \in S : U.head[o] = T.head[o]
  PROVE  Listed(list, S, U)
<1>1. \A i \in 1..Len(list) : Size(U, list[i]) = Size(T, list[i])
  BY DEF Listed, Size
<1> QED
  BY <1>1 DEF Listed

LEMMA Unlinked ==
  ASSUME NEW list, NEW S, NEW T, Listed(list, S, T), NEW o \in S
  PROVE  Listed(Unlink(list, o), S \ {o}, T)
<1> DEFINE i == CHOOSE j \in DOMAIN list : list[j] = o
           n == Len(list)
<1>1. list \in Seq(Offsets) /\ n \in Nat /\ DOMAIN list = 1..n
  BY DEF Listed
<1>2. i \in 1..n /\ list[i] = o
  BY <1>1 DEF Listed
<1>3. Unlink(list, o) = RemoveAt(list, i)
  BY DEF Unlink
<1> HIDE DEF i
<1> DEFINE r == RemoveAt(list, i)
<1>4. /\ r \in Seq(Offsets) /\ Len(r) = n - 1
      /\ \A j \in 1..(n - 1) : r[j] = list[IF j < i THEN j ELSE j + 1]
  BY <1>1, <1>2, Removed
<1> HIDE DEF r, n
<1>5. /\ \A j \in 1..n : list[j] \in S
      /\ \A p \in S : \E j \in 1..n : list[j] = p
      /\ \A j, k \in 1..n : j # k => list[j] # list[k]
      /\ \A j, k \in 1..n : j < k => Size(T, list[j]) >= Size(T, list[k])
  BY DEF Listed, n
<1> DEFINE at(j) == IF j < i THEN j ELSE j + 1
<1>6. \A j \in 1..(n - 1) : at(j) \in 1..n /\ at(j) # i /\ r[j] = list[at(j)]
  BY <1>1, <1>2, <1>4
<1>7. \A j, k \in 1..(n - 1) : /\ j # k => at(j) # at(k)
                               /\ j < k => at(j) < at(k)
  BY <1>1, <1>2
<1>8. ASSUME NEW k \in 1..n, k # i
      PROVE  \E j \in 1..(n - 1) : at(j) = k
  <2>1. CASE k < i
    <3>1. k \in 1..(n - 1) /\ at(k) = k
      BY <1>1, <1>2, <2>1
    <3> QED
      BY <3>1
  <2>2. CASE ~(k < i)
    <3>1. k - 1 \in 1..(n - 1) /\ at(k - 1) = k
      BY <1>1, <1>2, <1>8, <2>2
    <3> QED
      BY <3>1
  <2> QED
    BY <2>1, <2>2
<1> HIDE DEF at
<1>9. \A j \in 1..(n - 1) : r[j] \in S \ {o}
  BY <1>2, <1>5, <1>6
<1>10. ASSUME NEW p \in S \ {o}
       PROVE  \E j \in 1..(n - 1) : r[j] = p
  <2>1. PICK k \in 1..n : list[k] = p
    BY <1>5
  <2>2. k # i
    BY <1>2, <2>1
  <2>3. PICK j \in 1..(n - 1) : at(j) = k
    BY <1>8, <2>2
  <2> QED
    BY <1>6, <2>1, <2>3
<1>11. \A j, k \in 1..(n - 1) : /\ j # k => r[j] # r[k]
                                /\ j < k => Size(T, r[j]) >= Size(T, r[k])
  BY <1>5, <1>6, <1>7
<1>12. Listed(r, S \ {o}, T)
  BY <1>4, <1>9, <1>10, <1>11 DEF Listed
<1> QED
  BY <1>3, <1>12 DEF r

\* mb_add_to_size_unsafe keeps the order.
LEMMA Added ==
  ASSUME NEW list, NEW S, NEW T \in Tags, Listed(list, S, T), NEW o \in Offsets, o \notin S
  PROVE  Listed(AddToSize(list, T, o), S \cup {o}, T)
<1> DEFINE n == Len(list)
           larger(i) == \A j \in 1..(i - 1) : Size(T, list[j]) > Size(T, o)
           here(i) == larger(i) /\ (i = n + 1 \/ Size(T, list[i]) <= Size(T, o))
           i == CHOOSE k \in 1..(n + 1) : here(k)
<1>1. list \in Seq(Offsets) /\ n \in Nat /\ \A j \in 1..n : list[j] \in Offsets
  BY DEF Listed
<1>2. \A p \in Offsets : Size(T, p) \in Nat
  BY TagIs DEF Tags, Size
<1>3. \E k \in 1..(n + 1) : here(k)
  <2> DEFINE small == {k \in 1..(n + 1) : k = n + 1 \/ Size(T, list[k]) <= Size(T, o)}
  <2>1. small \subseteq Nat /\ small # {}
    <3>1. n + 1 \in small
      BY <1>1
    <3> QED
      BY <3>1
  <2>2. PICK k \in small : \A j \in small : k <= j
    BY <2>1, LeastElement
  <2>3. ASSUME NEW j \in 1..(k - 1)
        PROVE  Size(T, list[j]) > Size(T, o)
    <3>1. j \in 1..n /\ ~(k <= j) /\ k \in Nat
      BY <1>1
    <3>2. j \notin small
      BY <2>2, <3>1
    <3>3. ~(Size(T, list[j]) <= Size(T, o))
      BY <1>1, <3>1, <3>2
    <3> QED
      BY <1>1, <1>2, <3>1, <3>3
  <2> QED
    BY <2>2, <2>3
<1>4. i \in 1..(n + 1) /\ here(i)
  BY <1>3
<1>5. AddToSize(list, T, o) = InsertAt(list, i, o)
  BY DEF AddToSize, Size
<1>6. /\ i \in 1..(n + 1)
      /\ \A j \in 1..(i - 1) : Size(T, list[j]) > Size(T, o)
      /\ i = n + 1 \/ Size(T, list[i]) <= Size(T, o)
  BY <1>4
<1> HIDE DEF i, n
<1> DEFINE r == InsertAt(list, i, o)
<1>7. /\ r \in Seq(Offsets) /\ Len(r) = n + 1
      /\ \A j \in 1..(n + 1) : r[j] = IF j < i THEN list[j] ELSE IF j = i THEN o ELSE list[j - 1]
  <2>1. i \in 1..(Len(list) + 1)
    BY <1>6 DEF n
  <2> QED
    BY <1>1, <2>1, Inserted DEF n
<1> HIDE DEF r
<1>8. /\ \A j \in 1..n : list[j] \in S
      /\ \A p \in S : \E j \in 1..n : list[j] = p
      /\ \A j, k \in 1..n : j # k => list[j] # list[k]
      /\ \A j, k \in 1..n : j < k => Size(T, list[j]) >= Size(T, list[k])
  BY DEF Listed, n
<1> DEFINE from(j) == IF j < i THEN j ELSE j - 1
<1>9. /\ \A j \in 1..(n + 1) : j # i => from(j) \in 1..n /\ r[j] = list[from(j)]
      /\ r[i] = o
  BY <1>1, <1>6, <1>7
<1>10. \A j, k \in 1..(n + 1) : j # i /\ k # i =>
         /\ j # k => from(j) # from(k)
         /\ j < k => from(j) < from(k)
  BY <1>1, <1>6
<1>11. ASSUME NEW k \in 1..n
       PROVE  \E j \in 1..(n + 1) : j # i /\ from(j) = k
  <2>1. CASE k < i
    <3>1. k \in 1..(n + 1) /\ k # i /\ from(k) = k
      BY <1>1, <1>6, <2>1
    <3> QED
      BY <3>1
  <2>2. CASE ~(k < i)
    <3>1. k + 1 \in 1..(n + 1) /\ k + 1 # i /\ from(k + 1) = k
      BY <1>1, <1>6, <2>2
    <3> QED
      BY <3>1
  <2> QED
    BY <2>1, <2>2
<1>12. \A j \in 1..(n + 1) : /\ j < i => from(j) < i /\ from(j) \in 1..(i - 1)
                             /\ j > i => i \in 1..n /\ i <= from(j)
  BY <1>1, <1>6
<1> HIDE DEF from
<1>13. \A j \in 1..(n + 1) : r[j] \in S \cup {o}
  BY <1>8, <1>9
<1>14. ASSUME NEW p \in S \cup {o}
       PROVE  \E j \in 1..(n + 1) : r[j] = p
  <2>1. CASE p = o
    BY <1>6, <1>9, <2>1
  <2>2. CASE p \in S
    <3>1. PICK k \in 1..n : list[k] = p
      BY <1>8, <2>2
    <3>2. PICK j \in 1..(n + 1) : j # i /\ from(j) = k
      BY <1>11
    <3> QED
      BY <1>9, <3>1, <3>2
  <2> QED
    BY <2>1, <2>2
<1>15. ASSUME NEW j \in 1..(n + 1), NEW k \in 1..(n + 1)
       PROVE  j # k => r[j] # r[k]
  BY <1>8, <1>9, <1>10
<1>16. ASSUME NEW j \in 1..(n + 1), NEW k \in 1..(n + 1), j < k
       PROVE  Size(T, r[j]) >= Size(T, r[k])
  <2>1. CASE j # i /\ k # i
    BY <1>8, <1>9, <1>10, <1>16, <2>1
  <2>2. CASE j = i
    <3>1. k # i /\ k > i
      BY <1>6, <1>16, <2>2
    <3>2. i \in 1..n /\ i <= from(k) /\ from(k) \in 1..n
      BY <1>9, <1>12, <3>1
    <3>3. Size(T, list[i]) <= Size(T, o)
      BY <1>1, <1>6, <3>2
    <3>4. Size(T, list[from(k)]) <= Size(T, list[i])
      <4>1. CASE i = from(k)
        BY <1>1, <1>2, <3>2, <4>1
      <4>2. CASE i < from(k)
        BY <1>8, <3>2, <4>2
      <4> QED
        BY <1>1, <3>2, <4>1, <4>2
    <3>5. Size(T, list[i]) \in Nat /\ Size(T, list[from(k)]) \in Nat /\ Size(T, o) \in Nat
      BY <1>1, <1>2, <3>2
    <3> QED
      BY <1>9, <2>2, <3>1, <3>3, <3>4, <3>5
  <2>3. CASE k = i
    <3>1. j # i /\ from(j) \in 1..(i - 1) /\ from(j) \in 1..n
      BY <1>6, <1>9, <1>12, <1>16, <2>3
    <3>2. Size(T, list[from(j)]) > Size(T, o)
      BY <1>6, <3>1
    <3>3. Size(T, list[from(j)]) \in Nat /\ Size(T, o) \in Nat
      BY <1>1, <1>2, <3>1
    <3> QED
      BY <1>9, <2>3, <3>1, <3>2, <3>3
  <2> QED
    BY <2>1, <2>2, <2>3
<1>17. Listed(r, S \cup {o}, T)
  BY <1>7, <1>13, <1>14, <1>15, <1>16 DEF Listed
<1> QED
  BY <1>5, <1>17 DEF r

LEMMA Headed ==
  ASSUME NEW list, NEW S, NEW T, Listed(list, S, T), list # <<>>
  PROVE  Head(list) \in S /\ Listed(Tail(list), S \ {Head(list)}, T)
<1> DEFINE n == Len(list)
           r == Tail(list)
           h == Head(list)
<1>1. list \in Seq(Offsets) /\ n \in Nat \ {0}
  <2>1. list \in Seq(Offsets)
    BY DEF Listed
  <2> QED
    BY <2>1, EmptySeq
<1>2. h = list[1]
  BY <1>1
<1>3. r \in Seq(Offsets) /\ Len(r) = n - 1 /\ \A i \in 1..(n - 1) : r[i] = list[i + 1]
  BY <1>1, HeadTailProperties
<1>4. /\ \A j \in 1..n : list[j] \in S
      /\ \A p \in S : \E j \in 1..n : list[j] = p
      /\ \A j, k \in 1..n : j # k => list[j] # list[k]
      /\ \A j, k \in 1..n : j < k => Size(T, list[j]) >= Size(T, list[k])
  BY DEF Listed, n
<1> HIDE DEF n, r, h
<1>5. 1 \in 1..n /\ \A i \in 1..(n - 1) : i + 1 \in 1..n /\ i + 1 # 1
  BY <1>1
<1>6. h \in S
  BY <1>2, <1>4, <1>5
<1>7. \A i \in 1..(n - 1) : r[i] \in S \ {h}
  BY <1>2, <1>3, <1>4, <1>5
<1>8. ASSUME NEW p \in S \ {h}
      PROVE  \E i \in 1..(n - 1) : r[i] = p
  <2>1. PICK k \in 1..n : list[k] = p
    BY <1>4
  <2>2. k # 1
    BY <1>2, <2>1
  <2>3. k - 1 \in 1..(n - 1) /\ (k - 1) + 1 = k
    BY <1>1, <2>2
  <2> QED
    BY <1>3, <2>1, <2>3
<1>9. ASSUME NEW j \in 1..(n - 1), NEW k \in 1..(n - 1)
      PROVE  /\ j # k => r[j] # r[k]
             /\ j < k => Size(T, r[j]) >= Size(T, r[k])
  <2>1. /\ j + 1 \in 1..n /\ k + 1 \in 1..n
        /\ j # k => j + 1 # k + 1
        /\ j < k => j + 1 < k + 1
    BY <1>1
  <2> QED
    BY <1>3, <1>4, <2>1
<1>10. Listed(r, S \ {h}, T)
  BY <1>3, <1>7, <1>8, <1>9 DEF Listed
<1> QED
  BY <1>6, <1>10 DEF r, h

\* A piece of the same size in the place of another.
LEMMA Replaced ==
  ASSUME NEW list, NEW S, NEW T, NEW U, Listed(list, S, T), NEW o \in S, NEW new \in Offsets, new \notin S \ {o},
         \A p \in S \ {o} : U.head[p] = T.head[p], Size(U, new) = Size(T, o)
  PROVE  Listed([i \in DOMAIN list |-> IF list[i] = o THEN new ELSE list[i]], (S \ {o}) \cup {new}, U)
<1> DEFINE n == Len(list)
           r == [i \in DOMAIN list |-> IF list[i] = o THEN new ELSE list[i]]
<1>1. list \in Seq(Offsets) /\ n \in Nat /\ DOMAIN list = 1..n /\ \A i \in 1..n : list[i] \in Offsets
  BY DEF Listed
<1>2. r \in Seq(Offsets) /\ Len(r) = n /\ \A i \in 1..n : r[i] = IF list[i] = o THEN new ELSE list[i]
  <2>1. r \in [1..n -> Offsets]
    BY <1>1
  <2> QED
    BY <1>1, <2>1
<1>3. /\ \A j \in 1..n : list[j] \in S
      /\ \A p \in S : \E j \in 1..n : list[j] = p
      /\ \A j, k \in 1..n : j # k => list[j] # list[k]
      /\ \A j, k \in 1..n : j < k => Size(T, list[j]) >= Size(T, list[k])
  BY DEF Listed, n
<1> HIDE DEF r, n
<1>4. \A i \in 1..n : Size(U, r[i]) = Size(T, list[i])
  BY <1>2, <1>3 DEF Size
<1>5. \A i \in 1..n : r[i] \in (S \ {o}) \cup {new}
  BY <1>2, <1>3
<1>6. \A p \in (S \ {o}) \cup {new} : \E i \in 1..n : r[i] = p
  BY <1>2, <1>3
<1>7. \A j, k \in 1..n : /\ j # k => r[j] # r[k]
                         /\ j < k => Size(U, r[j]) >= Size(U, r[k])
  BY <1>2, <1>3, <1>4
<1>8. Listed(r, (S \ {o}) \cup {new}, U)
  BY <1>2, <1>5, <1>6, <1>7 DEF Listed
<1> QED
  BY <1>8 DEF r

-----------------------------------------------------------------------------
(***************************************************************************)
(* What each call does to the pieces.                                      *)
(***************************************************************************)

LEMMA StateViews ==
  ASSUME tags \in Tags
  PROVE  /\ Pieces = In(tags) /\ FreePieces = FreeIn(tags) /\ AllocPieces = AllocIn(tags)
         /\ \A o : MpSize(o) = Size(tags, o) /\ MpNext(o) = End(tags, o)
         /\ \A o \in In(tags) : MpAlloc(o) <=> o \in AllocIn(tags)
<1>1. \A o : MpSize(o) = Size(tags, o) /\ MpNext(o) = End(tags, o)
  BY DEF MpSize, MpNext, Size, End
<1>2. Pieces = In(tags)
  BY DEF Pieces, In
<1>3. \A o \in In(tags) : ~MpAlloc(o) <=> IsFree(tags, o)
  <2> SUFFICES ASSUME NEW o \in In(tags) PROVE ~MpAlloc(o) <=> IsFree(tags, o)
    OBVIOUS
  <2>1. tags.head[o] \in 0..(Cap + 1)
    BY DEF In, Tags
  <2> QED
    BY <2>1, TagIs DEF MpAlloc, IsFree
<1> QED
  BY <1>1, <1>2, <1>3 DEF FreePieces, AllocPieces, FreeIn, AllocIn

\* What of the pieces of T is there when those from o to e are cut anew.
CutShows(T, U, o, e, new) ==
  /\ \A p \in FreeIn(U) : (p \in FreeIn(T) /\ (p < o \/ p >= e)) \/ (p \in new /\ IsFree(U, p))
  /\ \A p \in AllocIn(U) : (p \in AllocIn(T) /\ (p < o \/ p >= e)) \/ (p \in new /\ ~IsFree(U, p))
  /\ \A p \in FreeIn(T) : p < o \/ p >= e => p \in FreeIn(U)
  /\ \A p \in AllocIn(T) : p < o \/ p >= e => p \in AllocIn(U)
  /\ \A p \in new : IF IsFree(U, p) THEN p \in FreeIn(U) ELSE p \in AllocIn(U)
  /\ \A p \in In(T) : p < o \/ p >= e => U.head[p] = T.head[p] /\ End(U, p) = End(T, p)

LEMMA CutViews ==
  ASSUME NEW T, NEW U, NEW o, NEW e, NEW new, Cut(T, U, o, e, new)
  PROVE  CutShows(T, U, o, e, new)
<1>1. In(U) = {p \in In(T) : p < o \/ p >= e} \cup new
  BY DEF Cut
<1>2. \A p \in In(T) : p < o \/ p >= e => U.head[p] = T.head[p] /\ (IsFree(U, p) <=> IsFree(T, p)) /\ End(U, p) = End(T, p)
  BY DEF Cut, IsFree, End, Size
<1> QED
  BY <1>1, <1>2 DEF CutShows, FreeIn, AllocIn

\* A free piece that is cut has no free neighbour.
Apart(T, U, o, e, new) ==
  /\ new \subseteq o..(e - 1) /\ o \in new /\ o < e /\ Cap \notin In(T) /\ e \notin FreeIn(T)
  /\ \A q \in new : IsFree(U, q) => End(U, q) = e
  /\ IsFree(U, o) => \A p \in FreeIn(T) : End(T, p) # o

\* Then there is none in the block that has one.
LEMMA CutSpread ==
  ASSUME NEW T \in Tags, NEW U, NEW o \in In(T), NEW e \in In(T) \cup {Cap}, NEW new, Tiled(T), Spread(T),
         Cut(T, U, o, e, new), Apart(T, U, o, e, new)
  PROVE  Spread(U)
<1>0. o \in Nat /\ Cap \in Nat /\ e \in 0..Cap /\ In(T) \subseteq 0..Cap /\ \A q \in new : q \in Nat /\ o <= q /\ q < e
  <2>1. o \in Nat /\ Cap \in Nat /\ e \in 0..Cap /\ In(T) \subseteq 0..Cap
    BY CapIsGood DEF In, Offsets
  <2> QED
    BY <2>1 DEF Apart
<1>a. /\ o \in new /\ Cap \notin In(T) /\ e \notin FreeIn(T)
      /\ \A q \in new : IsFree(U, q) => End(U, q) = e
      /\ IsFree(U, o) => \A p \in FreeIn(T) : End(T, p) # o
  BY DEF Apart
<1>b. o < e
  BY DEF Apart
<1>1. CutShows(T, U, o, e, new)
  BY CutViews
<1>2. e \notin FreeIn(U)
  BY <1>0, <1>a, <1>1 DEF CutShows
<1>3. ASSUME NEW p \in FreeIn(T), p < o \/ p >= e
      PROVE  End(U, p) \notin FreeIn(U)
  <2>1. End(U, p) = End(T, p) /\ End(T, p) \notin FreeIn(T) /\ p \in In(T)
    BY <1>1, <1>3 DEF Spread, FreeIn, CutShows
  <2>2. End(T, p) <= o \/ End(T, p) > e
    BY <1>0, <1>b, <1>3, <2>1, PieceFacts
  <2>3. ASSUME End(T, p) \in new PROVE End(T, p) = o
    <3>1. o <= End(T, p) /\ End(T, p) < e /\ End(T, p) \in Nat
      BY <1>0, <2>3
    <3> QED
      BY <1>0, <2>2, <3>1
  <2> QED
    BY <1>a, <1>1, <1>3, <2>1, <2>3 DEF CutShows
<1> QED
  BY <1>a, <1>1, <1>2, <1>3 DEF Spread, CutShows

LEMMA CapIsNoPiece ==
  ASSUME NEW T \in Tags, Tiled(T)
  PROVE  Cap \notin In(T) /\ FreeIn(T) \subseteq In(T) /\ In(T) \subseteq Offsets
<1>1. FreeIn(T) \subseteq In(T) /\ In(T) \subseteq Offsets
  BY DEF FreeIn, In
<1>2. \A o \in In(T) : o < Cap /\ o \in Nat
  BY PieceFacts
<1>3. Cap \in Nat
  BY CapIsGood
<1> QED
  BY <1>1, <1>2, <1>3

\* mb_malloc_p takes the whole of a free piece, or its beginning.
LEMMA TakeAll ==
  ASSUME NEW T \in Tags, Tiled(T), Spread(T), NEW o \in FreeIn(T)
  PROVE  LET U == MpAllocInit(T, o, Size(T, o))
         IN /\ U \in Tags /\ Tiled(U) /\ Spread(U)
            /\ FreeIn(U) = FreeIn(T) \ {o} /\ AllocIn(U) = AllocIn(T) \cup {o}
            /\ \A p \in In(T) \ {o} : U.head[p] = T.head[p]
            /\ Size(U, o) = Size(T, o)
<1> DEFINE e == End(T, o)
           n == Size(T, o)
           U == MpAllocInit(T, o, n)
<1>1. /\ o \in In(T) /\ o \in 0..Cap /\ Cap \in Nat /\ Good(n) /\ n \in Nat /\ e = o + n
      /\ e \in In(T) \cup {Cap} /\ e \in 0..Cap /\ o < e
      /\ \A p \in In(T) : p \in 0..Cap /\ (p <= o \/ e <= p)
      /\ e \notin FreeIn(T) /\ Cap \notin In(T)
  BY PieceFacts, CapIsNoPiece DEF Spread, FreeIn
<1> HIDE DEF e, n
<1>2. n <= Cap /\ o \in Offsets /\ e \in Offsets
  BY <1>1 DEF Offsets
<1>3. Cut(T, U, o, e, {o}) /\ U.head[o] = AllocTag(n)
  <2>1. Writes(T, U, o, e, AllocTag(n))
    BY <1>1, <1>2, InitWrites
  <2> HIDE DEF U
  <2> QED
    BY <1>1, <1>2, <2>1, TagReads, OnePiece
<1> HIDE DEF U
<1>4. Size(U, o) = n /\ ~IsFree(U, o)
  <2>1. TagSize(AllocTag(n)) = n /\ AllocTag(n) % 2 = 1
    BY <1>1, <1>2, TagReads
  <2>2. Size(U, o) = n
    BY <1>3, <2>1 DEF Size
  <2>3. U.head[o] % 2 = 1
    BY <1>3, <2>1
  <2> QED
    BY <2>2, <2>3 DEF IsFree
<1>5. Spread(U)
  <2> DEFINE new == {o}
  <2>1. Apart(T, U, o, e, new)
    BY <1>1, <1>4 DEF Apart
  <2>2. Cut(T, U, o, e, new) /\ o \in In(T) /\ e \in In(T) \cup {Cap}
    BY <1>1, <1>3
  <2> HIDE DEF new
  <2> QED
    BY <2>1, <2>2, CutSpread, Zenon
<1>6. CutShows(T, U, o, e, {o})
  BY <1>3, CutViews
<1>7. \A p \in In(T) \ {o} : p < o \/ p >= e
  BY <1>1
<1>8. FreeIn(U) = FreeIn(T) \ {o}
  <2>1. \A p \in FreeIn(U) : p \in FreeIn(T) \ {o}
    BY <1>1, <1>4, <1>6 DEF FreeIn, CutShows
  <2>2. \A p \in FreeIn(T) \ {o} : p \in FreeIn(U)
    BY <1>6, <1>7 DEF FreeIn, CutShows
  <2> QED
    BY <2>1, <2>2
<1>9. AllocIn(U) = AllocIn(T) \cup {o}
  <2>1. \A p \in AllocIn(U) : p \in AllocIn(T) \cup {o}
    BY <1>6 DEF CutShows
  <2>2. \A p \in AllocIn(T) : p # o
    BY DEF AllocIn
  <2>3. \A p \in AllocIn(T) \cup {o} : p \in AllocIn(U)
    BY <1>4, <1>6, <1>7, <2>2 DEF AllocIn, CutShows
  <2> QED
    BY <2>1, <2>3
<1>10. \A p \in In(T) \ {o} : U.head[p] = T.head[p]
  BY <1>6, <1>7 DEF CutShows
<1> QED
  BY <1>3, <1>4, <1>5, <1>8, <1>9, <1>10 DEF Cut, U, n

LEMMA PieceReads ==
  ASSUME NEW U, NEW o, NEW n \in Nat, Good(n), n <= Cap
  PROVE  /\ U.head[o] = AllocTag(n) => Size(U, o) = n /\ End(U, o) = o + n /\ ~IsFree(U, o)
         /\ U.head[o] = FreeTag(n) => Size(U, o) = n /\ End(U, o) = o + n /\ IsFree(U, o)
<1>1. /\ TagSize(AllocTag(n)) = n /\ AllocTag(n) % 2 = 1
      /\ TagSize(FreeTag(n)) = n /\ FreeTag(n) % 2 = 0
  BY TagReads
<1>2. U.head[o] = AllocTag(n) => Size(U, o) = n /\ End(U, o) = o + n /\ ~IsFree(U, o)
  BY <1>1 DEF Size, End, IsFree
<1>3. U.head[o] = FreeTag(n) => Size(U, o) = n /\ End(U, o) = o + n /\ IsFree(U, o)
  BY <1>1 DEF Size, End, IsFree
<1> QED
  BY <1>2, <1>3

LEMMA TakePart ==
  ASSUME NEW T \in Tags, Tiled(T), Spread(T), NEW o \in FreeIn(T), NEW n \in Nat, NEW k \in Nat, NEW m,
         o + n = m, n + k = Size(T, o), Good(n), Good(k),
         NEW R, R = MpFreeInit(T, m, k), NEW U, U = MpAllocInit(R, o, n)
  PROVE  /\ U \in Tags /\ Tiled(U) /\ Spread(U)
         /\ FreeIn(U) = (FreeIn(T) \ {o}) \cup {m} /\ AllocIn(U) = AllocIn(T) \cup {o}
         /\ \A p \in In(T) \ {o} : U.head[p] = T.head[p]
         /\ Size(U, o) = n /\ m \in Offsets /\ m \notin In(T)
         /\ R \in Tags /\ R.head[m] = U.head[m] /\ \A p \in In(T) \ {o} : R.head[p] = T.head[p]
<1> DEFINE e == End(T, o)
<1>1. /\ o \in In(T) /\ o \in 0..Cap /\ o \in Nat /\ Cap \in Nat /\ e = o + Size(T, o)
      /\ e \in In(T) \cup {Cap} /\ e \in 0..Cap /\ o < e
      /\ \A p \in In(T) : p \in 0..Cap /\ (p <= o \/ e <= p)
      /\ e \notin FreeIn(T) /\ Cap \notin In(T)
  BY PieceFacts, CapIsNoPiece DEF Spread, FreeIn
<1> HIDE DEF e
<1>2. m \in Nat /\ m + k = e /\ n >= 2 /\ k >= 2
  <2>1. n >= 2 /\ k >= 2
    BY MemBlockAssumption DEF Good, MinSize
  <2> QED
    BY <1>1, <2>1
<1>3. /\ o < m /\ m < e /\ m \in Offsets /\ e \in Offsets /\ n <= Cap /\ k <= Cap /\ Offsets = 0..Cap
  BY <1>1, <1>2 DEF Offsets
<1>4. R \in Tags /\ Writes(T, R, m, e, FreeTag(k)) /\ Writes(R, U, o, m, AllocTag(n))
  <2>1. Writes(T, R, m, e, FreeTag(k))
    BY <1>2, <1>3, InitWrites
  <2>2. R \in Tags /\ o \in Offsets
    BY <1>1, <1>3, <2>1 DEF Writes
  <2> QED
    BY <1>3, <2>1, <2>2, InitWrites
<1>5. Cut(T, U, o, e, {o, m}) /\ U.head[o] = AllocTag(n) /\ U.head[m] = FreeTag(k)
  <2>1. Fit(o, n, m, k, e)
    BY <1>2, <1>3 DEF Fit
  <2>2. WritesTwo(T, U, o, m, e, AllocTag(n), FreeTag(k))
    BY <1>4 DEF WritesTwo
  <2>3. o \in In(T) /\ e \in In(T) \cup {Cap} /\ m \in Offsets
    BY <1>1, <1>3
  <2>4. Halved(T, U, o, n, m, k, e)
    BY <2>1, <2>2, <2>3, TwoPieces, Zenon
  <2> QED
    BY <2>4 DEF Halved
<1>6. Size(U, o) = n /\ ~IsFree(U, o) /\ IsFree(U, m) /\ End(U, m) = e
  <2>1. Size(U, o) = n /\ ~IsFree(U, o)
    BY <1>3, <1>5, PieceReads
  <2>2. Size(U, m) = k /\ IsFree(U, m)
    BY <1>3, <1>5, PieceReads
  <2>3. End(U, m) = m + k
    BY <2>2 DEF End
  <2> QED
    BY <1>2, <2>1, <2>2, <2>3
<1>7. Spread(U)
  <2> DEFINE new == {o, m}
  <2>1. new \subseteq o..(e - 1) /\ o \in new
    BY <1>1, <1>2, <1>3
  <2>2. \A q \in new : IsFree(U, q) => End(U, q) = e
    BY <1>6
  <2>3. Cut(T, U, o, e, new)
    BY <1>5
  <2>4. Apart(T, U, o, e, new)
    BY <1>1, <1>6, <2>1, <2>2 DEF Apart
  <2>5. o \in In(T) /\ e \in In(T) \cup {Cap}
    BY <1>1
  <2> HIDE DEF new
  <2> QED
    BY <2>3, <2>4, <2>5, CutSpread, Zenon
<1>8. CutShows(T, U, o, e, {o, m})
  BY <1>5, CutViews
<1>9. \A p \in In(T) \ {o} : p < o \/ p >= e
  BY <1>1
<1>10. m \notin In(T)
  BY <1>1, <1>2, <1>3
<1>11. FreeIn(U) = (FreeIn(T) \ {o}) \cup {m}
  <2>1. \A p \in FreeIn(U) : p \in (FreeIn(T) \ {o}) \cup {m}
    BY <1>1, <1>6, <1>8 DEF CutShows
  <2>2. \A p \in FreeIn(T) \ {o} : p \in FreeIn(U)
    BY <1>8, <1>9 DEF FreeIn, CutShows
  <2>3. m \in FreeIn(U)
    BY <1>6, <1>8 DEF CutShows
  <2> QED
    BY <2>1, <2>2, <2>3
<1>12. AllocIn(U) = AllocIn(T) \cup {o}
  <2>1. \A p \in AllocIn(U) : p \in AllocIn(T) \cup {o}
    BY <1>6, <1>8 DEF CutShows
  <2>2. \A p \in AllocIn(T) : p # o
    BY DEF AllocIn
  <2>3. \A p \in AllocIn(T) : p \in AllocIn(U)
    BY <1>8, <1>9, <2>2 DEF AllocIn, CutShows
  <2>4. o \in AllocIn(U)
    BY <1>6, <1>8 DEF CutShows
  <2> QED
    BY <2>1, <2>3, <2>4
<1>13. \A p \in In(T) \ {o} : U.head[p] = T.head[p]
  BY <1>8, <1>9 DEF CutShows
<1>14. R \in Tags /\ R.head[m] = U.head[m] /\ \A p \in In(T) \ {o} : R.head[p] = T.head[p]
  <2>3. \A p \in In(T) \ {o} : p \in Offsets /\ p # m /\ ~(m < p /\ p < e)
    BY <1>1, <1>2, <1>3, <1>9, <1>10
  <2> QED
    BY <1>3, <1>4, <1>5, <2>3 DEF Writes
<1> QED
  BY <1>3, <1>5, <1>6, <1>7, <1>10, <1>11, <1>12, <1>13, <1>14 DEF Cut

\* mb_coalesce_unsafe: the pieces from s to e become one free piece, which has no
\* free neighbours.
LEMMA JoinPieces ==
  ASSUME NEW T \in Tags, Tiled(T), Spread(T), NEW s \in In(T), NEW e \in In(T) \cup {Cap}, NEW n \in Nat,
         s + n = e, Good(n), e \notin FreeIn(T), \A p \in FreeIn(T) : End(T, p) # s,
         NEW U, U = MpFreeInit(T, s, n)
  PROVE  U \in Tags /\ Tiled(U) /\ Spread(U) /\ CutShows(T, U, s, e, {s}) /\ IsFree(U, s) /\ Size(U, s) = n
<1>1. /\ s \in 0..Cap /\ s \in Nat /\ Cap \in Nat /\ e \in 0..Cap /\ Cap \notin In(T)
  BY CapIsGood, CapIsNoPiece DEF Offsets
<1>2. s < e /\ n <= Cap
  <2>1. n >= 2
    BY MemBlockAssumption DEF Good, MinSize
  <2> QED
    BY <1>1, <2>1
<1>3. Cut(T, U, s, e, {s}) /\ U.head[s] = FreeTag(n)
  <2>1. s \in Offsets /\ e \in Offsets
    BY <1>1 DEF Offsets
  <2>2. Writes(T, U, s, e, FreeTag(n))
    BY <2>1, InitWrites
  <2>3. FreeTag(n) \in 1..(Cap + 1) /\ TagSize(FreeTag(n)) = n
    BY <1>2, TagReads
  <2> QED
    BY <1>2, <2>2, <2>3, OnePiece
<1>4. Size(U, s) = n /\ IsFree(U, s) /\ End(U, s) = e
  BY <1>2, <1>3, PieceReads
<1>5. Spread(U)
  <2> DEFINE new == {s}
  <2>1. new \subseteq s..(e - 1) /\ s \in new
    BY <1>1, <1>2
  <2>2. \A q \in new : IsFree(U, q) => End(U, q) = e
    BY <1>4
  <2>3. Cut(T, U, s, e, new)
    BY <1>3
  <2>4. Apart(T, U, s, e, new)
    BY <1>1, <1>2, <2>1, <2>2 DEF Apart
  <2> HIDE DEF new
  <2> QED
    BY <2>3, <2>4, CutSpread, Zenon
<1>6. CutShows(T, U, s, e, {s})
  BY <1>3, CutViews
<1> QED
  BY <1>3, <1>4, <1>5, <1>6 DEF Cut

\* mb_try_shift: the pieces from o to e become an allocated and a free one.
LEMMA ShiftPieces ==
  ASSUME NEW T \in Tags, Tiled(T), Spread(T), NEW o \in FreeIn(T), NEW e \in In(T) \cup {Cap},
         NEW n \in Nat, NEW k \in Nat, NEW m, o + n = m, m + k = e, Good(n), Good(k), e \notin FreeIn(T),
         NEW U, U = MpFreeInit(MpAllocInit(T, o, n), m, k)
  PROVE  /\ U \in Tags /\ Tiled(U) /\ Spread(U) /\ CutShows(T, U, o, e, {o, m})
         /\ ~IsFree(U, o) /\ Size(U, o) = n /\ IsFree(U, m) /\ Size(U, m) = k
         /\ o < m /\ m < e /\ m \in Offsets
<1>1. /\ o \in In(T) /\ o \in 0..Cap /\ o \in Nat /\ Cap \in Nat /\ e \in 0..Cap /\ Cap \notin In(T)
  BY CapIsGood, CapIsNoPiece DEF Offsets, FreeIn
<1>2. m \in Nat /\ n >= 2 /\ k >= 2
  <2>1. n >= 2 /\ k >= 2
    BY MemBlockAssumption DEF Good, MinSize
  <2> QED
    BY <1>1, <2>1
<1>3. /\ o < m /\ m < e /\ m \in Offsets /\ e \in Offsets /\ n <= Cap /\ k <= Cap /\ Offsets = 0..Cap
  BY <1>1, <1>2 DEF Offsets
<1>4. \E V \in Tags : Writes(T, V, o, m, AllocTag(n)) /\ Writes(V, U, m, e, FreeTag(k))
  <2> DEFINE V == MpAllocInit(T, o, n)
  <2>1. Writes(T, V, o, m, AllocTag(n))
    BY <1>1, <1>3, InitWrites
  <2>2. U = MpFreeInit(V, m, k)
    OBVIOUS
  <2> HIDE DEF V
  <2>3. V \in Tags
    BY <2>1 DEF Writes
  <2>4. Writes(V, U, m, e, FreeTag(k))
    BY <1>3, <2>2, <2>3, InitWrites
  <2> QED
    BY <2>1, <2>3, <2>4
<1>5. Cut(T, U, o, e, {o, m}) /\ U.head[o] = AllocTag(n) /\ U.head[m] = FreeTag(k)
  <2>1. Fit(o, n, m, k, e)
    BY <1>3 DEF Fit
  <2>2. WritesTwo(T, U, o, m, e, AllocTag(n), FreeTag(k))
    BY <1>4 DEF WritesTwo
  <2>3. o \in In(T) /\ e \in In(T) \cup {Cap} /\ m \in Offsets
    BY <1>1, <1>3
  <2>4. Halved(T, U, o, n, m, k, e)
    BY <2>1, <2>2, <2>3, TwoPieces, Zenon
  <2> QED
    BY <2>4 DEF Halved
<1>6. Size(U, o) = n /\ ~IsFree(U, o) /\ IsFree(U, m) /\ Size(U, m) = k /\ End(U, m) = e
  <2>1. Size(U, o) = n /\ ~IsFree(U, o)
    BY <1>3, <1>5, PieceReads
  <2>2. Size(U, m) = k /\ IsFree(U, m)
    BY <1>3, <1>5, PieceReads, ZenonT(30)
  <2>3. End(U, m) = m + k
    BY <2>2 DEF End
  <2> QED
    BY <2>1, <2>2, <2>3
<1>7. Spread(U)
  <2> DEFINE new == {o, m}
  <2>1. new \subseteq o..(e - 1) /\ o \in new
    BY <1>1, <1>2, <1>3
  <2>2. \A q \in new : IsFree(U, q) => End(U, q) = e
    BY <1>6
  <2>3. Cut(T, U, o, e, new)
    BY <1>5
  <2>4. o < e /\ o \in In(T) /\ Cap \notin In(T)
    BY <1>1, <1>2, <1>3
  <2>5. Apart(T, U, o, e, new)
    BY <1>6, <2>1, <2>2, <2>4 DEF Apart
  <2> HIDE DEF new
  <2> QED
    BY <2>3, <2>4, <2>5, CutSpread, Zenon
<1>8. CutShows(T, U, o, e, {o, m})
  BY <1>5, CutViews
<1> QED
  BY <1>3, <1>5, <1>6, <1>7, <1>8 DEF Cut

-----------------------------------------------------------------------------
(***************************************************************************)
(* The block, before and after a call.                                     *)
(***************************************************************************)
LEMMA TagsAreTyped == TypeOK => tags \in Tags
BY DEF TypeOK, Tags

\* mb_malloc_p.
LEMMA TakeKeeps ==
  ASSUME BlockOK(tags, sizeFree), NEW t, NEW v, NEW hold, NEW n \in Nat, sizeFree # <<>>, BigEnough(n),
         Take(t, n, hold, v, MinSize)
  PROVE  LET big == Head(sizeFree)
         IN /\ big \in FreeIn(tags) /\ BlockOK(tags', sizeFree')
            /\ AllocIn(tags') = AllocIn(tags) \cup {big}
            /\ \A p \in AllocIn(tags) : tags'.head[p] = tags.head[p]
            /\ Size(tags', big) >= n + Pad
<1> DEFINE T == tags
           S == FreeIn(tags)
           big == Head(sizeFree)
           size == PadNumBytes(n)
           old == Size(T, big)
           cut == old - size
           m == big + size
           R == MpFreeInit(T, m, cut)
           U == tags'
<1>0. T \in Tags /\ Tiled(T) /\ Spread(T) /\ Listed(sizeFree, S, T)
  BY DEF BlockOK
<1>1. big \in S /\ Listed(Tail(sizeFree), S \ {big}, T)
  BY <1>0, Headed
<1>2. \A p : MpSize(p) = Size(T, p)
  BY <1>0, StateViews
<1>3. /\ IF cut < MinSize
           THEN U = MpAllocInit(T, big, old) /\ sizeFree' = Tail(sizeFree)
           ELSE U = MpAllocInit(R, big, size) /\ sizeFree' = AddToSize(Tail(sizeFree), R, m)
      /\ old >= size
  <2>1. MpSize(big) = old
    BY <1>2
  <2> HIDE DEF old
  <2> QED
    BY <2>1 DEF Take, BigEnough, MpAllocInit, MpFreeInit
<1>4. Good(size) /\ size \in Nat /\ size >= n + Pad
  BY Padded DEF Good
<1>5. big \in In(T) /\ Good(old) /\ old \in Nat /\ big \in Nat
  BY <1>0, <1>1, PieceFacts DEF FreeIn
<1>6. \A p \in AllocIn(T) : p \in In(T) \ {big}
  BY <1>1 DEF AllocIn
<1>7. \A p \in S \ {big} : p \in In(T) \ {big}
  BY DEF FreeIn
<1> HIDE DEF S, size, old, T
<1>8. CASE cut < MinSize
  <2>1. U = MpAllocInit(T, big, old) /\ sizeFree' = Tail(sizeFree)
    BY <1>3, <1>8
  <2>2. /\ U \in Tags /\ Tiled(U) /\ Spread(U)
        /\ FreeIn(U) = S \ {big} /\ AllocIn(U) = AllocIn(T) \cup {big}
        /\ \A p \in In(T) \ {big} : U.head[p] = T.head[p]
        /\ Size(U, big) = old
    <3>1. big \in FreeIn(T)
      BY <1>1 DEF S, T
    <3> QED
      BY <1>0, <2>1, <3>1, TakeAll DEF S, T, old
  <2>3. Listed(sizeFree', S \ {big}, U)
    BY <1>1, <1>7, <2>1, <2>2, Relisted
  <2>4. old >= n + Pad
    BY <1>3, <1>4, <1>5, MemBlockAssumption
  <2> QED
    BY <1>1, <1>6, <2>2, <2>3, <2>4 DEF BlockOK, S, T
<1>9. CASE ~(cut < MinSize)
  <2>1. U = MpAllocInit(R, big, size) /\ sizeFree' = AddToSize(Tail(sizeFree), R, m)
    BY <1>3, <1>9
  <2>2. cut \in Nat /\ Good(cut) /\ size + cut = old /\ big + size = m
    <3>1. cut \in Nat /\ Even(cut)
      BY <1>3, <1>4, <1>5, EvenSums DEF Good, Even
    <3>2. MinSize \in Nat
      BY MemBlockAssumption DEF MinSize
    <3> QED
      BY <1>4, <1>5, <1>9, <3>1, <3>2 DEF Good, Even
  <2>a. R = MpFreeInit(T, m, cut)
    OBVIOUS
  <2> HIDE DEF R, m, cut
  <2>3. /\ U \in Tags /\ Tiled(U) /\ Spread(U)
        /\ FreeIn(U) = (S \ {big}) \cup {m} /\ AllocIn(U) = AllocIn(T) \cup {big}
        /\ \A p \in In(T) \ {big} : U.head[p] = T.head[p]
        /\ Size(U, big) = size /\ m \in Offsets /\ m \notin In(T)
        /\ R \in Tags /\ R.head[m] = U.head[m] /\ \A p \in In(T) \ {big} : R.head[p] = T.head[p]
    <3>1. big \in FreeIn(T) /\ S = FreeIn(T) /\ size + cut = Size(T, big)
      BY <1>1, <2>2 DEF S, T, old
    <3> HIDE DEF U, big
    <3> QED
      BY <1>0, <1>4, <2>1, <2>2, <2>a, <3>1, TakePart
  <2>4. Listed(Tail(sizeFree), S \ {big}, R)
    BY <1>1, <1>7, <2>3, Relisted
  <2>5. m \notin S \ {big}
    BY <1>7, <2>3
  <2>6. Listed(sizeFree', (S \ {big}) \cup {m}, R)
    BY <2>1, <2>3, <2>4, <2>5, Added
  <2>7. \A p \in (S \ {big}) \cup {m} : U.head[p] = R.head[p]
    BY <1>7, <2>3
  <2>8. Listed(sizeFree', (S \ {big}) \cup {m}, U)
    BY <2>6, <2>7, Relisted
  <2> QED
    BY <1>1, <1>4, <1>6, <2>3, <2>8 DEF BlockOK, S, T
<1> QED
  BY <1>8, <1>9

\* The piece before the piece o is where the footer before o says.
LEMMA PieceBefore ==
  ASSUME tags \in Tags, Tiled(tags), NEW o \in In(tags), o > 0
  PROVE  MpPrev(o) \in In(tags) /\ End(tags, MpPrev(o)) = o /\ MpPrev(o) < o
<1>1. PICK p \in In(tags) : End(tags, p) = o
  <2>1. o = 0 \/ \E p \in In(tags) : End(tags, p) = o
    BY DEF Tiled
  <2>2. o \in Nat
    BY PieceFacts
  <2> QED
    BY <2>1, <2>2
<1>2. tags.foot[o] = tags.head[p]
  BY <1>1, PieceFacts
<1>3. MpPrev(o) = o - Size(tags, p)
  BY <1>2 DEF MpPrev, Size
<1>4. p \in Nat /\ Size(tags, p) \in Nat /\ o = p + Size(tags, p) /\ p < o
  BY <1>1, PieceFacts
<1>5. MpPrev(o) = p
  <2> DEFINE s == Size(tags, p)
  <2>1. MpPrev(o) = o - s /\ p \in Nat /\ s \in Nat /\ o = p + s
    BY <1>3, <1>4
  <2> HIDE DEF s
  <2> QED
    BY <2>1
<1> QED
  BY <1>1, <1>4, <1>5

\* What mb_coalesce_unsafe works out: the pieces from s to e are o and the free
\* pieces next to it, and are taken off the list.
Gathers(o, s, e, rest) ==
  /\ s \in In(tags) /\ e \in In(tags) \cup {Cap} /\ s <= o /\ End(tags, o) <= e
  /\ e - s \in Nat /\ Good(e - s)
  /\ e \notin FreeIn(tags) /\ \A p \in FreeIn(tags) : End(tags, p) # s
  /\ \A p \in AllocIn(tags) : p = o \/ p < s \/ p >= e
  /\ \E S : /\ Listed(rest, S, tags)
            /\ \A p \in FreeIn(tags) : p < s \/ p >= e => p \in S
            /\ \A p \in S : p \in FreeIn(tags) /\ (p < s \/ p >= e)

LEMMA GatheredJoins ==
  ASSUME BlockOK(tags, sizeFree), NEW o \in AllocIn(tags), NEW s, NEW e, NEW rest, Gathers(o, s, e, rest),
         tags' = MpInit(tags, s, e - s, FALSE), sizeFree' = AddToSize(rest, tags', s)
  PROVE  /\ BlockOK(tags', sizeFree') /\ AllocIn(tags') = AllocIn(tags) \ {o}
         /\ \A p \in AllocIn(tags) \ {o} : tags'.head[p] = tags.head[p]
<1> DEFINE T == tags
           U == tags'
           n == e - s
<1>0. T \in Tags /\ Tiled(T) /\ Spread(T) /\ Listed(sizeFree, FreeIn(T), T)
  BY DEF BlockOK
<1>1. /\ s \in In(T) /\ e \in In(T) \cup {Cap} /\ s <= o /\ End(T, o) <= e
      /\ n \in Nat /\ Good(n)
      /\ e \notin FreeIn(T) /\ \A p \in FreeIn(T) : End(T, p) # s
      /\ \A p \in AllocIn(T) : p = o \/ p < s \/ p >= e
  BY DEF Gathers
<1>2. PICK S : /\ Listed(rest, S, T)
               /\ \A p \in FreeIn(T) : p < s \/ p >= e => p \in S
               /\ \A p \in S : p \in FreeIn(T) /\ (p < s \/ p >= e)
  BY DEF Gathers
<1>3. s \in Nat /\ e \in Nat /\ s \in Offsets /\ s + n = e
  <2>1. s \in Offsets /\ s \in Nat /\ e \in Nat
    BY <1>0, <1>1, PieceFacts, CapIsGood DEF Offsets
  <2> QED
    BY <2>1
<1>4. U = MpFreeInit(T, s, n)
  BY DEF MpFreeInit
<1>o. o \in In(T) /\ o \in Nat /\ o < End(T, o)
  <2>1. o \in In(T)
    BY DEF AllocIn
  <2> QED
    BY <1>0, <2>1, PieceFacts
<1>e. End(T, o) \in Nat
  BY <1>0, <1>o, PieceFacts, CapIsGood
<1> HIDE DEF T, U, n
<1>5. U \in Tags /\ Tiled(U) /\ Spread(U) /\ CutShows(T, U, s, e, {s}) /\ IsFree(U, s) /\ Size(U, s) = n
  BY <1>0, <1>1, <1>3, <1>4, JoinPieces
<1>6. \A p \in In(T) : p < s \/ p >= e => U.head[p] = T.head[p]
  BY <1>5 DEF CutShows
<1>7. FreeIn(T) \subseteq In(T) /\ AllocIn(T) \subseteq In(T) /\ o \in AllocIn(T)
  BY DEF FreeIn, AllocIn, T
<1>8. Listed(sizeFree', S \cup {s}, U)
  <2>1. \A p \in S : U.head[p] = T.head[p]
    BY <1>2, <1>6, <1>7
  <2>2. Listed(rest, S, U)
    BY <1>2, <2>1, Relisted
  <2>3. s \notin S
    BY <1>1, <1>2, <1>3, <1>o, <1>e
  <2>4. sizeFree' = AddToSize(rest, U, s)
    BY DEF U
  <2> QED
    BY <1>3, <1>5, <2>2, <2>3, <2>4, Added
<1>9. FreeIn(U) = S \cup {s}
  <2>1. \A p \in FreeIn(U) : p \in S \cup {s}
    BY <1>2, <1>5 DEF CutShows
  <2>2. \A p \in S : p \in FreeIn(U)
    BY <1>2, <1>5 DEF CutShows
  <2>3. s \in FreeIn(U)
    BY <1>5 DEF CutShows
  <2> QED
    BY <2>1, <2>2, <2>3
<1>10. \A p \in AllocIn(T) \ {o} : p < s \/ p >= e
  BY <1>1
<1>11. AllocIn(U) = AllocIn(T) \ {o}
  <2>1. ASSUME NEW p \in AllocIn(U) PROVE p \in AllocIn(T) /\ p # o
    <3>1. p \in AllocIn(T) /\ (p < s \/ p >= e)
      BY <1>5 DEF CutShows
    <3> QED
      BY <1>1, <1>3, <1>o, <1>e, <3>1
  <2>2. \A p \in AllocIn(T) \ {o} : p \in AllocIn(U)
    BY <1>5, <1>10 DEF CutShows
  <2> QED
    BY <2>1, <2>2
<1>12. \A p \in AllocIn(T) \ {o} : U.head[p] = T.head[p]
  BY <1>6, <1>7, <1>10
<1> QED
  BY <1>5, <1>8, <1>9, <1>11, <1>12 DEF BlockOK, T, U

\* The side of o towards the start.
LeftOf(o, s) ==
  /\ s \in In(tags) /\ s <= o /\ o - s \in Nat /\ Even(o - s)
  /\ \A p \in FreeIn(tags) : End(tags, p) # s
  /\ \A p \in In(tags) : p < s \/ p = s \/ p >= o
  /\ s = o \/ s \in FreeIn(tags)

LEMMA LeftGathers ==
  ASSUME tags \in Tags, Tiled(tags), Spread(tags), NEW o \in AllocIn(tags)
  PROVE  /\ PrevFree(o) => MpPrev(o) \in FreeIn(tags) /\ LeftOf(o, MpPrev(o)) /\ MpPrev(o) < o
         /\ ~PrevFree(o) => LeftOf(o, o)
<1>1. o \in In(tags) /\ o \in Nat
  <2>1. o \in In(tags)
    BY DEF AllocIn
  <2> QED
    BY <2>1, PieceFacts
<1>2. o > 0 => /\ MpPrev(o) \in In(tags) /\ End(tags, MpPrev(o)) = o /\ MpPrev(o) < o
  BY <1>1, PieceBefore
<1>3. ASSUME PrevFree(o)
      PROVE  MpPrev(o) \in FreeIn(tags) /\ LeftOf(o, MpPrev(o)) /\ MpPrev(o) < o
  <2> DEFINE p == MpPrev(o)
  <2>1. p \in In(tags) /\ End(tags, p) = o /\ p < o /\ ~MpAlloc(p)
    BY <1>2, <1>3 DEF PrevFree
  <2> HIDE DEF p
  <2>2. p \in FreeIn(tags)
    BY <2>1, StateViews DEF AllocIn
  <2>3. \A q \in FreeIn(tags) : End(tags, q) # p
    BY <2>2 DEF Spread
  <2>4. p \in Nat /\ Good(Size(tags, p)) /\ Size(tags, p) \in Nat /\ o = p + Size(tags, p)
        /\ \A q \in In(tags) : q <= p \/ o <= q
    BY <2>1, PieceFacts
  <2>5. o - p \in Nat /\ Even(o - p)
    <3> DEFINE k == Size(tags, p)
    <3>1. k \in Nat /\ p \in Nat /\ o = p + k /\ k % 2 = 0
      BY <2>4 DEF Good
    <3> HIDE DEF k
    <3>2. o - p = k
      BY <3>1
    <3> QED
      BY <3>1, <3>2 DEF Even
  <2>6. \A q \in In(tags) : q < p \/ q = p \/ q >= o
    <3>1. \A q \in In(tags) : q \in Nat
      BY PieceFacts
    <3> QED
      BY <1>1, <2>4, <3>1
  <2> QED
    BY <1>1, <2>1, <2>2, <2>3, <2>4, <2>5, <2>6 DEF LeftOf, p
<1>4. ASSUME ~PrevFree(o)
      PROVE  LeftOf(o, o)
  <2>1. ASSUME NEW q \in FreeIn(tags), End(tags, q) = o
        PROVE  FALSE
    <3>1. q \in In(tags)
      BY DEF FreeIn
    <3>2. q \in Nat /\ q < o
      BY <2>1, <3>1, PieceFacts
    <3>3. o > 0
      BY <1>1, <3>2
    <3> DEFINE p == MpPrev(o)
    <3>4. p \in In(tags) /\ End(tags, p) = o /\ p < o /\ MpAlloc(p)
      BY <1>2, <1>4, <3>3 DEF PrevFree
    <3> HIDE DEF p
    <3>5. p \in Nat /\ (q <= p \/ o <= q) /\ (p <= q \/ o <= p)
      BY <2>1, <3>1, <3>4, PieceFacts
    <3>6. p = q
      BY <1>1, <3>2, <3>4, <3>5
    <3>7. p \in AllocIn(tags)
      BY <3>4, StateViews
    <3> QED
      BY <3>6, <3>7 DEF AllocIn
  <2>2. o - o = 0 /\ Even(0) /\ 0 \in Nat
    BY <1>1 DEF Even
  <2>3. \A q \in In(tags) : q < o \/ q = o \/ q >= o
    <3>1. \A q \in In(tags) : q \in Nat
      BY PieceFacts
    <3> QED
      BY <1>1, <3>1
  <2> QED
    BY <1>1, <2>1, <2>2, <2>3 DEF LeftOf
<1> QED
  BY <1>3, <1>4

\* The side of o towards the end.
RightOf(o, e) ==
  /\ e \in In(tags) \cup {Cap} /\ End(tags, o) <= e /\ e - o \in Nat /\ Good(e - o)
  /\ e \notin FreeIn(tags)
  /\ \A p \in In(tags) : p <= o \/ p = End(tags, o) \/ p >= e

LEMMA RightGathers ==
  ASSUME tags \in Tags, Tiled(tags), Spread(tags), NEW o \in AllocIn(tags)
  PROVE  /\ NextFree(o) => MpNext(o) \in FreeIn(tags) /\ RightOf(o, MpNext(MpNext(o))) /\ MpNext(o) < MpNext(MpNext(o))
         /\ ~NextFree(o) => RightOf(o, MpNext(o))
<1> DEFINE n == End(tags, o)
<1>1. /\ o \in In(tags) /\ o \in Nat /\ n \in Nat /\ n = o + Size(tags, o) /\ Size(tags, o) \in Nat /\ o < n
      /\ Good(Size(tags, o)) /\ n \in In(tags) \cup {Cap} /\ Cap \in Nat /\ n <= Cap
      /\ \A p \in In(tags) : p <= o \/ n <= p
  <2>1. o \in In(tags)
    BY DEF AllocIn
  <2> QED
    BY <2>1, PieceFacts
<1>2. \A p : MpNext(p) = End(tags, p)
  BY StateViews
<1>3. \A p \in In(tags) : p \in Nat
  BY PieceFacts
<1>4. Cap \notin In(tags)
  BY CapIsNoPiece
<1>5. MpNext(o) = n
  BY <1>2
<1> HIDE DEF n
<1>6. ASSUME NextFree(o)
      PROVE  MpNext(o) \in FreeIn(tags) /\ RightOf(o, MpNext(MpNext(o))) /\ MpNext(o) < MpNext(MpNext(o))
  <2> DEFINE e == End(tags, n)
  <2>1. n \in In(tags) /\ ~MpAlloc(n)
    BY <1>1, <1>5, <1>6 DEF NextFree
  <2>2. n \in FreeIn(tags)
    BY <2>1, StateViews DEF AllocIn
  <2>3. e \notin FreeIn(tags)
    BY <2>2 DEF Spread
  <2>4. /\ e \in In(tags) \cup {Cap} /\ e = n + Size(tags, n) /\ Size(tags, n) \in Nat /\ n < e /\ e \in Nat
        /\ Good(Size(tags, n)) /\ \A p \in In(tags) : p <= n \/ e <= p
    BY <2>1, PieceFacts
  <2>5. MpNext(MpNext(o)) = e
    BY <1>2, <1>5
  <2> HIDE DEF e
  <2>6. e - o \in Nat /\ Good(e - o)
    <3> DEFINE a == Size(tags, o)
               b == Size(tags, n)
    <3>1. a \in Nat /\ b \in Nat /\ Good(a) /\ Good(b) /\ n = o + a /\ e = n + b
      BY <1>1, <2>4
    <3> HIDE DEF a, b
    <3>2. e - o = a + b
      BY <1>1, <3>1
    <3>3. Good(a + b)
      <4>1. MinSize \in Nat
        BY MemBlockAssumption DEF MinSize
      <4> QED
        BY <3>1, <4>1 DEF Good
    <3> QED
      BY <3>1, <3>2, <3>3
  <2>7. \A p \in In(tags) : p <= o \/ p = n \/ p >= e
    BY <1>1, <1>3, <2>4
  <2>8. n <= e
    BY <1>1, <2>4
  <2>9. RightOf(o, e)
    BY <2>3, <2>4, <2>6, <2>7, <2>8 DEF RightOf, n
  <2> QED
    BY <1>5, <2>2, <2>4, <2>5, <2>9
<1>7. ASSUME ~NextFree(o)
      PROVE  RightOf(o, MpNext(o))
  <2>1. n \notin FreeIn(tags)
    <3>1. CASE n = Cap
      BY <1>4, <3>1 DEF FreeIn
    <3>2. CASE n \in In(tags) /\ n # Cap
      <4>1. MpAlloc(n)
        BY <1>1, <1>5, <1>7, <3>2 DEF NextFree
      <4> QED
        BY <3>2, <4>1, StateViews DEF AllocIn
    <3> QED
      BY <1>1, <3>1, <3>2
  <2>2. n - o = Size(tags, o)
    <3> DEFINE a == Size(tags, o)
    <3>1. a \in Nat /\ n = o + a
      BY <1>1
    <3> HIDE DEF a
    <3> QED
      BY <1>1, <3>1
  <2>3. n <= n
    BY <1>1
  <2>4. \A p \in In(tags) : p <= o \/ p = n \/ p >= n
    BY <1>1
  <2> QED
    BY <1>1, <1>5, <2>1, <2>2, <2>3, <2>4 DEF RightOf, n
<1> QED
  BY <1>6, <1>7

\* mb_coalesce_unsafe.
LEMMA CoalesceKeeps ==
  ASSUME BlockOK(tags, sizeFree), NEW o \in AllocIn(tags), Coalesce(o)
  PROVE  /\ BlockOK(tags', sizeFree') /\ AllocIn(tags') = AllocIn(tags) \ {o}
         /\ \A p \in AllocIn(tags) \ {o} : tags'.head[p] = tags.head[p]
<1> DEFINE withPrev == PrevFree(o)
           withNext == NextFree(o)
           prev == MpPrev(o)
           next == MpNext(o)
           s == IF withPrev THEN prev ELSE o
           e == IF withNext THEN MpNext(next) ELSE next
           others == IF withPrev THEN Unlink(sizeFree, prev) ELSE sizeFree
           rest == IF withNext THEN Unlink(others, next) ELSE others
<1>0. tags \in Tags /\ Tiled(tags) /\ Spread(tags) /\ Listed(sizeFree, FreeIn(tags), tags)
  BY DEF BlockOK
<1>1. /\ tags' = MpInit(tags, s, e - s, FALSE)
      /\ sizeFree' = AddToSize(rest, tags', s)
  BY DEF Coalesce, Join
<1>2. /\ LeftOf(o, s)
      /\ IF withPrev THEN s = prev /\ prev \in FreeIn(tags) /\ prev < o ELSE s = o
  BY <1>0, LeftGathers
<1>3. /\ RightOf(o, e)
      /\ IF withNext THEN next \in FreeIn(tags) /\ next < e ELSE e = next
  BY <1>0, RightGathers
<1>4. /\ o \in In(tags) /\ o \in Nat /\ o < next /\ next \in Nat /\ next = End(tags, o) /\ o \notin FreeIn(tags)
      /\ \A p \in In(tags) : p \in Nat
  <2>1. o \in In(tags) /\ o \notin FreeIn(tags)
    BY DEF AllocIn
  <2>2. next = End(tags, o)
    BY <1>0, StateViews
  <2> QED
    BY <1>0, <2>1, <2>2, PieceFacts, CapIsGood, ZenonT(30)
<1>5. e \in Nat
  BY <1>3, <1>4, CapIsGood DEF RightOf
<1>6. FreeIn(tags) \subseteq In(tags) /\ AllocIn(tags) \subseteq In(tags) \ FreeIn(tags)
  BY DEF FreeIn, AllocIn
<1> DEFINE SL == IF withPrev THEN FreeIn(tags) \ {prev} ELSE FreeIn(tags)
           S == IF withNext THEN SL \ {next} ELSE SL
<1>7. Listed(others, SL, tags)
  BY <1>0, <1>2, Unlinked
<1>8. withNext => next \in SL
  BY <1>2, <1>3, <1>4
<1>9. Listed(rest, S, tags)
  <2> HIDE DEF others, SL, withPrev, withNext, next
  <2> QED
    BY <1>7, <1>8, Unlinked
<1> HIDE DEF withPrev, withNext, prev, next, s, e, others, rest
<1>10. \A p \in In(tags) : p < s \/ (withPrev /\ p = prev) \/ p = o \/ (withNext /\ p = next) \/ p >= e
  <2> SUFFICES ASSUME NEW p \in In(tags), ~(p < s), ~(withPrev /\ p = prev), p # o, ~(p >= e)
               PROVE  withNext /\ p = next
    OBVIOUS
  <2>1. p \in Nat /\ s \in Nat
    BY <1>2, <1>4 DEF LeftOf
  <2>2. p # s
    BY <1>2
  <2>3. p >= o
    BY <1>2, <2>2 DEF LeftOf
  <2>4. p = next
    BY <1>3, <1>4, <2>1, <2>3 DEF RightOf
  <2>5. withNext
    BY <1>3, <1>5, <2>4
  <2> QED
    BY <2>4, <2>5
<1>11. s \in In(tags) /\ s \in Nat /\ s <= o /\ next <= e /\ (withPrev => prev = s /\ s < o) /\ (withNext => next < e)
  BY <1>2, <1>3, <1>4 DEF LeftOf, RightOf
<1>12. \A p \in AllocIn(tags) : p = o \/ p < s \/ p >= e
  BY <1>2, <1>3, <1>6, <1>10
<1>13. \A p \in FreeIn(tags) : p < s \/ p >= e => p \in S
  BY <1>4, <1>5, <1>6, <1>11
<1>14. \A p \in S : p \in FreeIn(tags) /\ (p < s \/ p >= e)
  BY <1>4, <1>6, <1>10
<1>15. e - s \in Nat /\ Good(e - s)
  <2> DEFINE a == o - s
             b == e - o
  <2>1. a \in Nat /\ Even(a)
    BY <1>2 DEF LeftOf
  <2>2. b \in Nat /\ Good(b)
    BY <1>3 DEF RightOf
  <2>3. e - s = a + b
    BY <1>4, <1>5, <1>11
  <2> HIDE DEF a, b
  <2>4. Good(a + b)
    <3>1. MinSize \in Nat
      BY MemBlockAssumption DEF MinSize
    <3> QED
      BY <2>1, <2>2, <3>1 DEF Good, Even
  <2> QED
    BY <2>1, <2>2, <2>3, <2>4
<1>16. Gathers(o, s, e, rest)
  <2> HIDE DEF S, SL
  <2>1. /\ e \in In(tags) \cup {Cap} /\ End(tags, o) <= e /\ e \notin FreeIn(tags)
        /\ \A p \in FreeIn(tags) : End(tags, p) # s
    BY <1>2, <1>3 DEF LeftOf, RightOf
  <2> QED
    BY <1>9, <1>11, <1>12, <1>13, <1>14, <1>15, <2>1 DEF Gathers
<1> QED
  BY <1>1, <1>16, GatheredJoins

\* mb_try_shift, when it has found a piece to move: o is the free piece, and e the
\* end of what changes.
ShiftsTo(o, e, k, S) ==
  /\ e \in In(tags) \cup {Cap} /\ e \notin FreeIn(tags) /\ k \in Nat /\ Good(k)
  /\ MpNext(o) < e
  /\ o + Size(tags, MpNext(o)) + k = e
  /\ tags' = Shifted(o, k)
  /\ \A p \in AllocIn(tags) : p < o \/ p = MpNext(o) \/ p >= e
  /\ \A p \in FreeIn(tags) : p < o \/ p >= e => p \in S
  /\ \A p \in S : p \in FreeIn(tags) /\ (p < o \/ p >= e)

LEMMA ShiftedPieces ==
  ASSUME BlockOK(tags, sizeFree), NEW o \in FreeIn(tags), MpNext(o) \in AllocIn(tags),
         NEW e, NEW k, NEW S, ShiftsTo(o, e, k, S), NEW m, m = o + Size(tags, MpNext(o))
  PROVE  /\ tags' \in Tags /\ Tiled(tags') /\ Spread(tags')
         /\ FreeIn(tags') = S \cup {m} /\ m \in Offsets /\ m \notin S
         /\ AllocIn(tags') = (AllocIn(tags) \ {MpNext(o)}) \cup {o}
         /\ \A p \in (AllocIn(tags) \ {MpNext(o)}) \cup S : tags'.head[p] = tags.head[p]
         /\ Size(tags', o) = Size(tags, MpNext(o)) /\ Size(tags', m) = k
<1> DEFINE T == tags
           U == tags'
           next == MpNext(o)
           n == Size(T, next)
<1>0. T \in Tags /\ Tiled(T) /\ Spread(T)
  BY DEF BlockOK
<1>1. o \in In(T) /\ o \in Nat /\ next = End(T, o) /\ next \in Nat /\ o < next /\ next \in In(T) /\ next \notin FreeIn(T)
  <2>1. o \in In(T) /\ next \in In(T) /\ next \notin FreeIn(T)
    BY DEF FreeIn, AllocIn
  <2>2. next = End(T, o)
    BY <1>0, StateViews
  <2> QED
    BY <1>0, <2>1, <2>2, PieceFacts
<1>2. n \in Nat /\ Good(n)
  BY <1>0, <1>1, PieceFacts
<1>3. MpSize(next) = n
  BY <1>0, StateViews
<1>4. /\ e \in In(T) \cup {Cap} /\ e \notin FreeIn(T) /\ k \in Nat /\ Good(k) /\ next < e
      /\ o + n + k = e
      /\ U = Shifted(o, k)
      /\ \A p \in AllocIn(T) : p < o \/ p = next \/ p >= e
      /\ \A p \in FreeIn(T) : p < o \/ p >= e => p \in S
      /\ \A p \in S : p \in FreeIn(T) /\ (p < o \/ p >= e)
  BY DEF ShiftsTo
<1> HIDE DEF n
<1>5. U = MpFreeInit(MpAllocInit(T, o, n), m, k)
  <2>1. m = o + n
    BY DEF n
  <2> QED
    BY <1>3, <1>4, <2>1 DEF Shifted, MpAllocInit, MpFreeInit
<1>6. o + n = m /\ m + k = e
  <2>1. o + n = m
    BY DEF n
  <2> QED
    BY <1>1, <1>2, <1>4, <2>1
<1>7. \A p \in In(T) : p \in Nat
  BY <1>0, PieceFacts
<1>8. e \in Nat
  BY <1>4, <1>7, CapIsGood
<1>a. MpNext(o) = next
  OBVIOUS
<1>b. o \in FreeIn(T)
  OBVIOUS
<1>c. AllocIn(T) \subseteq In(T) /\ FreeIn(T) \subseteq In(T) /\ \A p \in AllocIn(T) : p \notin FreeIn(T)
  BY DEF AllocIn, FreeIn
<1> HIDE DEF T, U, next
<1>9. /\ U \in Tags /\ Tiled(U) /\ Spread(U) /\ CutShows(T, U, o, e, {o, m})
      /\ ~IsFree(U, o) /\ Size(U, o) = n /\ IsFree(U, m) /\ Size(U, m) = k
      /\ o < m /\ m < e /\ m \in Offsets
  BY <1>0, <1>2, <1>4, <1>5, <1>6, <1>b, ShiftPieces
<1>d. m \in Nat
  BY <1>1, <1>2, <1>6
<1>10. FreeIn(U) = S \cup {m}
  <2>1. \A p \in FreeIn(U) : p \in S \cup {m}
    BY <1>4, <1>9 DEF CutShows
  <2>2. \A p \in S : p \in FreeIn(U)
    BY <1>4, <1>9 DEF CutShows
  <2>3. m \in FreeIn(U)
    BY <1>9 DEF CutShows
  <2> QED
    BY <2>1, <2>2, <2>3
<1>11. m \notin S
  BY <1>1, <1>4, <1>8, <1>9, <1>d
<1>12. AllocIn(U) = (AllocIn(T) \ {next}) \cup {o}
  <2>1. \A p \in AllocIn(U) : (p \in AllocIn(T) /\ (p < o \/ p >= e)) \/ p = o
    BY <1>9 DEF CutShows
  <2>2. ~(next < o \/ next >= e)
    BY <1>1, <1>4, <1>8
  <2>3. \A p \in AllocIn(T) \ {next} : p < o \/ p >= e
    BY <1>4, <1>b, <1>c
  <2>4. \A p \in AllocIn(T) \ {next} : p \in AllocIn(U)
    BY <1>9, <2>3 DEF CutShows
  <2>5. o \in AllocIn(U)
    BY <1>9 DEF CutShows
  <2> QED
    BY <2>1, <2>2, <2>4, <2>5
<1>13. \A p \in (AllocIn(T) \ {next}) \cup S : U.head[p] = T.head[p]
  <2>1. \A p \in (AllocIn(T) \ {next}) \cup S : p \in In(T) /\ (p < o \/ p >= e)
    BY <1>4, <1>b, <1>c
  <2> QED
    BY <1>9, <2>1 DEF CutShows
<1> QED
  BY <1>9, <1>10, <1>11, <1>12, <1>13 DEF T, U, next, n

LEMMA ShiftKeeps ==
  ASSUME BlockOK(tags, sizeFree), NEW o \in FreeIn(tags), MpNext(o) \in AllocIn(tags),
         ShiftJoin(o) \/ ShiftReplace(o)
  PROVE  /\ BlockOK(tags', sizeFree') /\ AllocIn(tags') = (AllocIn(tags) \ {MpNext(o)}) \cup {o}
         /\ \A p \in AllocIn(tags) \ {MpNext(o)} : tags'.head[p] = tags.head[p]
         /\ Size(tags', o) = Size(tags, MpNext(o))
<1> DEFINE T == tags
           next == MpNext(o)
           n == Size(T, next)
           k == Size(T, o)
           m == o + n
           after == MpNext(next)
<1>0. T \in Tags /\ Tiled(T) /\ Spread(T) /\ Listed(sizeFree, FreeIn(T), T)
  BY DEF BlockOK
<1>1. /\ o \in In(T) /\ o \in Nat /\ next = o + k /\ next = End(T, o) /\ next \in Nat /\ o < next
      /\ next \in In(T) /\ next \notin FreeIn(T) /\ k \in Nat /\ Good(k)
      /\ \A p \in In(T) : p <= o \/ next <= p
  <2>1. o \in In(T) /\ next \in In(T) /\ next \notin FreeIn(T)
    BY DEF FreeIn, AllocIn
  <2>2. next = End(T, o)
    BY <1>0, StateViews
  <2> QED
    BY <1>0, <2>1, <2>2, PieceFacts
<1>2. /\ n \in Nat /\ Good(n) /\ after = next + n /\ after = End(T, next) /\ after \in In(T) \cup {Cap} /\ next < after
      /\ \A p \in In(T) : p <= next \/ after <= p
  <2>1. after = End(T, next)
    BY <1>0, StateViews
  <2> QED
    BY <1>0, <1>1, <2>1, PieceFacts
<1>3. \A p \in In(T) : p \in Nat
  BY <1>0, PieceFacts
<1>4. after \in Nat /\ after <= Cap /\ Cap \in Nat /\ Cap \notin In(T)
  <2>1. \A p \in In(T) : p < Cap
    BY <1>0, PieceFacts
  <2> QED
    BY <1>0, <1>2, <1>3, <2>1, CapIsGood, CapIsNoPiece
<1>5. MpSize(o) = k /\ MpSize(next) = n /\ MpSize(after) = Size(T, after)
  BY <1>0, StateViews
<1>6. FreeIn(T) \subseteq In(T)
  BY DEF FreeIn
<1>7. m \in Nat
  BY <1>1, <1>2
<1> HIDE DEF n, k, after, T, next
<1>8. ASSUME ShiftJoin(o)
      PROVE  /\ BlockOK(tags', sizeFree') /\ AllocIn(tags') = (AllocIn(T) \ {next}) \cup {o}
             /\ \A p \in AllocIn(T) \ {next} : tags'.head[p] = T.head[p]
             /\ Size(tags', o) = n
  <2> DEFINE l == Size(T, after)
             e == End(T, after)
             S == (FreeIn(T) \ {o}) \ {after}
  <2>1. /\ after < Cap /\ ~MpAlloc(after) /\ tags' = Shifted(o, k + l)
        /\ sizeFree' = AddToSize(Unlink(Unlink(sizeFree, o), after), tags', m)
    BY <1>5, <1>8 DEF ShiftJoin, next, after
  <2>2. after \in In(T) /\ after \in FreeIn(T)
    <3>1. after \in In(T)
      BY <1>2, <1>4, <2>1
    <3>2. after \notin AllocIn(T)
      BY <1>0, <2>1, <3>1, StateViews DEF T
    <3> QED
      BY <3>1, <3>2 DEF AllocIn
  <2>3. /\ e = after + l /\ l \in Nat /\ Good(l) /\ e \in In(T) \cup {Cap} /\ after < e /\ e \in Nat
        /\ \A p \in In(T) : p <= after \/ e <= p
    BY <1>0, <2>2, PieceFacts
  <2>4. e \notin FreeIn(T)
    BY <1>0, <2>2 DEF Spread
  <2> HIDE DEF e, l
  <2>5. k + l \in Nat /\ Good(k + l)
    <3>1. MinSize \in Nat
      BY MemBlockAssumption DEF MinSize
    <3> QED
      BY <1>1, <2>3, <3>1 DEF Good
  <2>6. \A p \in In(T) : p < o \/ p = o \/ p = next \/ p = after \/ p >= e
    BY <1>1, <1>2, <1>3, <1>4, <2>3
  <2>7. o < after /\ after < e /\ next < e
    BY <1>1, <1>2, <1>4, <2>3
  <2>8. ShiftsTo(o, e, k + l, S)
    <3>1. o + n + (k + l) = e
      BY <1>1, <1>2, <2>3
    <3>2. \A p \in FreeIn(T) : p < o \/ p >= e => p \in S
      BY <1>1, <1>3, <1>4, <1>6, <2>3, <2>7
    <3>3. \A p \in S : p \in FreeIn(T) /\ (p < o \/ p >= e)
      BY <1>1, <1>6, <2>6
    <3>4. \A p \in AllocIn(T) : p < o \/ p = next \/ p >= e
      <4>1. \A p \in AllocIn(T) : p \in In(T) /\ p # o /\ p # after
        BY <2>2 DEF AllocIn, T
      <4> QED
        BY <2>6, <4>1
    <3> HIDE DEF S
    <3> QED
      BY <2>1, <2>3, <2>4, <2>5, <2>7, <3>1, <3>2, <3>3, <3>4 DEF ShiftsTo, next, n, T
  <2>9. /\ tags' \in Tags /\ Tiled(tags') /\ Spread(tags')
        /\ FreeIn(tags') = S \cup {m} /\ m \in Offsets /\ m \notin S
        /\ AllocIn(tags') = (AllocIn(T) \ {next}) \cup {o}
        /\ \A p \in (AllocIn(T) \ {next}) \cup S : tags'.head[p] = T.head[p]
        /\ Size(tags', o) = n /\ Size(tags', m) = k + l
    <3> HIDE DEF S
    <3> QED
      BY <2>8, ShiftedPieces DEF next, n, T
  <2>10. Listed(Unlink(Unlink(sizeFree, o), after), S, T)
    <3>1. o \in FreeIn(T) /\ after \in FreeIn(T) \ {o}
      BY <1>1, <1>4, <2>2, <2>7 DEF T
    <3>2. Listed(Unlink(sizeFree, o), FreeIn(T) \ {o}, T)
      BY <1>0, <3>1, Unlinked
    <3> QED
      BY <3>1, <3>2, Unlinked
  <2> HIDE DEF S, m
  <2>11. Listed(Unlink(Unlink(sizeFree, o), after), S, tags')
    BY <2>9, <2>10, Relisted
  <2>12. Listed(sizeFree', S \cup {m}, tags')
    BY <2>1, <2>9, <2>11, Added
  <2> QED
    BY <2>9, <2>12 DEF BlockOK
<1>9. ASSUME ShiftReplace(o)
      PROVE  /\ BlockOK(tags', sizeFree') /\ AllocIn(tags') = (AllocIn(T) \ {next}) \cup {o}
             /\ \A p \in AllocIn(T) \ {next} : tags'.head[p] = T.head[p]
             /\ Size(tags', o) = n
  <2> DEFINE S == FreeIn(T) \ {o}
  <2>1. /\ after >= Cap \/ MpAlloc(after)
        /\ tags' = Shifted(o, k)
        /\ sizeFree' = [i \in DOMAIN sizeFree |-> IF sizeFree[i] = o THEN m ELSE sizeFree[i]]
    BY <1>5, <1>9 DEF ShiftReplace, Replace, next, after
  <2>2. after \notin FreeIn(T)
    <3>1. CASE after = Cap
      BY <1>4, <1>6, <3>1
    <3>2. CASE after \in In(T) /\ MpAlloc(after)
      <4>1. after \in AllocIn(T)
        BY <1>0, <3>2, StateViews DEF T
      <4> QED
        BY <4>1 DEF AllocIn
    <3> QED
      BY <1>2, <1>4, <2>1, <3>1, <3>2
  <2>3. \A p \in In(T) : p < o \/ p = o \/ p = next \/ p >= after
    BY <1>1, <1>2, <1>3, <1>4
  <2>4. ShiftsTo(o, after, k, S)
    <3>1. o + n + k = after
      BY <1>1, <1>2
    <3>2. \A p \in FreeIn(T) : p < o \/ p >= after => p \in S
      BY <1>1, <1>2, <1>4, <1>6
    <3>3. \A p \in S : p \in FreeIn(T) /\ (p < o \/ p >= after)
      BY <1>1, <1>6, <2>3
    <3>4. \A p \in AllocIn(T) : p < o \/ p = next \/ p >= after
      <4>1. \A p \in AllocIn(T) : p \in In(T) /\ p # o
        BY DEF AllocIn, T
      <4> QED
        BY <2>3, <4>1
    <3>5. next < after
      BY <1>2
    <3> HIDE DEF S
    <3> QED
      BY <1>1, <1>2, <2>1, <2>2, <3>4, <3>5, <3>1, <3>2, <3>3 DEF ShiftsTo, next, n, T
  <2>5. /\ tags' \in Tags /\ Tiled(tags') /\ Spread(tags')
        /\ FreeIn(tags') = S \cup {m} /\ m \in Offsets /\ m \notin S
        /\ AllocIn(tags') = (AllocIn(T) \ {next}) \cup {o}
        /\ \A p \in (AllocIn(T) \ {next}) \cup S : tags'.head[p] = T.head[p]
        /\ Size(tags', o) = n /\ Size(tags', m) = k
    <3> HIDE DEF S
    <3> QED
      BY <2>4, ShiftedPieces DEF next, n, T
  <2>a. o \in FreeIn(T)
    BY DEF T
  <2> HIDE DEF m
  <2>6. Listed(sizeFree', S \cup {m}, tags')
    <3>1. Size(tags', m) = Size(T, o) /\ \A p \in FreeIn(T) \ {o} : tags'.head[p] = T.head[p]
      BY <2>5 DEF k
    <3> QED
      BY <1>0, <2>1, <2>5, <2>a, <3>1, Replaced
  <2> QED
    BY <2>5, <2>6 DEF BlockOK
<1> QED
  BY <1>8, <1>9 DEF T, next, n

-----------------------------------------------------------------------------
(***************************************************************************)
(* The invariant holds at first, and after each step.                      *)
(***************************************************************************)
\* new_mem_block.
LEMMA FreshBlock ==
  ASSUME NEW U, U = MpInit(NoTags, 0, Cap, FALSE)
  PROVE  BlockOK(U, <<0>>) /\ AllocIn(U) = {}
<1>1. Cap \in Nat /\ Good(Cap) /\ 0 \in Offsets /\ Cap \in Offsets /\ Cap >= 2 /\ Offsets = 0..Cap
  BY CapIsGood, MemBlockAssumption DEF Good, MinSize, Offsets
<1>2. NoTags \in Tags
  BY <1>1 DEF NoTags, Tags
<1>3. Writes(NoTags, U, 0, Cap, FreeTag(Cap))
  <2>1. U = MpFreeInit(NoTags, 0, Cap)
    BY DEF MpFreeInit
  <2>2. 0 + Cap = Cap
    BY <1>1
  <2> QED
    BY <1>1, <1>2, <2>1, <2>2, InitWrites
<1>4. FreeTag(Cap) # 0 /\ TagSize(FreeTag(Cap)) = Cap /\ FreeTag(Cap) % 2 = 0
  BY <1>1, TagReads
<1>5. U \in Tags /\ U.head[0] = FreeTag(Cap) /\ U.foot[Cap] = FreeTag(Cap)
  BY <1>1, <1>3 DEF Writes
<1>6. \A p \in Offsets : p # 0 => U.head[p] = 0
  BY <1>1, <1>3 DEF Writes, NoTags
<1>7. In(U) = {0}
  BY <1>1, <1>4, <1>5, <1>6 DEF In
<1>8. Size(U, 0) = Cap /\ IsFree(U, 0)
  BY <1>4, <1>5 DEF Size, IsFree
<1>9. End(U, 0) = Cap
  <2>1. End(U, 0) = 0 + Cap
    BY <1>8 DEF End
  <2>2. 0 + Cap = Cap
    BY <1>1
  <2> QED
    BY <2>1, <2>2
<1>10. FreeIn(U) = {0} /\ AllocIn(U) = {}
  BY <1>7, <1>8 DEF FreeIn, AllocIn
<1>11. Tiled(U)
  <2>1. 0 \in In(U) /\ \A o \in In(U) : o = 0
    BY <1>7
  <2>2. /\ Good(Size(U, 0)) /\ End(U, 0) \in In(U) \cup {Cap} /\ U.foot[End(U, 0)] = U.head[0]
    BY <1>1, <1>5, <1>8, <1>9
  <2>3. ASSUME NEW p \in In(U) PROVE p <= 0
    <3>1. p = 0
      BY <2>1, Zenon
    <3> QED
      BY <3>1
  <2> QED
    BY <2>1, <2>2, <2>3 DEF Tiled
<1>12. Spread(U)
  <2>1. Cap # 0
    BY <1>1
  <2>2. \A o \in FreeIn(U) : End(U, o) = Cap
    BY <1>9, <1>10
  <2>3. Cap \notin FreeIn(U)
    BY <1>10, <2>1
  <2> QED
    BY <2>2, <2>3 DEF Spread
<1>13. Listed(<<0>>, {0}, U)
  <2> DEFINE l == <<0>>
  <2>1. l \in Seq(Offsets) /\ Len(l) = 1 /\ l[1] = 0
    BY <1>1
  <2> HIDE DEF l
  <2>2. \A i \in 1..Len(l) : i = 1
    BY <2>1
  <2>3. \A i, j \in 1..Len(l) : i = j /\ ~(i < j)
    BY <2>1
  <2>4. Listed(l, {0}, U)
    BY <2>1, <2>2, <2>3 DEF Listed
  <2> QED
    BY <2>4 DEF l
<1> QED
  BY <1>5, <1>10, <1>11, <1>12, <1>13 DEF BlockOK

LEMMA InitHolds == Init => BlockInv
<1> SUFFICES ASSUME Init PROVE BlockInv
  OBVIOUS
<1>1. /\ tags = MpInit(NoTags, 0, Cap, FALSE) /\ owner = [o \in Offsets |-> Null] /\ sizeFree = <<0>>
      /\ memLck = Nobody /\ paddr = [v \in Vaddrs |-> Null] /\ need = [v \in Vaddrs |-> 0]
      /\ writer = [v \in Vaddrs |-> Nobody] /\ readers = [v \in Vaddrs |-> {}] /\ handles = {}
      /\ pc = [t \in Threads |-> "idle"] /\ arg = [t \in Threads |-> Null] /\ piece = [t \in Threads |-> 0]
  BY DEF Init
<1>2. BlockOK(tags, sizeFree) /\ AllocIn(tags) = {}
  BY <1>1, FreshBlock
<1>3. TypeOK
  <2>1. tags \in [head : [Offsets -> 0..(Cap + 1)], foot : [Offsets -> 0..(Cap + 1)]] /\ sizeFree \in Seq(Offsets)
    BY <1>2 DEF BlockOK, Tags, Listed
  <2>2. 0 \in Offsets
    BY CapIsGood
  <2> QED
    BY <1>1, <2>1, <2>2 DEF TypeOK
<1>4. Named
  BY <1>1, <1>2 DEF Named
<1>5. OwnedOnce
  BY <1>1 DEF OwnedOnce, Freeing
<1>6. LocksAreOwned
  BY <1>1 DEF LocksAreOwned
<1>7. CallIsTrue
  BY <1>1 DEF CallIsTrue
<1> QED
  BY <1>2, <1>3, <1>4, <1>5, <1>6, <1>7 DEF BlockInv

\* The callers lock and unlock.
LEMMA GetReadHolds ==
  ASSUME BlockInv, NEW t \in Threads, NEW v \in Vaddrs, GetRead(t, v)
  PROVE  BlockInv'
<1>0. TypeOK /\ BlockOK(tags, sizeFree) /\ Named /\ OwnedOnce /\ LocksAreOwned /\ CallIsTrue
  BY DEF BlockInv
<1>1. /\ v \in handles /\ writer[v] = Nobody
      /\ readers' = [readers EXCEPT ![v] = @ \cup {t}]
      /\ UNCHANGED <<tags, owner, sizeFree, memLck, paddr, need, writer, handles, pc, arg, piece>>
  BY DEF GetRead, blockVars, bookVars, callVars
<1>2. readers \in [Vaddrs -> SUBSET Threads]
  BY <1>0 DEF TypeOK
<1>3. \A w \in Vaddrs : w # v => readers'[w] = readers[w]
  BY <1>1, <1>2
<1>4. TypeOK'
  <2>1. readers' \in [Vaddrs -> SUBSET Threads]
    BY <1>1, <1>2
  <2> QED
    BY <1>0, <1>1, <2>1 DEF TypeOK
<1>5. BlockOK(tags', sizeFree') /\ Named' /\ OwnedOnce' /\ CallIsTrue'
  BY <1>0, <1>1 DEF Named, OwnedOnce, CallIsTrue
<1>6. LocksAreOwned'
  BY <1>0, <1>1, <1>3 DEF LocksAreOwned
<1> QED
  BY <1>4, <1>5, <1>6 DEF BlockInv

LEMMA GetWriteHolds ==
  ASSUME BlockInv, NEW t \in Threads, NEW v \in Vaddrs, GetWrite(t, v)
  PROVE  BlockInv'
<1>0. TypeOK /\ BlockOK(tags, sizeFree) /\ Named /\ OwnedOnce /\ LocksAreOwned /\ CallIsTrue
  BY DEF BlockInv
<1>1. /\ v \in handles /\ writer[v] = Nobody /\ readers[v] = {}
      /\ writer' = [writer EXCEPT ![v] = t]
      /\ UNCHANGED <<tags, owner, sizeFree, memLck, paddr, need, readers, handles, pc, arg, piece>>
  BY DEF GetWrite, WriteFree, blockVars, bookVars, callVars
<1>2. writer \in [Vaddrs -> Threads \cup {Nobody}]
  BY <1>0 DEF TypeOK
<1>3. \A w \in Vaddrs : writer'[w] = IF w = v THEN t ELSE writer[w]
  BY <1>1, <1>2
<1>4. TypeOK'
  <2>1. writer' \in [Vaddrs -> Threads \cup {Nobody}]
    BY <1>1, <1>2
  <2> QED
    BY <1>0, <1>1, <2>1 DEF TypeOK
<1>5. BlockOK(tags', sizeFree') /\ Named' /\ OwnedOnce'
  BY <1>0, <1>1 DEF Named, OwnedOnce
<1>6. LocksAreOwned'
  BY <1>0, <1>1, <1>3 DEF LocksAreOwned
<1>7. CallIsTrue'
  <2>1. Nobody \notin Threads
    BY MemBlockAssumption
  <2>2. \A u \in Threads : pc[u] = "move" => arg[u] \in Vaddrs /\ writer[arg[u]] = u
    BY <1>0 DEF CallIsTrue
  <2>3. \A u \in Threads : pc[u] = "move" => writer'[arg[u]] = u
    BY <1>1, <1>3, <2>1, <2>2
  <2> QED
    BY <1>0, <1>1, <2>3 DEF CallIsTrue
<1> QED
  BY <1>4, <1>5, <1>6, <1>7 DEF BlockInv

LEMMA UnlockHolds ==
  ASSUME BlockInv, NEW t \in Threads, NEW v \in Vaddrs, Unlock(t, v)
  PROVE  BlockInv'
<1>0. TypeOK /\ BlockOK(tags, sizeFree) /\ Named /\ OwnedOnce /\ LocksAreOwned /\ CallIsTrue
  BY DEF BlockInv
<1>1. /\ pc[t] = "idle" /\ (writer[v] = t \/ t \in readers[v])
      /\ writer' = [writer EXCEPT ![v] = Nobody]
      /\ readers' = [readers EXCEPT ![v] = @ \ {t}]
      /\ UNCHANGED <<tags, owner, sizeFree, memLck, paddr, need, handles, pc, arg, piece>>
  BY DEF Unlock, Locked, blockVars, bookVars, callVars
<1>2. writer \in [Vaddrs -> Threads \cup {Nobody}] /\ readers \in [Vaddrs -> SUBSET Threads]
  BY <1>0 DEF TypeOK
<1>3. \A w \in Vaddrs : /\ writer'[w] = IF w = v THEN Nobody ELSE writer[w]
                        /\ readers'[w] = IF w = v THEN readers[w] \ {t} ELSE readers[w]
  BY <1>1, <1>2
<1>4. TypeOK'
  <2>1. writer' \in [Vaddrs -> Threads \cup {Nobody}] /\ readers' \in [Vaddrs -> SUBSET Threads]
    BY <1>1, <1>2
  <2> QED
    BY <1>0, <1>1, <2>1 DEF TypeOK
<1>5. BlockOK(tags', sizeFree') /\ Named' /\ OwnedOnce'
  BY <1>0, <1>1 DEF Named, OwnedOnce
<1>6. LocksAreOwned'
  <2>1. ASSUME NEW w \in Vaddrs, writer'[w] # Nobody PROVE readers'[w] = {}
    BY <1>0, <1>3, <2>1 DEF LocksAreOwned
  <2>2. ASSUME NEW w \in Vaddrs \ handles
        PROVE  readers'[w] = {} /\ (writer'[w] # Nobody => pc[writer'[w]] = "move" /\ arg[writer'[w]] = w)
    BY <1>0, <1>3, <2>2 DEF LocksAreOwned
  <2> QED
    BY <1>1, <2>1, <2>2 DEF LocksAreOwned
<1>7. CallIsTrue'
  <2>1. Nobody \notin Threads
    BY MemBlockAssumption
  <2>2. \A u \in Threads : pc[u] = "move" => arg[u] \in Vaddrs /\ writer[arg[u]] = u
    BY <1>0 DEF CallIsTrue
  <2>3. ASSUME NEW u \in Threads, pc[u] = "move" PROVE writer'[arg[u]] = u
    <3>1. arg[u] # v
      <4> SUFFICES ASSUME arg[u] = v PROVE FALSE
        OBVIOUS
      <4>1. writer[v] = u /\ u # t
        BY <1>1, <2>2, <2>3
      <4>2. readers[v] = {}
        BY <1>0, <2>1, <4>1 DEF LocksAreOwned
      <4> QED
        BY <1>1, <4>1, <4>2
    <3> QED
      BY <1>3, <2>2, <2>3, <3>1
  <2> QED
    BY <1>0, <1>1, <2>3 DEF CallIsTrue
<1> QED
  BY <1>4, <1>5, <1>6, <1>7 DEF BlockInv

\* mb_free, up to the piece it frees.
LEMMA Goes ==
  ASSUME TypeOK, NEW t \in Threads, NEW label, NEW v, NEW o, Goto(t, label, v, o)
  PROVE  \A u \in Threads : /\ pc'[u] = IF u = t THEN label ELSE pc[u]
                            /\ arg'[u] = IF u = t THEN v ELSE arg[u]
                            /\ piece'[u] = IF u = t THEN o ELSE piece[u]
<1>1. pc = [u \in Threads |-> pc[u]] /\ arg = [u \in Threads |-> arg[u]] /\ piece = [u \in Threads |-> piece[u]]
  BY DEF TypeOK
<1> QED
  BY <1>1 DEF Goto

Labels == {"idle", "free", "read", "discard", "move"}

LEMMA GoesTyped ==
  ASSUME TypeOK, NEW t \in Threads, NEW label \in Labels, NEW v \in Vaddrs \cup {Null}, NEW o \in Offsets,
         Goto(t, label, v, o)
  PROVE  /\ pc' \in [Threads -> Labels] /\ arg' \in [Threads -> Vaddrs \cup {Null}]
         /\ piece' \in [Threads -> Offsets]
<1>1. /\ pc \in [Threads -> Labels] /\ arg \in [Threads -> Vaddrs \cup {Null}]
      /\ piece \in [Threads -> Offsets]
  BY DEF TypeOK, Labels
<1> QED
  BY <1>1 DEF Goto

LEMMA FreeCallHolds ==
  ASSUME BlockInv, NEW t \in Threads, NEW v \in Vaddrs, FreeCall(t, v)
  PROVE  BlockInv'
<1>0. TypeOK /\ BlockOK(tags, sizeFree) /\ Named /\ OwnedOnce /\ LocksAreOwned /\ CallIsTrue
  BY DEF BlockInv
<1>1. /\ pc[t] = "idle" /\ v \in handles /\ Users(v) = {} /\ handles' = handles \ {v}
      /\ Goto(t, "free", v, 0)
      /\ UNCHANGED <<tags, owner, sizeFree, memLck, paddr, need, writer, readers>>
  BY DEF FreeCall, blockVars, bookVars, lockVars
<1>2. \A u \in Threads : /\ pc'[u] = IF u = t THEN "free" ELSE pc[u]
                         /\ arg'[u] = IF u = t THEN v ELSE arg[u]
                         /\ piece'[u] = IF u = t THEN 0 ELSE piece[u]
  BY <1>0, <1>1, Goes
<1>3. TypeOK'
  <2>1. "free" \in Labels /\ 0 \in Offsets
    BY CapIsGood DEF Labels
  <2>2. /\ pc' \in [Threads -> Labels] /\ arg' \in [Threads -> Vaddrs \cup {Null}]
        /\ piece' \in [Threads -> Offsets]
    BY <1>0, <1>1, <2>1, GoesTyped
  <2> QED
    BY <1>0, <1>1, <2>2 DEF TypeOK, Labels
<1>4. BlockOK(tags', sizeFree') /\ Named'
  BY <1>0, <1>1 DEF Named
<1>5. OwnedOnce'
  <2>1. \A w \in handles' : paddr'[w] # Null
    BY <1>0, <1>1 DEF OwnedOnce
  <2>2. ASSUME NEW w \in Vaddrs, paddr'[w] # Null
        PROVE  w \in handles' \/ \E u \in Threads : pc'[u] \in Freeing /\ arg'[u] = w
    <3>1. CASE w = v
      BY <1>2, <3>1 DEF Freeing
    <3>2. CASE w # v /\ w \in handles
      BY <1>1, <3>2
    <3>3. CASE w \notin handles
      <4>1. PICK u \in Threads : pc[u] \in Freeing /\ arg[u] = w
        BY <1>0, <1>1, <2>2, <3>3 DEF OwnedOnce
      <4>2. u # t
        BY <1>1, <4>1 DEF Freeing
      <4> QED
        BY <1>2, <4>1, <4>2
    <3> QED
      BY <3>1, <3>2, <3>3
  <2>3. ASSUME NEW u \in Threads, pc'[u] \in Freeing
        PROVE  /\ arg'[u] \in Vaddrs /\ arg'[u] \notin handles' /\ paddr'[arg'[u]] # Null
               /\ \A x \in Threads : pc'[x] \in Freeing /\ arg'[x] = arg'[u] => x = u
    <3>1. \A x \in Threads \ {t} : pc'[x] \in Freeing => arg'[x] = arg[x] /\ pc[x] \in Freeing /\ arg[x] \notin handles
      BY <1>0, <1>2 DEF OwnedOnce
    <3>2. CASE u = t
      BY <1>0, <1>1, <1>2, <3>1, <3>2 DEF OwnedOnce
    <3>3. CASE u # t
      <4>1. arg'[u] = arg[u] /\ pc[u] \in Freeing /\ arg[u] \notin handles /\ arg'[t] = v
        BY <1>2, <2>3, <3>1, <3>3
      <4>2. arg[u] \in Vaddrs /\ paddr[arg[u]] # Null /\ \A x \in Threads : pc[x] \in Freeing /\ arg[x] = arg[u] => x = u
        BY <1>0, <4>1 DEF OwnedOnce
      <4> QED
        BY <1>1, <1>2, <3>1, <4>1, <4>2
    <3> QED
      BY <3>2, <3>3
  <2> QED
    BY <2>1, <2>2, <2>3 DEF OwnedOnce
<1>6. LocksAreOwned'
  <2>1. \A w \in Vaddrs : writer'[w] # Nobody => readers'[w] = {}
    BY <1>0, <1>1 DEF LocksAreOwned
  <2>2. ASSUME NEW w \in Vaddrs \ handles'
        PROVE  readers[w] = {} /\ (writer[w] # Nobody => pc[writer[w]] = "move" /\ arg[writer[w]] = w /\ writer[w] \in Threads)
    <3>1. writer[w] # Nobody => writer[w] \in Threads
      BY <1>0 DEF TypeOK
    <3>2. CASE w = v
      <4>1. readers[v] = {} /\ \A u \in Threads : writer[v] = u => pc[u] = "move" /\ arg[u] = v
        BY <1>1 DEF Users
      <4> QED
        BY <3>1, <3>2, <4>1
    <3>3. CASE w # v
      BY <1>0, <1>1, <3>1, <3>3 DEF LocksAreOwned
    <3> QED
      BY <3>2, <3>3
  <2>3. ASSUME NEW w \in Vaddrs \ handles', writer[w] # Nobody
        PROVE  pc'[writer[w]] = "move" /\ arg'[writer[w]] = w
    BY <1>1, <1>2, <2>2, <2>3
  <2> QED
    BY <1>1, <2>1, <2>2, <2>3 DEF LocksAreOwned
<1>7. CallIsTrue'
  <2>1. \A u \in Threads : pc'[u] \in {"read", "discard", "move"} => pc'[u] = pc[u] /\ arg'[u] = arg[u] /\ piece'[u] = piece[u]
    BY <1>2
  <2> QED
    BY <1>0, <1>1, <2>1 DEF CallIsTrue
<1> QED
  BY <1>3, <1>4, <1>5, <1>6, <1>7 DEF BlockInv

LEMMA FreeLockHolds ==
  ASSUME BlockInv, NEW t \in Threads, FreeLock(t)
  PROVE  BlockInv'
<1>0. TypeOK /\ BlockOK(tags, sizeFree) /\ Named /\ OwnedOnce /\ LocksAreOwned /\ CallIsTrue
  BY DEF BlockInv
<1>1. /\ pc[t] = "free" /\ memLck = Nobody /\ memLck' = t
      /\ Goto(t, "read", arg[t], piece[t])
      /\ UNCHANGED <<tags, owner, sizeFree, paddr, need, writer, readers, handles>>
  BY DEF FreeLock, blockVars, bookVars, lockVars
<1>2. \A u \in Threads : /\ pc'[u] = IF u = t THEN "read" ELSE pc[u]
                         /\ arg'[u] = arg[u] /\ piece'[u] = piece[u]
  BY <1>0, <1>1, Goes
<1>3. TypeOK'
  <2>1. "read" \in Labels /\ arg[t] \in Vaddrs \cup {Null} /\ piece[t] \in Offsets
    BY <1>0 DEF TypeOK, Labels
  <2>2. /\ pc' \in [Threads -> Labels] /\ arg' \in [Threads -> Vaddrs \cup {Null}]
        /\ piece' \in [Threads -> Offsets]
    BY <1>0, <1>1, <2>1, GoesTyped
  <2> QED
    BY <1>0, <1>1, <2>2 DEF TypeOK, Labels
<1>4. BlockOK(tags', sizeFree') /\ Named'
  BY <1>0, <1>1 DEF Named
<1>5. \A u \in Threads : (pc'[u] \in Freeing <=> pc[u] \in Freeing) /\ arg'[u] = arg[u]
  BY <1>1, <1>2 DEF Freeing
<1>6. OwnedOnce'
  BY <1>0, <1>1, <1>5 DEF OwnedOnce
<1>7. LocksAreOwned'
  <2>1. \A w \in Vaddrs : writer[w] # Nobody => writer[w] \in Threads
    BY <1>0 DEF TypeOK
  <2>2. \A w \in Vaddrs \ handles : writer[w] # Nobody => pc'[writer[w]] = "move" /\ arg'[writer[w]] = w
    BY <1>0, <1>1, <1>2, <2>1 DEF LocksAreOwned
  <2> QED
    BY <1>0, <1>1, <2>2 DEF LocksAreOwned
<1>8. CallIsTrue'
  <2>1. Nobody \notin Threads
    BY MemBlockAssumption
  <2>2. \A u \in Threads : pc[u] \notin {"read", "discard", "move"}
    BY <1>0, <1>1, <2>1 DEF CallIsTrue
  <2>3. \A u \in Threads : pc'[u] \notin {"discard", "move"} /\ (pc'[u] = "read" => u = t)
    BY <1>2, <2>2
  <2> QED
    BY <1>1, <2>3 DEF CallIsTrue
<1> QED
  BY <1>3, <1>4, <1>6, <1>7, <1>8 DEF BlockInv

LEMMA FreeReadHolds ==
  ASSUME BlockInv, NEW t \in Threads, FreeRead(t)
  PROVE  BlockInv'
<1>0. TypeOK /\ BlockOK(tags, sizeFree) /\ Named /\ OwnedOnce /\ LocksAreOwned /\ CallIsTrue
  BY DEF BlockInv
<1>1. /\ pc[t] = "read"
      /\ Goto(t, "discard", arg[t], paddr[arg[t]])
      /\ UNCHANGED <<tags, owner, sizeFree, memLck, paddr, need, writer, readers, handles>>
  BY DEF FreeRead, blockVars, bookVars, lockVars
<1>2. \A u \in Threads : /\ pc'[u] = IF u = t THEN "discard" ELSE pc[u]
                         /\ arg'[u] = arg[u]
                         /\ piece'[u] = IF u = t THEN paddr[arg[t]] ELSE piece[u]
  BY <1>0, <1>1, Goes
<1>3. TypeOK'
  <2>1. arg[t] \in Vaddrs /\ paddr[arg[t]] # Null
    BY <1>0, <1>1 DEF OwnedOnce, Freeing
  <2>2. "discard" \in Labels /\ arg[t] \in Vaddrs \cup {Null} /\ paddr[arg[t]] \in Offsets
    BY <1>0, <2>1 DEF TypeOK, Labels
  <2>3. /\ pc' \in [Threads -> Labels] /\ arg' \in [Threads -> Vaddrs \cup {Null}]
        /\ piece' \in [Threads -> Offsets]
    BY <1>0, <1>1, <2>2, GoesTyped
  <2> QED
    BY <1>0, <1>1, <2>3 DEF TypeOK, Labels
<1>4. BlockOK(tags', sizeFree') /\ Named'
  BY <1>0, <1>1 DEF Named
<1>5. \A u \in Threads : (pc'[u] \in Freeing <=> pc[u] \in Freeing) /\ arg'[u] = arg[u]
  BY <1>1, <1>2 DEF Freeing
<1>6. OwnedOnce'
  BY <1>0, <1>1, <1>5 DEF OwnedOnce
<1>7. LocksAreOwned'
  <2>1. \A w \in Vaddrs : writer[w] # Nobody => writer[w] \in Threads
    BY <1>0 DEF TypeOK
  <2>2. \A w \in Vaddrs \ handles : writer[w] # Nobody => pc'[writer[w]] = "move" /\ arg'[writer[w]] = w
    BY <1>0, <1>1, <1>2, <2>1 DEF LocksAreOwned
  <2> QED
    BY <1>0, <1>1, <2>2 DEF LocksAreOwned
<1>8. CallIsTrue'
  <2>1. \A u \in Threads : pc'[u] \in {"read", "discard", "move"} => pc[u] \in {"read", "discard", "move"}
    BY <1>1, <1>2
  <2>2. \A u \in Threads : pc'[u] = "discard" => piece'[u] = paddr[arg[u]]
    BY <1>0, <1>2 DEF CallIsTrue
  <2>3. \A u \in Threads : pc'[u] = "move" => pc[u] = "move" /\ piece'[u] = piece[u]
    BY <1>1, <1>2
  <2>4. \A u \in Threads : arg'[u] = arg[u]
    BY <1>2
  <2> QED
    BY <1>0, <1>1, <2>1, <2>2, <2>3, <2>4 DEF CallIsTrue
<1> QED
  BY <1>3, <1>4, <1>6, <1>7, <1>8 DEF BlockInv

\* mb_try_shift, up to the piece it moves.
LEMMA ShiftPickHolds ==
  ASSUME BlockInv, NEW t \in Threads, ShiftPick(t)
  PROVE  BlockInv'
<1>0. TypeOK /\ BlockOK(tags, sizeFree) /\ Named /\ OwnedOnce /\ LocksAreOwned /\ CallIsTrue
  BY DEF BlockInv
<1>T. tags \in Tags /\ Tiled(tags) /\ Listed(sizeFree, FreeIn(tags), tags)
  BY <1>0 DEF BlockOK
<1>1. PICK i \in DOMAIN sizeFree : Shiftable(sizeFree[i]) /\ PickAt(t, sizeFree[i])
  BY DEF ShiftPick
<1> DEFINE o == sizeFree[i]
           v == owner[MpNext(o)]
<1>2. /\ AllocNext(o) /\ writer[v] = Nobody /\ readers[v] = {}
      /\ pc[t] = "idle" /\ memLck = Nobody /\ memLck' = t
      /\ writer' = [writer EXCEPT ![v] = t]
      /\ Goto(t, "move", v, o)
      /\ UNCHANGED <<tags, owner, sizeFree, paddr, need, readers, handles>>
  BY <1>1 DEF Shiftable, PickAt, WriteFree, blockVars, bookVars
<1>3. o \in FreeIn(tags)
  <2>1. sizeFree \in Seq(Offsets)
    BY <1>0 DEF TypeOK
  <2>2. i \in 1..Len(sizeFree)
    BY <2>1
  <2> QED
    BY <1>T, <2>2 DEF Listed
<1>4. MpNext(o) = End(tags, o) /\ End(tags, o) \in AllocIn(tags)
  <2>1. MpNext(o) = End(tags, o)
    BY <1>T, StateViews
  <2>2. End(tags, o) \in In(tags)
    BY <1>2, <1>3, <1>T, <2>1, PieceFacts, CapIsGood DEF AllocNext, FreeIn
  <2> QED
    BY <1>2, <1>T, <2>1, <2>2, StateViews DEF AllocNext
<1>5. v \in Vaddrs /\ paddr[v] = End(tags, o)
  BY <1>0, <1>4 DEF Named
<1>6. o \in Offsets
  BY <1>3 DEF FreeIn, In
<1> HIDE DEF o, v
<1>7. \A u \in Threads : /\ pc'[u] = IF u = t THEN "move" ELSE pc[u]
                         /\ arg'[u] = IF u = t THEN v ELSE arg[u]
                         /\ piece'[u] = IF u = t THEN o ELSE piece[u]
  BY <1>0, <1>2, Goes
<1>8. writer \in [Vaddrs -> Threads \cup {Nobody}]
  BY <1>0 DEF TypeOK
<1>9. \A w \in Vaddrs : writer'[w] = IF w = v THEN t ELSE writer[w]
  BY <1>2, <1>8
<1>10. TypeOK'
  <2>1. "move" \in Labels /\ v \in Vaddrs \cup {Null}
    BY <1>5 DEF Labels
  <2>2. /\ pc' \in [Threads -> Labels] /\ arg' \in [Threads -> Vaddrs \cup {Null}]
        /\ piece' \in [Threads -> Offsets]
    BY <1>0, <1>2, <1>6, <2>1, GoesTyped
  <2>3. writer' \in [Vaddrs -> Threads \cup {Nobody}]
    BY <1>2, <1>8
  <2> QED
    BY <1>0, <1>2, <2>2, <2>3 DEF TypeOK, Labels
<1>11. BlockOK(tags', sizeFree') /\ Named'
  BY <1>0, <1>2 DEF Named
<1>12. \A u \in Threads : /\ pc'[u] \in Freeing <=> pc[u] \in Freeing
                          /\ pc[u] \in Freeing => arg'[u] = arg[u]
  BY <1>2, <1>7 DEF Freeing
<1>13. OwnedOnce'
  <2>1. \A w \in Vaddrs : paddr'[w] # Null => w \in handles' \/ \E u \in Threads : pc'[u] \in Freeing /\ arg'[u] = w
    BY <1>0, <1>2, <1>12 DEF OwnedOnce
  <2>2. \A w \in handles' : paddr'[w] # Null
    BY <1>0, <1>2 DEF OwnedOnce
  <2>3. ASSUME NEW u \in Threads, pc'[u] \in Freeing
        PROVE  /\ arg'[u] \in Vaddrs /\ arg'[u] \notin handles' /\ paddr'[arg'[u]] # Null
               /\ \A x \in Threads : pc'[x] \in Freeing /\ arg'[x] = arg'[u] => x = u
    BY <1>0, <1>2, <1>12, <2>3 DEF OwnedOnce
  <2> QED
    BY <2>1, <2>2, <2>3 DEF OwnedOnce
<1>14. LocksAreOwned'
  <2>1. \A w \in Vaddrs : writer'[w] # Nobody => readers'[w] = {}
    BY <1>0, <1>2, <1>9 DEF LocksAreOwned
  <2>2. \A w \in Vaddrs : writer[w] # Nobody => writer[w] \in Threads
    BY <1>8
  <2>3. ASSUME NEW w \in Vaddrs \ handles, writer'[w] # Nobody
        PROVE  pc'[writer'[w]] = "move" /\ arg'[writer'[w]] = w
    <3>1. CASE w = v
      BY <1>7, <1>9, <3>1
    <3>2. CASE w # v
      BY <1>0, <1>2, <1>7, <1>9, <2>2, <2>3, <3>2 DEF LocksAreOwned
    <3> QED
      BY <3>1, <3>2
  <2>4. \A w \in Vaddrs \ handles : readers'[w] = {}
    BY <1>0, <1>2 DEF LocksAreOwned
  <2> QED
    BY <1>2, <2>1, <2>3, <2>4 DEF LocksAreOwned
<1>15. CallIsTrue'
  <2>1. Nobody \notin Threads
    BY MemBlockAssumption
  <2>2. \A u \in Threads : pc[u] \notin {"read", "discard", "move"}
    BY <1>0, <1>2, <2>1 DEF CallIsTrue
  <2>3. \A u \in Threads : pc'[u] \in {"read", "discard", "move"} => u = t
    BY <1>7, <2>2
  <2>4. pc'[t] = "move" /\ arg'[t] = v /\ piece'[t] = o /\ writer'[v] = t
    BY <1>5, <1>7, <1>9
  <2> QED
    BY <1>2, <1>3, <1>5, <2>3, <2>4 DEF CallIsTrue
<1> QED
  BY <1>10, <1>11, <1>13, <1>14, <1>15 DEF BlockInv

\* The rest of mb_free.
LEMMA FreeDiscardHolds ==
  ASSUME BlockInv, NEW t \in Threads, FreeDiscard(t)
  PROVE  BlockInv'
<1> DEFINE v == arg[t]
           o == piece[t]
<1>0. TypeOK /\ BlockOK(tags, sizeFree) /\ Named /\ OwnedOnce /\ LocksAreOwned /\ CallIsTrue
  BY DEF BlockInv
<1>1. /\ pc[t] = "discard" /\ memLck' = Nobody
      /\ paddr' = [paddr EXCEPT ![v] = Null] /\ need' = [need EXCEPT ![v] = 0]
      /\ owner' = [owner EXCEPT ![o] = Null]
      /\ Coalesce(o) /\ Goto(t, "idle", Null, 0)
      /\ UNCHANGED <<writer, readers, handles>>
  BY DEF FreeDiscard, lockVars
<1>2. /\ v \in Vaddrs /\ v \notin handles /\ paddr[v] # Null /\ o = paddr[v] /\ memLck = t
      /\ \A u \in Threads : pc[u] \in Freeing /\ arg[u] = v => u = t
  BY <1>0, <1>1 DEF OwnedOnce, CallIsTrue, Freeing
<1>3. o \in AllocIn(tags) /\ owner[o] = v
  BY <1>0, <1>2 DEF Named
<1>4. /\ BlockOK(tags', sizeFree') /\ AllocIn(tags') = AllocIn(tags) \ {o}
      /\ \A p \in AllocIn(tags) \ {o} : tags'.head[p] = tags.head[p]
  BY <1>0, <1>1, <1>3, CoalesceKeeps
<1> HIDE DEF v, o
<1>5. \A u \in Threads : /\ pc'[u] = IF u = t THEN "idle" ELSE pc[u]
                         /\ arg'[u] = IF u = t THEN Null ELSE arg[u]
                         /\ piece'[u] = IF u = t THEN 0 ELSE piece[u]
  BY <1>0, <1>1, Goes
<1>6. /\ paddr \in [Vaddrs -> Offsets \cup {Null}] /\ need \in [Vaddrs -> Requests \cup {0}]
      /\ owner \in [Offsets -> Vaddrs \cup {Null}]
  BY <1>0 DEF TypeOK
<1>7. \A w \in Vaddrs : /\ paddr'[w] = IF w = v THEN Null ELSE paddr[w]
                        /\ need'[w] = IF w = v THEN 0 ELSE need[w]
  BY <1>1, <1>6
<1>8. \A p \in Offsets : owner'[p] = IF p = o THEN Null ELSE owner[p]
  BY <1>1, <1>6
<1>9. TypeOK'
  <2>1. "idle" \in Labels /\ 0 \in Offsets /\ Null \in Vaddrs \cup {Null}
    BY CapIsGood DEF Labels
  <2>2. /\ pc' \in [Threads -> Labels] /\ arg' \in [Threads -> Vaddrs \cup {Null}]
        /\ piece' \in [Threads -> Offsets]
    BY <1>0, <1>1, <2>1, GoesTyped
  <2>3. /\ paddr' \in [Vaddrs -> Offsets \cup {Null}] /\ need' \in [Vaddrs -> Requests \cup {0}]
        /\ owner' \in [Offsets -> Vaddrs \cup {Null}]
    BY <1>1, <1>6
  <2>4. /\ tags' \in [head : [Offsets -> 0..(Cap + 1)], foot : [Offsets -> 0..(Cap + 1)]]
        /\ sizeFree' \in Seq(Offsets)
    BY <1>4 DEF BlockOK, Tags, Listed
  <2> QED
    BY <1>0, <1>1, <2>2, <2>3, <2>4 DEF TypeOK, Labels
<1>10. Named'
  <2>1. ASSUME NEW p \in AllocIn(tags')
        PROVE  owner'[p] \in Vaddrs /\ paddr'[owner'[p]] = p
    <3>1. p \in AllocIn(tags) /\ p # o /\ p \in Offsets
      BY <1>4 DEF AllocIn, In
    <3>2. owner[p] \in Vaddrs /\ paddr[owner[p]] = p
      BY <1>0, <3>1 DEF Named
    <3> QED
      BY <1>2, <1>7, <1>8, <3>1, <3>2
  <2>2. ASSUME NEW w \in Vaddrs, paddr'[w] # Null
        PROVE  /\ paddr'[w] \in AllocIn(tags') /\ owner'[paddr'[w]] = w
               /\ need'[w] \in Nat \ {0} /\ need'[w] + Pad <= Size(tags', paddr'[w])
    <3>1. w # v /\ paddr'[w] = paddr[w] /\ need'[w] = need[w] /\ paddr[w] # Null
      BY <1>7, <2>2
    <3>2. /\ paddr[w] \in AllocIn(tags) /\ owner[paddr[w]] = w
          /\ need[w] \in Nat \ {0} /\ need[w] + Pad <= Size(tags, paddr[w])
      BY <1>0, <3>1 DEF Named
    <3>3. paddr[w] # o /\ paddr[w] \in Offsets
      BY <1>3, <3>1, <3>2 DEF AllocIn, In
    <3>4. Size(tags', paddr[w]) = Size(tags, paddr[w])
      BY <1>4, <3>2, <3>3 DEF Size
    <3> QED
      BY <1>4, <1>8, <3>1, <3>2, <3>3, <3>4
  <2> QED
    BY <2>1, <2>2 DEF Named
<1>11. \A u \in Threads : pc'[u] \in Freeing => u # t /\ pc[u] \in Freeing /\ arg'[u] = arg[u]
  BY <1>5 DEF Freeing
<1>12. OwnedOnce'
  <2>1. \A w \in handles' : paddr'[w] # Null
    BY <1>0, <1>1, <1>2, <1>7 DEF OwnedOnce, TypeOK
  <2>2. ASSUME NEW w \in Vaddrs, paddr'[w] # Null
        PROVE  w \in handles' \/ \E u \in Threads : pc'[u] \in Freeing /\ arg'[u] = w
    <3>1. w # v /\ paddr[w] # Null
      BY <1>7, <2>2
    <3>2. w \in handles \/ \E u \in Threads : pc[u] \in Freeing /\ arg[u] = w
      BY <1>0, <3>1 DEF OwnedOnce
    <3>3. \A u \in Threads : arg[u] = w => u # t
      BY <3>1 DEF v
    <3> QED
      BY <1>1, <1>5, <3>2, <3>3
  <2>3. ASSUME NEW u \in Threads, pc'[u] \in Freeing
        PROVE  /\ arg'[u] \in Vaddrs /\ arg'[u] \notin handles' /\ paddr'[arg'[u]] # Null
               /\ \A x \in Threads : pc'[x] \in Freeing /\ arg'[x] = arg'[u] => x = u
    <3>1. u # t /\ pc[u] \in Freeing /\ arg'[u] = arg[u]
      BY <1>11, <2>3
    <3>2. /\ arg[u] \in Vaddrs /\ arg[u] \notin handles /\ paddr[arg[u]] # Null
          /\ \A x \in Threads : pc[x] \in Freeing /\ arg[x] = arg[u] => x = u
      BY <1>0, <3>1 DEF OwnedOnce
    <3>3. arg[u] # v
      BY <1>2, <3>1
    <3> QED
      BY <1>1, <1>7, <1>11, <3>1, <3>2, <3>3
  <2> QED
    BY <2>1, <2>2, <2>3 DEF OwnedOnce
<1>13. LocksAreOwned'
  <2>1. \A w \in Vaddrs : writer[w] # Nobody => writer[w] \in Threads
    BY <1>0 DEF TypeOK
  <2>2. \A w \in Vaddrs \ handles : writer[w] # Nobody => pc'[writer[w]] = "move" /\ arg'[writer[w]] = w
    BY <1>0, <1>1, <1>5, <2>1 DEF LocksAreOwned
  <2> QED
    BY <1>0, <1>1, <2>2 DEF LocksAreOwned
<1>14. CallIsTrue'
  <2>1. \A u \in Threads : pc'[u] \notin {"read", "discard", "move"}
    <3>1. \A u \in Threads : pc[u] \in {"read", "discard", "move"} => u = t
      BY <1>0, <1>2 DEF CallIsTrue
    <3> QED
      BY <1>5, <3>1
  <2> QED
    BY <2>1 DEF CallIsTrue
<1> QED
  BY <1>4, <1>9, <1>10, <1>12, <1>13, <1>14 DEF BlockInv

\* The rest of mb_try_shift.
LEMMA ShiftMoveHolds ==
  ASSUME BlockInv, NEW t \in Threads, ShiftMove(t)
  PROVE  BlockInv'
<1> DEFINE v == arg[t]
           o == piece[t]
           next == End(tags, o)
<1>0. TypeOK /\ BlockOK(tags, sizeFree) /\ Named /\ OwnedOnce /\ LocksAreOwned /\ CallIsTrue
  BY DEF BlockInv
<1>a. /\ pc[t] = "move" /\ memLck' = Nobody
      /\ paddr' = [paddr EXCEPT ![v] = o]
      /\ writer' = [writer EXCEPT ![v] = Nobody]
      /\ owner' = [p \in Offsets |-> IF p = o THEN v ELSE IF p = MpNext(o) THEN Null ELSE owner[p]]
      /\ ShiftJoin(o) \/ ShiftReplace(o)
      /\ Goto(t, "idle", Null, 0)
      /\ UNCHANGED <<need, readers, handles>>
  BY DEF ShiftMove, Moved, ReleaseArg, MoveOwner
<1>2. v \in Vaddrs /\ writer[v] = t /\ o \in FreeIn(tags) /\ paddr[v] = next /\ memLck = t
  BY <1>0, <1>a DEF CallIsTrue
<1>b. MpNext(o) = next
  <2>1. tags \in Tags
    BY <1>0 DEF BlockOK
  <2> QED
    BY <2>1, StateViews
<1>c. next \in Nat /\ next # Null
  <2>1. tags \in Tags /\ Tiled(tags) /\ o \in In(tags)
    BY <1>0, <1>2 DEF BlockOK, FreeIn
  <2>2. next \in Nat
    BY <2>1, PieceFacts
  <2> QED
    BY <2>2, MemBlockAssumption
<1>3. next \in AllocIn(tags) /\ owner[next] = v /\ need[v] \in Nat \ {0} /\ need[v] + Pad <= Size(tags, next)
  BY <1>0, <1>2, <1>c DEF Named
<1>4. /\ BlockOK(tags', sizeFree') /\ AllocIn(tags') = (AllocIn(tags) \ {next}) \cup {o}
      /\ \A p \in AllocIn(tags) \ {next} : tags'.head[p] = tags.head[p]
      /\ Size(tags', o) = Size(tags, next)
  BY <1>0, <1>a, <1>b, <1>2, <1>3, ShiftKeeps
<1>1. owner' = [p \in Offsets |-> IF p = o THEN v ELSE IF p = next THEN Null ELSE owner[p]]
  BY <1>a, <1>b
<1>o. o \in Offsets /\ o \notin AllocIn(tags)
  BY <1>2 DEF FreeIn, AllocIn, In
<1> HIDE DEF v, o, next
<1>5. \A u \in Threads : /\ pc'[u] = IF u = t THEN "idle" ELSE pc[u]
                         /\ arg'[u] = IF u = t THEN Null ELSE arg[u]
                         /\ piece'[u] = IF u = t THEN 0 ELSE piece[u]
  BY <1>0, <1>a, Goes
<1>6. /\ paddr \in [Vaddrs -> Offsets \cup {Null}] /\ writer \in [Vaddrs -> Threads \cup {Nobody}]
      /\ owner \in [Offsets -> Vaddrs \cup {Null}]
  BY <1>0 DEF TypeOK
<1>7. \A w \in Vaddrs : /\ paddr'[w] = IF w = v THEN o ELSE paddr[w]
                        /\ writer'[w] = IF w = v THEN Nobody ELSE writer[w]
                        /\ need'[w] = need[w]
  BY <1>a, <1>6
<1>8. \A p \in Offsets : owner'[p] = IF p = o THEN v ELSE IF p = next THEN Null ELSE owner[p]
  BY <1>1
<1>n. o # Null
  BY <1>o, CapIsGood, MemBlockAssumption DEF Offsets
<1>9. TypeOK'
  <2>1. "idle" \in Labels /\ 0 \in Offsets /\ Null \in Vaddrs \cup {Null}
    BY CapIsGood DEF Labels
  <2>2. /\ pc' \in [Threads -> Labels] /\ arg' \in [Threads -> Vaddrs \cup {Null}]
        /\ piece' \in [Threads -> Offsets]
    BY <1>0, <1>a, <2>1, GoesTyped
  <2>3. paddr' \in [Vaddrs -> Offsets \cup {Null}] /\ writer' \in [Vaddrs -> Threads \cup {Nobody}]
    BY <1>a, <1>6, <1>o
  <2>4. owner' \in [Offsets -> Vaddrs \cup {Null}]
    BY <1>1, <1>2, <1>6
  <2>5. /\ tags' \in [head : [Offsets -> 0..(Cap + 1)], foot : [Offsets -> 0..(Cap + 1)]]
        /\ sizeFree' \in Seq(Offsets)
    BY <1>4 DEF BlockOK, Tags, Listed
  <2> QED
    BY <1>0, <1>a, <2>2, <2>3, <2>4, <2>5 DEF TypeOK, Labels
<1>10. Named'
  <2>1. ASSUME NEW p \in AllocIn(tags')
        PROVE  owner'[p] \in Vaddrs /\ paddr'[owner'[p]] = p
    <3>1. CASE p = o
      BY <1>2, <1>7, <1>8, <1>o, <3>1
    <3>2. CASE p # o
      <4>1. p \in AllocIn(tags) /\ p # next /\ p \in Offsets
        BY <1>4, <3>2 DEF AllocIn, In
      <4>2. owner[p] \in Vaddrs /\ paddr[owner[p]] = p
        BY <1>0, <4>1 DEF Named
      <4> QED
        BY <1>2, <1>7, <1>8, <3>2, <4>1, <4>2
    <3> QED
      BY <3>1, <3>2
  <2>2. ASSUME NEW w \in Vaddrs, paddr'[w] # Null
        PROVE  /\ paddr'[w] \in AllocIn(tags') /\ owner'[paddr'[w]] = w
               /\ need'[w] \in Nat \ {0} /\ need'[w] + Pad <= Size(tags', paddr'[w])
    <3>1. CASE w = v
      <4>1. paddr'[w] = o /\ need'[w] = need[v] /\ owner'[o] = v
        BY <1>7, <1>8, <1>o, <3>1
      <4>2. o \in AllocIn(tags') /\ Size(tags', o) = Size(tags, next)
        BY <1>4
      <4> QED
        BY <1>3, <3>1, <4>1, <4>2
    <3>2. CASE w # v
      <4>1. paddr'[w] = paddr[w] /\ need'[w] = need[w] /\ paddr[w] # Null
        BY <1>7, <2>2, <3>2
      <4>2. /\ paddr[w] \in AllocIn(tags) /\ owner[paddr[w]] = w
            /\ need[w] \in Nat \ {0} /\ need[w] + Pad <= Size(tags, paddr[w])
        BY <1>0, <4>1 DEF Named
      <4>3. paddr[w] # next /\ paddr[w] # o /\ paddr[w] \in Offsets
        BY <1>3, <1>o, <3>2, <4>2 DEF AllocIn, In
      <4>4. Size(tags', paddr[w]) = Size(tags, paddr[w])
        BY <1>4, <4>2, <4>3 DEF Size
      <4> QED
        BY <1>4, <1>8, <4>1, <4>2, <4>3, <4>4
    <3> QED
      BY <3>1, <3>2
  <2> QED
    BY <2>1, <2>2 DEF Named
<1>11. \A u \in Threads : /\ pc'[u] \in Freeing <=> pc[u] \in Freeing
                          /\ pc[u] \in Freeing => arg'[u] = arg[u]
  BY <1>a, <1>5 DEF Freeing
<1>12. \A w \in Vaddrs : paddr'[w] # Null <=> paddr[w] # Null
  BY <1>2, <1>7, <1>c, <1>n DEF next
<1>13. OwnedOnce'
  <2>1. \A w \in handles' : paddr'[w] # Null
    BY <1>0, <1>a, <1>12 DEF OwnedOnce, TypeOK
  <2>2. \A w \in Vaddrs : paddr'[w] # Null => w \in handles' \/ \E u \in Threads : pc'[u] \in Freeing /\ arg'[u] = w
    BY <1>0, <1>a, <1>11, <1>12 DEF OwnedOnce
  <2>3. ASSUME NEW u \in Threads, pc'[u] \in Freeing
        PROVE  /\ arg'[u] \in Vaddrs /\ arg'[u] \notin handles' /\ paddr'[arg'[u]] # Null
               /\ \A x \in Threads : pc'[x] \in Freeing /\ arg'[x] = arg'[u] => x = u
    BY <1>0, <1>a, <1>11, <1>12, <2>3 DEF OwnedOnce
  <2> QED
    BY <2>1, <2>2, <2>3 DEF OwnedOnce
<1>14. LocksAreOwned'
  <2>1. \A w \in Vaddrs : writer[w] # Nobody => writer[w] \in Threads
    BY <1>6
  <2>2. \A w \in Vaddrs : writer'[w] # Nobody => readers'[w] = {}
    BY <1>0, <1>a, <1>7 DEF LocksAreOwned
  <2>3. ASSUME NEW w \in Vaddrs \ handles, writer'[w] # Nobody
        PROVE  pc'[writer'[w]] = "move" /\ arg'[writer'[w]] = w
    <3>1. w # v /\ writer'[w] = writer[w] /\ writer[w] \in Threads
      BY <1>7, <2>1, <2>3
    <3>2. pc[writer[w]] = "move" /\ arg[writer[w]] = w
      BY <1>0, <2>3, <3>1 DEF LocksAreOwned
    <3>3. writer[w] # t
      BY <3>1, <3>2 DEF v
    <3> QED
      BY <1>5, <3>1, <3>2, <3>3
  <2>4. \A w \in Vaddrs \ handles : readers'[w] = {}
    BY <1>0, <1>a DEF LocksAreOwned
  <2> QED
    BY <1>a, <2>2, <2>3, <2>4 DEF LocksAreOwned
<1>15. CallIsTrue'
  <2>1. \A u \in Threads : pc'[u] \notin {"read", "discard", "move"}
    <3>1. \A u \in Threads : pc[u] \in {"read", "discard", "move"} => u = t
      BY <1>0, <1>2 DEF CallIsTrue
    <3> QED
      BY <1>5, <3>1
  <2> QED
    BY <2>1 DEF CallIsTrue
<1> QED
  BY <1>4, <1>9, <1>10, <1>13, <1>14, <1>15 DEF BlockInv

\* mb_malloc_p.
LEMMA MallocHolds ==
  ASSUME BlockInv, NEW t \in Threads, NEW n \in Requests, NEW hold \in BOOLEAN, NEW v \in Vaddrs,
         Malloc(t, n, hold, v)
  PROVE  BlockInv'
<1> DEFINE big == Head(sizeFree)
<1>0. TypeOK /\ BlockOK(tags, sizeFree) /\ Named /\ OwnedOnce /\ LocksAreOwned /\ CallIsTrue
  BY DEF BlockInv
<1>1. /\ pc[t] = "idle" /\ memLck = Nobody /\ n # 0 /\ sizeFree # <<>> /\ paddr[v] = Null
      /\ BigEnough(n) /\ Take(t, n, hold, v, MinSize)
  BY DEF Malloc, MallocCall
<1>2. n \in Nat \ {0}
  BY <1>1, MemBlockAssumption
<1>3. /\ big \in FreeIn(tags) /\ BlockOK(tags', sizeFree')
      /\ AllocIn(tags') = AllocIn(tags) \cup {big}
      /\ \A p \in AllocIn(tags) : tags'.head[p] = tags.head[p]
      /\ Size(tags', big) >= n + Pad
  BY <1>0, <1>1, <1>2, TakeKeeps
<1>4. /\ owner' = [owner EXCEPT ![big] = v] /\ paddr' = [paddr EXCEPT ![v] = big]
      /\ need' = [need EXCEPT ![v] = n]
      /\ writer' = [writer EXCEPT ![v] = IF hold THEN t ELSE Nobody]
      /\ handles' = handles \cup {v}
      /\ UNCHANGED <<memLck, readers, pc, arg, piece>>
  BY <1>1 DEF Take, callVars
<1> HIDE DEF big
<1>5. big \in Offsets /\ big \notin AllocIn(tags) /\ big # Null
  <2>1. big \in Offsets /\ big \notin AllocIn(tags)
    BY <1>3 DEF FreeIn, AllocIn, In
  <2> QED
    BY <2>1, CapIsGood, MemBlockAssumption DEF Offsets
<1>6. /\ paddr \in [Vaddrs -> Offsets \cup {Null}] /\ writer \in [Vaddrs -> Threads \cup {Nobody}]
      /\ owner \in [Offsets -> Vaddrs \cup {Null}] /\ need \in [Vaddrs -> Requests \cup {0}]
  BY <1>0 DEF TypeOK
<1>7. \A w \in Vaddrs : /\ paddr'[w] = IF w = v THEN big ELSE paddr[w]
                        /\ need'[w] = IF w = v THEN n ELSE need[w]
                        /\ w # v => writer'[w] = writer[w]
  BY <1>4, <1>6
<1>8. \A p \in Offsets : owner'[p] = IF p = big THEN v ELSE owner[p]
  BY <1>4, <1>6
<1>9. TypeOK'
  <2>1. paddr' \in [Vaddrs -> Offsets \cup {Null}] /\ need' \in [Vaddrs -> Requests \cup {0}]
    BY <1>4, <1>5, <1>6
  <2>2. owner' \in [Offsets -> Vaddrs \cup {Null}]
    BY <1>4, <1>5, <1>6
  <2>3. writer' \in [Vaddrs -> Threads \cup {Nobody}]
    <3>1. (IF hold THEN t ELSE Nobody) \in Threads \cup {Nobody}
      OBVIOUS
    <3> QED
      BY <1>4, <1>6, <3>1
  <2>4. /\ tags' \in [head : [Offsets -> 0..(Cap + 1)], foot : [Offsets -> 0..(Cap + 1)]]
        /\ sizeFree' \in Seq(Offsets)
    BY <1>3 DEF BlockOK, Tags, Listed
  <2> QED
    BY <1>0, <1>4, <2>1, <2>2, <2>3, <2>4 DEF TypeOK
<1>10. Named'
  <2>1. ASSUME NEW p \in AllocIn(tags')
        PROVE  owner'[p] \in Vaddrs /\ paddr'[owner'[p]] = p
    <3>1. CASE p = big
      BY <1>5, <1>7, <1>8, <3>1
    <3>2. CASE p # big
      <4>1. p \in AllocIn(tags) /\ p \in Offsets
        BY <1>3, <3>2 DEF AllocIn, In
      <4>2. owner[p] \in Vaddrs /\ paddr[owner[p]] = p
        BY <1>0, <4>1 DEF Named
      <4>3. owner[p] # v
        BY <1>1, <4>1, <4>2, CapIsGood, MemBlockAssumption DEF Offsets
      <4> QED
        BY <1>7, <1>8, <3>2, <4>1, <4>2, <4>3
    <3> QED
      BY <3>1, <3>2
  <2>2. ASSUME NEW w \in Vaddrs, paddr'[w] # Null
        PROVE  /\ paddr'[w] \in AllocIn(tags') /\ owner'[paddr'[w]] = w
               /\ need'[w] \in Nat \ {0} /\ need'[w] + Pad <= Size(tags', paddr'[w])
    <3>1. CASE w = v
      <4>1. paddr'[w] = big /\ need'[w] = n /\ owner'[big] = v /\ big \in AllocIn(tags')
        BY <1>3, <1>5, <1>7, <1>8, <3>1
      <4>2. n + Pad <= Size(tags', big)
        <5> DEFINE s == Size(tags', big)
        <5>1. s \in Nat /\ s >= n + Pad
          <6>1. tags'.head[big] \in 0..(Cap + 1)
            BY <1>3, <1>5 DEF BlockOK, Tags
          <6> QED
            BY <1>3, <6>1, TagIs DEF Size
        <5> HIDE DEF s
        <5>2. n + Pad <= s
          BY <1>2, <5>1, MemBlockAssumption
        <5> QED
          BY <5>2 DEF s
      <4> QED
        BY <1>2, <3>1, <4>1, <4>2
    <3>2. CASE w # v
      <4>1. paddr'[w] = paddr[w] /\ need'[w] = need[w] /\ paddr[w] # Null
        BY <1>7, <2>2, <3>2
      <4>2. /\ paddr[w] \in AllocIn(tags) /\ owner[paddr[w]] = w
            /\ need[w] \in Nat \ {0} /\ need[w] + Pad <= Size(tags, paddr[w])
        BY <1>0, <4>1 DEF Named
      <4>3. paddr[w] # big /\ paddr[w] \in Offsets
        BY <1>5, <4>2 DEF AllocIn, In
      <4>4. Size(tags', paddr[w]) = Size(tags, paddr[w])
        BY <1>3, <4>2 DEF Size
      <4> QED
        BY <1>3, <1>8, <4>1, <4>2, <4>3, <4>4
    <3> QED
      BY <3>1, <3>2
  <2> QED
    BY <2>1, <2>2 DEF Named
<1>11. OwnedOnce'
  <2>1. \A w \in handles' : paddr'[w] # Null
    <3>1. handles \subseteq Vaddrs
      BY <1>0 DEF TypeOK
    <3> QED
      BY <1>0, <1>4, <1>5, <1>7, <3>1 DEF OwnedOnce
  <2>2. ASSUME NEW w \in Vaddrs, paddr'[w] # Null
        PROVE  w \in handles' \/ \E u \in Threads : pc'[u] \in Freeing /\ arg'[u] = w
    BY <1>0, <1>4, <1>7, <2>2 DEF OwnedOnce
  <2>3. ASSUME NEW u \in Threads, pc'[u] \in Freeing
        PROVE  /\ arg'[u] \in Vaddrs /\ arg'[u] \notin handles' /\ paddr'[arg'[u]] # Null
               /\ \A x \in Threads : pc'[x] \in Freeing /\ arg'[x] = arg'[u] => x = u
    <3>1. /\ arg[u] \in Vaddrs /\ arg[u] \notin handles /\ paddr[arg[u]] # Null
          /\ \A x \in Threads : pc[x] \in Freeing /\ arg[x] = arg[u] => x = u
      BY <1>0, <1>4, <2>3 DEF OwnedOnce
    <3>2. arg[u] # v
      BY <1>1, <3>1
    <3> QED
      BY <1>4, <1>7, <3>1, <3>2
  <2> QED
    BY <2>1, <2>2, <2>3 DEF OwnedOnce
<1>12. v \notin handles /\ readers[v] = {}
  BY <1>0, <1>1 DEF OwnedOnce, LocksAreOwned
<1>13. LocksAreOwned'
  BY <1>0, <1>4, <1>7, <1>12 DEF LocksAreOwned
<1>14. CallIsTrue'
  <2>1. \A u \in Threads : pc[u] \notin {"read", "discard", "move"}
    <3>1. Nobody \notin Threads
      BY MemBlockAssumption
    <3> QED
      BY <1>0, <1>1, <3>1 DEF CallIsTrue
  <2> QED
    BY <1>4, <2>1 DEF CallIsTrue
<1> QED
  BY <1>3, <1>9, <1>10, <1>11, <1>13, <1>14 DEF BlockInv

\* delete_mem_block and new_mem_block.
LEMMA RenewHolds ==
  ASSUME BlockInv, Renew
  PROVE  BlockInv'
<1>0. TypeOK /\ BlockOK(tags, sizeFree) /\ Named /\ OwnedOnce /\ LocksAreOwned /\ CallIsTrue
  BY DEF BlockInv
<1>1. /\ \A t \in Threads : pc[t] = "idle"
      /\ \A v \in Vaddrs : writer[v] = Nobody /\ readers[v] = {}
      /\ paddr' = [v \in Vaddrs |-> IF v \in {owner[o] : o \in AllocPieces} THEN Null ELSE paddr[v]]
      /\ need' = [v \in Vaddrs |-> IF paddr'[v] = Null THEN 0 ELSE need[v]]
      /\ handles' = {} /\ tags' = MpInit(NoTags, 0, Cap, FALSE)
      /\ owner' = [o \in Offsets |-> Null] /\ sizeFree' = <<0>>
      /\ UNCHANGED <<memLck, writer, readers, pc, arg, piece>>
  BY DEF Renew, WriteFree, lockVars, callVars
<1>2. BlockOK(tags', sizeFree') /\ AllocIn(tags') = {}
  BY <1>1, FreshBlock
<1>3. \A v \in Vaddrs : paddr'[v] = Null
  <2>1. AllocPieces = AllocIn(tags)
    BY <1>0, StateViews DEF BlockOK
  <2> SUFFICES ASSUME NEW v \in Vaddrs, paddr[v] # Null
               PROVE  v \in {owner[o] : o \in AllocPieces}
    BY <1>1
  <2>2. paddr[v] \in AllocPieces /\ owner[paddr[v]] = v
    BY <1>0, <2>1 DEF Named
  <2> QED
    BY <2>2
<1>4. TypeOK'
  <2>1. \A v \in Vaddrs : need'[v] = 0
    BY <1>1, <1>3
  <2>2. paddr' \in [Vaddrs -> Offsets \cup {Null}] /\ need' \in [Vaddrs -> Requests \cup {0}]
    BY <1>1, <1>3, <2>1
  <2>3. /\ tags' \in [head : [Offsets -> 0..(Cap + 1)], foot : [Offsets -> 0..(Cap + 1)]]
        /\ sizeFree' \in Seq(Offsets)
    BY <1>2 DEF BlockOK, Tags, Listed
  <2>4. owner' \in [Offsets -> Vaddrs \cup {Null}] /\ handles' \subseteq Vaddrs
    BY <1>1
  <2> QED
    BY <1>0, <1>1, <2>2, <2>3, <2>4 DEF TypeOK
<1>5. Named'
  BY <1>2, <1>3 DEF Named
<1>6. OwnedOnce'
  BY <1>1, <1>3 DEF OwnedOnce, Freeing
<1>7. LocksAreOwned'
  BY <1>1 DEF LocksAreOwned
<1>8. CallIsTrue'
  BY <1>1 DEF CallIsTrue
<1> QED
  BY <1>2, <1>4, <1>5, <1>6, <1>7, <1>8 DEF BlockInv

LEMMA NothingHolds ==
  ASSUME BlockInv, UNCHANGED vars
  PROVE  BlockInv'
<1>1. UNCHANGED <<tags, owner, sizeFree, memLck, paddr, need, writer, readers, handles, pc, arg, piece>>
  BY DEF vars, blockVars, bookVars, lockVars, callVars
<1>0. TypeOK /\ BlockOK(tags, sizeFree) /\ Named /\ OwnedOnce /\ LocksAreOwned /\ CallIsTrue
  BY DEF BlockInv
<1>2. TypeOK'
  BY <1>0, <1>1 DEF TypeOK
<1>3. BlockOK(tags', sizeFree') /\ Named' /\ OwnedOnce'
  BY <1>0, <1>1 DEF Named, OwnedOnce
<1>4. LocksAreOwned' /\ CallIsTrue'
  BY <1>0, <1>1 DEF LocksAreOwned, CallIsTrue
<1> QED
  BY <1>2, <1>3, <1>4 DEF BlockInv

LEMMA StepHolds == BlockInv /\ [Next]_vars => BlockInv'
<1> SUFFICES ASSUME BlockInv, [Next]_vars PROVE BlockInv'
  OBVIOUS
<1>1. ASSUME NEW t \in Threads, NEW v \in Vaddrs, NEW n \in Requests, NEW hold \in BOOLEAN, Malloc(t, n, hold, v)
      PROVE  BlockInv'
  BY <1>1, MallocHolds
<1>2. ASSUME NEW t \in Threads, NEW v \in Vaddrs, FreeCall(t, v) \/ GetRead(t, v) \/ GetWrite(t, v) \/ Unlock(t, v)
      PROVE  BlockInv'
  BY <1>2, FreeCallHolds, GetReadHolds, GetWriteHolds, UnlockHolds
<1>3. ASSUME NEW t \in Threads, FreeLock(t) \/ FreeRead(t) \/ FreeDiscard(t) \/ ShiftPick(t) \/ ShiftMove(t)
      PROVE  BlockInv'
  BY <1>3, FreeLockHolds, FreeReadHolds, FreeDiscardHolds, ShiftPickHolds, ShiftMoveHolds
<1>4. CASE Renew
  BY <1>4, RenewHolds
<1>5. CASE UNCHANGED vars
  BY <1>5, NothingHolds
<1> QED
  BY <1>1, <1>2, <1>3, <1>4, <1>5 DEF Next

\* The invariant that everything below rests on.
THEOREM BlockHolds == Spec => []BlockInv
BY InitHolds, StepHolds, PTL DEF Spec

-----------------------------------------------------------------------------
(***************************************************************************)
(* What the invariant says of the properties of MemBlock.                  *)
(***************************************************************************)
LEMMA InvShows == BlockInv => PiecesTile /\ AddressesAgree /\ FreeNeverWaits
<1> SUFFICES ASSUME BlockInv PROVE PiecesTile /\ AddressesAgree /\ FreeNeverWaits
  OBVIOUS
<1>0. TypeOK /\ BlockOK(tags, sizeFree) /\ Named /\ OwnedOnce /\ LocksAreOwned /\ CallIsTrue
  BY DEF BlockInv
<1>1. tags \in Tags /\ Tiled(tags) /\ Spread(tags)
  BY <1>0 DEF BlockOK
<1>2. /\ Pieces = In(tags) /\ FreePieces = FreeIn(tags) /\ AllocPieces = AllocIn(tags)
      /\ \A o : MpSize(o) = Size(tags, o) /\ MpNext(o) = End(tags, o)
  BY <1>1, StateViews
<1>3. PiecesTile
  <2>1. 0 \in Pieces
    BY <1>1, <1>2 DEF Tiled
  <2>2. ASSUME NEW o \in Pieces
        PROVE  /\ MpSize(o) >= MinSize /\ MpSize(o) % 2 = 0
               /\ MpNext(o) \in Pieces \cup {Cap}
               /\ \A p \in Pieces : p <= o \/ MpNext(o) <= p
               /\ tags.foot[MpNext(o)] = tags.head[o]
    BY <1>1, <1>2 DEF Tiled, Good
  <2>3. \A o \in FreePieces : MpNext(o) \notin FreePieces
    BY <1>1, <1>2 DEF Spread
  <2> QED
    BY <1>0, <2>1, <2>2, <2>3 DEF PiecesTile
<1>4. \A v \in Vaddrs : paddr[v] # Null =>
         v \in handles \/ \E t \in Threads : pc[t] # "idle" /\ arg[t] = v
  BY <1>0 DEF OwnedOnce, Freeing
<1>5. ASSUME NEW t \in Threads, pc[t] # "idle"
      PROVE  arg[t] \in Vaddrs /\ paddr[arg[t]] # Null
  <2>1. CASE pc[t] \in Freeing
    BY <1>0, <2>1 DEF OwnedOnce
  <2>2. CASE pc[t] = "move"
    <3>1. arg[t] \in Vaddrs /\ piece[t] \in FreeIn(tags) /\ paddr[arg[t]] = End(tags, piece[t])
      BY <1>0, <2>2 DEF CallIsTrue
    <3>2. End(tags, piece[t]) \in 0..Cap
      BY <1>1, <3>1, PieceFacts DEF FreeIn
    <3> QED
      BY <3>1, <3>2, CapIsGood, MemBlockAssumption
  <2> QED
    BY <1>0, <1>5, <2>1, <2>2 DEF TypeOK, Freeing
<1>6. AddressesAgree
  <2>1. \A o \in AllocPieces : owner[o] \in Vaddrs /\ paddr[owner[o]] = o
    BY <1>0, <1>2 DEF Named
  <2>2. \A v \in Vaddrs : paddr[v] # Null => paddr[v] \in AllocPieces /\ owner[paddr[v]] = v
    BY <1>0, <1>2 DEF Named
  <2>3. \A v \in handles : paddr[v] # Null
    BY <1>0 DEF OwnedOnce
  <2> QED
    BY <1>4, <1>5, <2>1, <2>2, <2>3 DEF AddressesAgree
<1>7. FreeNeverWaits
  <2> SUFFICES ASSUME NEW t \in Threads, pc[t] \in {"read", "discard"}
               PROVE  memLck = t /\ writer[arg[t]] = Nobody /\ readers[arg[t]] = {}
    BY DEF FreeNeverWaits, WriteFree
  <2>1. memLck = t
    BY <1>0 DEF CallIsTrue
  <2>2. arg[t] \in Vaddrs \ handles
    BY <1>0 DEF OwnedOnce, Freeing
  <2>3. readers[arg[t]] = {}
    BY <1>0, <2>2 DEF LocksAreOwned
  <2>4. ASSUME writer[arg[t]] # Nobody PROVE FALSE
    <3> DEFINE w == writer[arg[t]]
    <3>1. w \in Threads /\ pc[w] = "move"
      BY <1>0, <2>2, <2>4 DEF LocksAreOwned, TypeOK
    <3> HIDE DEF w
    <3>2. memLck = w
      BY <1>0, <3>1 DEF CallIsTrue
    <3> QED
      BY <2>1, <3>1, <3>2
  <2> QED
    BY <2>1, <2>3, <2>4
<1> QED
  BY <1>3, <1>6, <1>7

LEMMA ListShows == BlockInv => FreeListExact
<1> SUFFICES ASSUME BlockInv PROVE FreeListExact
  OBVIOUS
<1>0. tags \in Tags /\ Listed(sizeFree, FreeIn(tags), tags)
  BY DEF BlockInv, BlockOK
<1>1. FreePieces = FreeIn(tags) /\ \A o : MpSize(o) = Size(tags, o)
  BY <1>0, StateViews
<1> DEFINE S == FreeIn(tags)
           n == Len(sizeFree)
<1>2. /\ sizeFree \in Seq(Offsets)
      /\ \A i \in 1..n : sizeFree[i] \in S
      /\ \A o \in S : \E i \in 1..n : sizeFree[i] = o
      /\ \A i, j \in 1..n : i # j => sizeFree[i] # sizeFree[j]
      /\ \A i, j \in 1..n : i < j => Size(tags, sizeFree[i]) >= Size(tags, sizeFree[j])
  BY <1>0 DEF Listed
<1>3. n \in Nat /\ DOMAIN sizeFree = 1..n
  BY <1>2
<1> HIDE DEF S, n
<1>4. ToSet(sizeFree) = S
  BY <1>2, <1>3 DEF ToSet
<1>5. n = Cardinality(S)
  <2> DEFINE f == [i \in 1..n |-> sizeFree[i]]
  <2>1. f \in [1..n -> S] /\ \A i \in 1..n : f[i] = sizeFree[i]
    BY <1>2
  <2> HIDE DEF f
  <2>2. \A i, j \in 1..n : f[i] = f[j] => i = j
    BY <1>2, <2>1
  <2>3. \A o \in S : \E i \in 1..n : f[i] = o
    BY <1>2, <2>1
  <2>4. f \in Bijection(1..n, S)
    BY <2>1, <2>2, <2>3 DEF Bijection, Injection, Surjection, IsInjective
  <2>5. ExistsBijection(1..n, S)
    BY <2>4 DEF ExistsBijection
  <2> QED
    BY <1>3, <2>5, FS_CountingElements
<1>6. \A i \in 1..(n - 1) : Size(tags, sizeFree[i]) >= Size(tags, sizeFree[i + 1])
  <2> SUFFICES ASSUME NEW i \in 1..(n - 1)
               PROVE  Size(tags, sizeFree[i]) >= Size(tags, sizeFree[i + 1])
    OBVIOUS
  <2>1. i \in 1..n /\ i + 1 \in 1..n /\ i < i + 1
    BY <1>3
  <2> QED
    BY <1>2, <2>1
<1> QED
  BY <1>1, <1>4, <1>5, <1>6 DEF FreeListExact, S, n

\* mb_malloc_p, mb_free and mb_try_shift leave a tiling of the block, with no two
\* free pieces side by side (mb.c:130-138, mb.c:554).
THEOREM PiecesAlwaysTile == Spec => []PiecesTile
<1>1. BlockInv => PiecesTile
  BY InvShows
<1> QED
  BY <1>1, BlockHolds, PTL

\* What mb_malloc_p looks at is the largest free piece there is (mb.h:21-22).
THEOREM FreeListIsExact == Spec => []FreeListExact
BY ListShows, BlockHolds, PTL

\* A piece and its address go together through every call.
THEOREM AddressesAlwaysAgree == Spec => []AddressesAgree
<1>1. BlockInv => AddressesAgree
  BY InvShows
<1> QED
  BY <1>1, BlockHolds, PTL

\* A free that has mem_lck has nobody to wait for (mb.c:408-410).
THEOREM FreesNeverWait == Spec => []FreeNeverWaits
<1>1. BlockInv => FreeNeverWaits
  BY InvShows
<1> QED
  BY <1>1, BlockHolds, PTL

\* A shift that has taken a lock moves the piece down (mb.h:89-91).
THEOREM ShiftsPack == Spec => ShiftPacks
<1>1. ASSUME BlockInv, [Next]_vars, NEW t \in Threads, pc[t] = "move", pc'[t] = "idle"
      PROVE  paddr'[arg[t]] < paddr[arg[t]]
  <2>0. TypeOK /\ BlockOK(tags, sizeFree) /\ CallIsTrue
    BY <1>1 DEF BlockInv
  <2>1. /\ piece[t] \in FreeIn(tags) /\ arg[t] \in Vaddrs /\ paddr[arg[t]] = End(tags, piece[t]) /\ memLck = t
    BY <1>1, <2>0 DEF CallIsTrue
  <2>2. piece[t] < End(tags, piece[t])
    BY <2>0, <2>1, PieceFacts DEF BlockOK, FreeIn
  <2>3. ShiftMove(t)
    <3>1. ASSUME NEW u \in Threads, NEW label, NEW v, NEW o, Goto(u, label, v, o), u # t
          PROVE  FALSE
      BY <1>1, <2>0, <3>1, Goes
    <3>2. pc' # pc
      BY <1>1
    <3>3. ASSUME NEW u \in Threads, NEW v \in Vaddrs,
                 \/ \E n \in Requests, hold \in BOOLEAN : Malloc(u, n, hold, v)
                 \/ GetRead(u, v) \/ GetWrite(u, v) \/ Unlock(u, v) \/ Renew \/ UNCHANGED vars
          PROVE  FALSE
      BY <3>2, <3>3 DEF Malloc, Take, GetRead, GetWrite, Unlock, Renew, vars, callVars
    <3>4. ASSUME NEW u \in Threads,
                 \/ \E v \in Vaddrs : FreeCall(u, v)
                 \/ FreeLock(u) \/ FreeRead(u) \/ FreeDiscard(u) \/ ShiftPick(u)
          PROVE  FALSE
      <4>1. u # t
        BY <1>1, <3>4 DEF FreeCall, FreeLock, FreeRead, FreeDiscard, ShiftPick, PickAt
      <4> QED
        BY <3>1, <3>4, <4>1 DEF FreeCall, FreeLock, FreeRead, FreeDiscard, ShiftPick, PickAt
    <3>5. ASSUME NEW u \in Threads, ShiftMove(u) PROVE u = t
      BY <3>1, <3>5 DEF ShiftMove, Moved
    <3>6. ~Renew /\ ~UNCHANGED vars
      BY <2>1, <3>3
    <3>7. Next
      BY <1>1, <3>6
    <3>8. \E u \in Threads : ShiftMove(u)
      BY <3>3, <3>4, <3>6, <3>7 DEF Next
    <3> QED
      BY <3>5, <3>8
  <2>4. paddr' = [paddr EXCEPT ![arg[t]] = piece[t]]
    BY <2>3 DEF ShiftMove, Moved
  <2>5. paddr'[arg[t]] = piece[t]
    BY <2>0, <2>1, <2>4 DEF TypeOK
  <2> QED
    BY <2>1, <2>2, <2>5
<1>2. BlockInv /\ [Next]_vars => [\A t \in Threads : pc[t] = "move" /\ pc'[t] = "idle" => paddr'[arg[t]] < paddr[arg[t]]]_vars
  BY <1>1
<1> QED
  BY <1>2, BlockHolds, PTL DEF Spec, ShiftPacks

-----------------------------------------------------------------------------
(***************************************************************************)
(* The block as a heap, step by step.                                      *)
(***************************************************************************)
RangeOf(T, pa, ne, v) == [at |-> pa[v], size |-> Size(T, pa[v]) - Pad, need |-> ne[v]]

Kept(pa) == {v \in Vaddrs : pa[v] # Null}

PlaceOf(T, pa, ne) == [v \in Kept(pa) |-> RangeOf(T, pa, ne, v)]

Place == PlaceOf(tags, paddr, need)

UsersOf(wr, rd, at, ar, v) == rd[v] \cup {t \in Threads : wr[v] = t /\ ~(at[t] = "move" /\ ar[t] = v)}

Uses == [v \in Vaddrs |-> UsersOf(writer, readers, pc, arg, v)]

\* Each address has a piece of its own, with the bytes asked for.
Placed(T, pa, ne) ==
  /\ \A v \in Kept(pa) : pa[v] \in AllocIn(T) /\ ne[v] \in Nat \ {0} /\ ne[v] + Pad <= Size(T, pa[v])
  /\ \A v, w \in Kept(pa) : pa[v] = pa[w] => v = w

RangeFits(T, pa, ne, v) ==
  /\ RangeOf(T, pa, ne, v) \in H!Ranges
  /\ pa[v] + (Size(T, pa[v]) - Pad) <= Cap
  /\ \A w \in Kept(pa) \ {v} : H!Apart(RangeOf(T, pa, ne, v), RangeOf(T, pa, ne, w))

LEMMA RangesFit ==
  ASSUME NEW T \in Tags, Tiled(T), NEW pa, NEW ne, Placed(T, pa, ne), NEW v \in Kept(pa)
  PROVE  RangeFits(T, pa, ne, v)
<1>1. ASSUME NEW w \in Kept(pa)
      PROVE  /\ pa[w] \in In(T) /\ pa[w] \in Nat /\ Size(T, pa[w]) \in Nat /\ Size(T, pa[w]) >= Pad + 2
             /\ pa[w] + Size(T, pa[w]) <= Cap
             /\ ne[w] \in Nat \ {0} /\ ne[w] + Pad <= Size(T, pa[w])
             /\ \A p \in In(T) : p <= pa[w] \/ pa[w] + Size(T, pa[w]) <= p
  <2>1. pa[w] \in In(T) /\ ne[w] \in Nat \ {0} /\ ne[w] + Pad <= Size(T, pa[w])
    BY DEF Placed, AllocIn
  <2>2. /\ pa[w] \in Nat /\ Size(T, pa[w]) \in Nat /\ Good(Size(T, pa[w]))
        /\ End(T, pa[w]) = pa[w] + Size(T, pa[w]) /\ End(T, pa[w]) \in 0..Cap
        /\ \A p \in In(T) : p <= pa[w] \/ End(T, pa[w]) <= p
    BY <2>1, PieceFacts
  <2>3. pa[w] + Size(T, pa[w]) <= Cap
    BY <2>2, CapIsGood
  <2>4. Size(T, pa[w]) >= Pad + 2
    BY <2>2 DEF Good, MinSize
  <2> QED
    BY <2>1, <2>2, <2>3, <2>4
<1>2. Pad \in Nat /\ Cap \in Nat
  BY CapIsGood, MemBlockAssumption
<1> DEFINE r == RangeOf(T, pa, ne, v)
           a == pa[v]
           s == Size(T, pa[v])
           k == ne[v]
<1>3. /\ a \in Nat /\ s \in Nat /\ s >= Pad + 2 /\ a + s <= Cap /\ k \in Nat \ {0} /\ k + Pad <= s /\ a \in In(T)
      /\ \A p \in In(T) : p <= a \/ a + s <= p
  BY <1>1
<1>4. r = [at |-> a, size |-> s - Pad, need |-> k]
  BY DEF RangeOf
<1>5. ASSUME NEW w \in Kept(pa) \ {v}
      PROVE  H!Apart(r, RangeOf(T, pa, ne, w))
  <2> DEFINE b == pa[w]
             z == Size(T, pa[w])
  <2>1. b \in Nat /\ z \in Nat /\ z >= Pad + 2 /\ b \in In(T) /\ \A p \in In(T) : p <= b \/ b + z <= p
    BY <1>1
  <2>2. a # b
    BY <1>5 DEF Placed
  <2>3. RangeOf(T, pa, ne, w).at = b /\ RangeOf(T, pa, ne, w).size = z - Pad
    BY DEF RangeOf
  <2>4. r.at = a /\ r.size = s - Pad
    BY <1>4
  <2> HIDE DEF a, b, s, z, r
  <2>5. a + (s - Pad) <= b \/ b + (z - Pad) <= a
    BY <1>2, <1>3, <2>1, <2>2
  <2> QED
    BY <2>3, <2>4, <2>5 DEF H!Apart
<1>6. r \in H!Ranges /\ a + (s - Pad) <= Cap
  <2> HIDE DEF a, s, k, r
  <2>1. a \in 0..Cap /\ s - Pad \in 1..Cap /\ k \in 1..Cap /\ k <= s - Pad /\ a + (s - Pad) <= Cap
    BY <1>2, <1>3
  <2> QED
    BY <1>4, <2>1 DEF H!Ranges
<1> QED
  BY <1>5, <1>6 DEF RangeFits

LEMMA PlaceIs ==
  ASSUME NEW T, NEW pa, NEW ne
  PROVE  /\ DOMAIN PlaceOf(T, pa, ne) = Kept(pa)
         /\ \A v \in Kept(pa) : PlaceOf(T, pa, ne)[v] = RangeOf(T, pa, ne, v)
BY DEF PlaceOf

\* Heap of the block as it is seen.
LEMMA HeapSteps ==
  /\ H!Init <=> Place = [v \in {} |-> 0] /\ Uses = [v \in Vaddrs |-> {}]
  /\ \A v \in Vaddrs : \A us \in SUBSET Threads :
       H!Alloc(v, us) <=>
         /\ v \notin DOMAIN Place
         /\ DOMAIN Place' = DOMAIN Place \cup {v}
         /\ \A w \in DOMAIN Place : Place'[w] = Place[w]
         /\ Place'[v] \in H!Ranges /\ Place'[v].at + Place'[v].size <= Cap
         /\ \A w \in DOMAIN Place : H!Apart(Place'[v], Place[w])
         /\ Uses' = [Uses EXCEPT ![v] = us]
  /\ \A v \in Vaddrs : \A t \in Threads :
       /\ H!Lock(t, v) <=> v \in DOMAIN Place /\ Uses' = [Uses EXCEPT ![v] = @ \cup {t}] /\ Place' = Place
       /\ H!Unlock(t, v) <=> Uses' = [Uses EXCEPT ![v] = @ \ {t}] /\ Place' = Place
  /\ \A v \in Vaddrs :
       H!Move(v) <=>
         /\ v \in DOMAIN Place
         /\ Uses[v] = {}
         /\ DOMAIN Place' = DOMAIN Place
         /\ \A w \in DOMAIN Place \ {v} : Place'[w] = Place[w]
         /\ Place'[v] = [Place[v] EXCEPT !.at = Place'[v].at]
         /\ Place'[v].at < Place[v].at
         /\ Place'[v] \in H!Ranges /\ Place'[v].at + Place'[v].size <= Cap
         /\ \A w \in DOMAIN Place \ {v} : H!Apart(Place'[v], Place[w])
         /\ Uses' = Uses
  /\ \A vs : H!Free(vs) <=> /\ \A v \in vs : Uses[v] = {}
                            /\ Place' = [v \in DOMAIN Place \ vs |-> Place[v]]
                            /\ Uses' = Uses
BY DEF Place, PlaceOf, RangeOf, Kept, Size, Uses, UsersOf, MpSize, Users, H!Init, H!Alloc, H!Lock, H!Unlock, H!Move, H!Free, H!Fits

LEMMA InvPlaces == BlockInv => tags \in Tags /\ Tiled(tags) /\ Placed(tags, paddr, need)
BY DEF BlockInv, BlockOK, Named, Placed, Kept

LEMMA WillPlace == BlockInv' => tags' \in Tags /\ Tiled(tags') /\ Placed(tags', paddr', need')
BY DEF BlockInv, BlockOK, Named, Placed, Kept

LEMMA UsesAre ==
  /\ \A v \in Vaddrs : Uses[v] = UsersOf(writer, readers, pc, arg, v)
  /\ \A v \in Vaddrs : Uses'[v] = UsersOf(writer', readers', pc', arg', v)
BY DEF Uses

\* The threads that have v locked, said one by one.
LEMMA UsersSame ==
  ASSUME \A v \in Vaddrs : readers'[v] = readers[v],
         \A v \in Vaddrs : \A t \in Threads :
           writer'[v] = t /\ ~(pc'[t] = "move" /\ arg'[t] = v) <=> writer[v] = t /\ ~(pc[t] = "move" /\ arg[t] = v)
  PROVE  Uses' = Uses
<1>1. ASSUME NEW v \in Vaddrs
      PROVE  UsersOf(writer', readers', pc', arg', v) = UsersOf(writer, readers, pc, arg, v)
  BY DEF UsersOf
<1> QED
  BY <1>1 DEF Uses

LEMMA PlaceSame ==
  ASSUME UNCHANGED <<tags, paddr, need>>
  PROVE  Place' = Place
BY DEF Place

\* The users of v change, and nobody else's.
LEMMA UsersOfOne ==
  ASSUME NEW v \in Vaddrs, NEW us, UsersOf(writer', readers', pc', arg', v) = us,
         \A w \in Vaddrs \ {v} : readers'[w] = readers[w] /\ writer'[w] = writer[w],
         UNCHANGED <<pc, arg>>
  PROVE  Uses' = [Uses EXCEPT ![v] = us]
<1>1. ASSUME NEW w \in Vaddrs \ {v}
      PROVE  UsersOf(writer', readers', pc', arg', w) = UsersOf(writer, readers, pc, arg, w)
  BY DEF UsersOf
<1>2. Uses' = [w \in Vaddrs |-> IF w = v THEN us ELSE UsersOf(writer, readers, pc, arg, w)]
  BY <1>1 DEF Uses
<1>3. [Uses EXCEPT ![v] = us] = [w \in Vaddrs |-> IF w = v THEN us ELSE UsersOf(writer, readers, pc, arg, w)]
  BY DEF Uses
<1> QED
  BY <1>2, <1>3

LEMMA AllocIsNext ==
  ASSUME NEW v \in Vaddrs, NEW t \in Threads, H!Alloc(v, {}) \/ H!Alloc(v, {t})
  PROVE  H!Next
BY DEF H!Next

LEMMA LockIsNext ==
  ASSUME NEW v \in Vaddrs, NEW t \in Threads, H!Lock(t, v) \/ H!Unlock(t, v)
  PROVE  H!Next
BY DEF H!Next

LEMMA MoveIsNext ==
  ASSUME NEW v \in Vaddrs,
         v \in DOMAIN Place,
         Uses[v] = {},
         DOMAIN Place' = DOMAIN Place,
         \A w \in DOMAIN Place \ {v} : Place'[w] = Place[w],
         Place'[v] = [Place[v] EXCEPT !.at = Place'[v].at],
         Place'[v].at < Place[v].at,
         Place'[v] \in H!Ranges, Place'[v].at + Place'[v].size <= Cap,
         \A w \in DOMAIN Place \ {v} : H!Apart(Place'[v], Place[w]),
         Uses' = Uses
  PROVE  H!Next
<1>1. H!Move(v)
  BY HeapSteps
<1> QED
  BY <1>1 DEF H!Next

LEMMA FreeIsNext ==
  ASSUME NEW v \in Vaddrs, Uses[v] = {}, Place' = [w \in DOMAIN Place \ {v} |-> Place[w]], Uses' = Uses
  PROVE  H!Next
<1> DEFINE vs == {v}
<1>1. (\A w \in vs : Uses[w] = {}) /\ Place' = [w \in DOMAIN Place \ vs |-> Place[w]]
  OBVIOUS
<1> HIDE DEF vs
<1>2. H!Free(vs)
  BY <1>1, HeapSteps
<1> QED
  BY <1>2 DEF H!Next, vs

\* mb_malloc_p gives out a range.
LEMMA MallocAllocs ==
  ASSUME BlockInv, BlockInv', NEW t \in Threads, NEW n \in Requests, NEW hold \in BOOLEAN, NEW v \in Vaddrs,
         Malloc(t, n, hold, v)
  PROVE  H!Next
<1> DEFINE big == Head(sizeFree)
           us == IF hold THEN {t} ELSE {}
<1>0. TypeOK /\ BlockOK(tags, sizeFree) /\ Named /\ OwnedOnce /\ LocksAreOwned
  BY DEF BlockInv
<1>1. /\ pc[t] = "idle" /\ n # 0 /\ sizeFree # <<>> /\ paddr[v] = Null
      /\ BigEnough(n) /\ Take(t, n, hold, v, MinSize) /\ n \in Nat
  BY MemBlockAssumption DEF Malloc, MallocCall
<1>2. \A p \in AllocIn(tags) : tags'.head[p] = tags.head[p]
  BY <1>0, <1>1, TakeKeeps
<1>3. /\ paddr' = [paddr EXCEPT ![v] = big] /\ need' = [need EXCEPT ![v] = n]
      /\ writer' = [writer EXCEPT ![v] = IF hold THEN t ELSE Nobody]
      /\ UNCHANGED <<readers, pc, arg>> /\ v \in handles'
  BY <1>1 DEF Take, callVars
<1> HIDE DEF big
<1>4. \A w \in Vaddrs : /\ paddr'[w] = IF w = v THEN big ELSE paddr[w]
                        /\ need'[w] = IF w = v THEN n ELSE need[w]
                        /\ writer'[w] = IF w = v THEN (IF hold THEN t ELSE Nobody) ELSE writer[w]
  BY <1>0, <1>3 DEF TypeOK
<1>5. paddr'[v] # Null
  BY <1>3 DEF BlockInv, OwnedOnce
<1>6. Kept(paddr') = Kept(paddr) \cup {v} /\ v \notin Kept(paddr)
  BY <1>1, <1>4, <1>5 DEF Kept
<1>7. \A w \in Kept(paddr) : RangeOf(tags', paddr', need', w) = RangeOf(tags, paddr, need, w)
  <2> SUFFICES ASSUME NEW w \in Kept(paddr)
               PROVE  RangeOf(tags', paddr', need', w) = RangeOf(tags, paddr, need, w)
    OBVIOUS
  <2>1. w \in Vaddrs /\ w # v /\ paddr[w] # Null
    BY <1>1 DEF Kept
  <2>2. paddr'[w] = paddr[w] /\ need'[w] = need[w]
    BY <1>4, <2>1
  <2>3. paddr[w] \in AllocIn(tags)
    BY <1>0, <2>1 DEF Named
  <2>4. Size(tags', paddr[w]) = Size(tags, paddr[w])
    BY <1>2, <2>3 DEF Size
  <2> QED
    BY <2>2, <2>4 DEF RangeOf
<1>8. RangeFits(tags', paddr', need', v)
  BY <1>6, WillPlace, RangesFit
<1>9. UsersOf(writer', readers', pc', arg', v) = us
  <2>1. readers'[v] = {}
    BY <1>0, <1>1, <1>3 DEF OwnedOnce, LocksAreOwned
  <2>2. writer'[v] = IF hold THEN t ELSE Nobody
    BY <1>4
  <2>3. pc'[t] = "idle"
    BY <1>1, <1>3
  <2>4. {u \in Threads : writer'[v] = u /\ ~(pc'[u] = "move" /\ arg'[u] = v)} = us
    BY <2>2, <2>3, MemBlockAssumption
  <2> QED
    BY <2>1, <2>4 DEF UsersOf
<1>10. Uses' = [Uses EXCEPT ![v] = us]
  BY <1>3, <1>4, <1>9, UsersOfOne, ZenonT(30)
<1>11. H!Alloc(v, us)
  <2>1. DOMAIN Place = Kept(paddr) /\ DOMAIN Place' = Kept(paddr') /\ v \in Kept(paddr')
    BY <1>6, PlaceIs DEF Place
  <2>2. /\ \A w \in Kept(paddr) : Place[w] = RangeOf(tags, paddr, need, w)
        /\ \A w \in Kept(paddr') : Place'[w] = RangeOf(tags', paddr', need', w)
    BY PlaceIs DEF Place
  <2>3. \A w \in Kept(paddr) : Place'[w] = Place[w]
    BY <1>6, <1>7, <2>2
  <2>4. Place'[v] \in H!Ranges /\ Place'[v].at + Place'[v].size <= Cap
    <3>1. Place'[v].at = paddr'[v] /\ Place'[v].size = Size(tags', paddr'[v]) - Pad
      BY <2>1, <2>2 DEF RangeOf
    <3> QED
      BY <1>8, <2>1, <2>2, <3>1 DEF RangeFits
  <2>5. \A w \in Kept(paddr) : H!Apart(Place'[v], Place[w])
    <3> SUFFICES ASSUME NEW w \in Kept(paddr) PROVE H!Apart(Place'[v], Place[w])
      OBVIOUS
    <3>1. w \in Kept(paddr') \ {v}
      BY <1>6
    <3>2. H!Apart(RangeOf(tags', paddr', need', v), RangeOf(tags', paddr', need', w))
      BY <1>8, <3>1 DEF RangeFits
    <3> QED
      BY <1>7, <2>1, <2>2, <3>2
  <2>6. us \in SUBSET Threads
    OBVIOUS
  <2> HIDE DEF us
  <2> QED
    BY <1>6, <1>10, <2>1, <2>3, <2>4, <2>5, <2>6, HeapSteps
<1> QED
  BY <1>11, AllocIsNext

\* mb_free gives one back.
LEMMA FreeFrees ==
  ASSUME BlockInv, BlockInv', NEW t \in Threads, FreeDiscard(t)
  PROVE  H!Next
<1> DEFINE v == arg[t]
           o == piece[t]
<1>0. TypeOK /\ BlockOK(tags, sizeFree) /\ Named /\ OwnedOnce /\ CallIsTrue
  BY DEF BlockInv
<1>1. /\ pc[t] = "discard" /\ writer[v] = Nobody /\ readers[v] = {}
      /\ paddr' = [paddr EXCEPT ![v] = Null] /\ need' = [need EXCEPT ![v] = 0]
      /\ Coalesce(o) /\ Goto(t, "idle", Null, 0)
      /\ UNCHANGED <<writer, readers>>
  BY DEF FreeDiscard, WriteFree, lockVars
<1>2. v \in Vaddrs /\ o = paddr[v] /\ paddr[v] # Null
  BY <1>0, <1>1 DEF OwnedOnce, CallIsTrue, Freeing
<1>3. o \in AllocIn(tags) /\ owner[o] = v
  BY <1>0, <1>2 DEF Named
<1>4. \A p \in AllocIn(tags) \ {o} : tags'.head[p] = tags.head[p]
  BY <1>0, <1>1, <1>3, CoalesceKeeps
<1>5. \A u \in Threads : /\ pc'[u] = IF u = t THEN "idle" ELSE pc[u]
                         /\ arg'[u] = IF u = t THEN Null ELSE arg[u]
  BY <1>0, <1>1, Goes
<1>6. Uses' = Uses
  <2>1. \A w \in Vaddrs : \A u \in Threads : (pc'[u] = "move" /\ arg'[u] = w) <=> (pc[u] = "move" /\ arg[u] = w)
    BY <1>1, <1>5
  <2> QED
    BY <1>1, <2>1, UsersSame
<1> HIDE DEF v, o
<1>7. \A w \in Vaddrs : /\ paddr'[w] = IF w = v THEN Null ELSE paddr[w]
                        /\ need'[w] = IF w = v THEN 0 ELSE need[w]
  BY <1>0, <1>1 DEF TypeOK
<1>8. Kept(paddr') = Kept(paddr) \ {v}
  BY <1>7 DEF Kept
<1>9. \A w \in Kept(paddr) \ {v} : RangeOf(tags', paddr', need', w) = RangeOf(tags, paddr, need, w)
  <2> SUFFICES ASSUME NEW w \in Kept(paddr) \ {v}
               PROVE  RangeOf(tags', paddr', need', w) = RangeOf(tags, paddr, need, w)
    OBVIOUS
  <2>1. w \in Vaddrs /\ w # v /\ paddr[w] # Null
    BY DEF Kept
  <2>2. paddr'[w] = paddr[w] /\ need'[w] = need[w]
    BY <1>7, <2>1
  <2>3. paddr[w] \in AllocIn(tags) /\ paddr[w] # o
    BY <1>0, <1>3, <2>1 DEF Named
  <2>4. Size(tags', paddr[w]) = Size(tags, paddr[w])
    BY <1>4, <2>3 DEF Size
  <2> QED
    BY <2>2, <2>4 DEF RangeOf
<1>10. Place' = [w \in DOMAIN Place \ {v} |-> Place[w]]
  <2>1. Place' = [w \in Kept(paddr') |-> RangeOf(tags', paddr', need', w)]
    BY DEF Place, PlaceOf
  <2>2. DOMAIN Place = Kept(paddr) /\ \A w \in Kept(paddr) : Place[w] = RangeOf(tags, paddr, need, w)
    BY PlaceIs DEF Place
  <2> QED
    BY <1>8, <1>9, <2>1, <2>2
<1>11. Uses[v] = {}
  <2>1. UsersOf(writer, readers, pc, arg, v) = {}
    <3>1. \A u \in Threads : writer[v] # u
      BY <1>1, MemBlockAssumption
    <3> QED
      BY <1>1, <3>1 DEF UsersOf
  <2> QED
    BY <1>2, <2>1, UsesAre
<1> QED
  BY <1>2, <1>6, <1>10, <1>11, FreeIsNext

\* mb_try_shift moves one down that nobody uses.
LEMMA ShiftMoves ==
  ASSUME BlockInv, BlockInv', NEW t \in Threads, ShiftMove(t)
  PROVE  H!Next
<1> DEFINE v == arg[t]
           o == piece[t]
           next == End(tags, o)
<1>0. TypeOK /\ BlockOK(tags, sizeFree) /\ Named /\ OwnedOnce /\ LocksAreOwned /\ CallIsTrue
  BY DEF BlockInv
<1>1. /\ pc[t] = "move"
      /\ paddr' = [paddr EXCEPT ![v] = o]
      /\ writer' = [writer EXCEPT ![v] = Nobody]
      /\ ShiftJoin(o) \/ ShiftReplace(o)
      /\ Goto(t, "idle", Null, 0)
      /\ UNCHANGED <<need, readers>>
  BY DEF ShiftMove, Moved, ReleaseArg
<1>2. v \in Vaddrs /\ writer[v] = t /\ o \in FreeIn(tags) /\ paddr[v] = next
  BY <1>0, <1>1 DEF CallIsTrue
<1>3. MpNext(o) = next /\ next \in Nat /\ o \in Nat /\ o < next
  <2>1. tags \in Tags /\ Tiled(tags) /\ o \in In(tags)
    BY <1>0, <1>2 DEF BlockOK, FreeIn
  <2> QED
    BY <2>1, PieceFacts, StateViews
<1>4. next # Null /\ o # Null
  BY <1>3, MemBlockAssumption
<1>5. next \in AllocIn(tags) /\ owner[next] = v
  BY <1>0, <1>2, <1>4 DEF Named
<1>6. /\ \A p \in AllocIn(tags) \ {next} : tags'.head[p] = tags.head[p]
      /\ Size(tags', o) = Size(tags, next)
  BY <1>0, <1>1, <1>2, <1>3, <1>5, ShiftKeeps
<1>7. \A u \in Threads : /\ pc'[u] = IF u = t THEN "idle" ELSE pc[u]
                         /\ arg'[u] = IF u = t THEN Null ELSE arg[u]
  BY <1>0, <1>1, Goes
<1>u. arg[t] = v
  OBVIOUS
<1> HIDE DEF v, o, next
<1>8. \A w \in Vaddrs : /\ paddr'[w] = IF w = v THEN o ELSE paddr[w]
                        /\ writer'[w] = IF w = v THEN Nobody ELSE writer[w]
  BY <1>0, <1>1 DEF TypeOK
<1>9. Uses' = Uses
  <2>1. Nobody \notin Threads
    BY MemBlockAssumption
  <2>2. ASSUME NEW w \in Vaddrs, NEW u \in Threads
        PROVE  writer'[w] = u /\ ~(pc'[u] = "move" /\ arg'[u] = w) <=> writer[w] = u /\ ~(pc[u] = "move" /\ arg[u] = w)
    <3>1. CASE w = v
      BY <1>1, <1>2, <1>8, <1>u, <2>1, <3>1
    <3>2. CASE w # v
      BY <1>7, <1>8, <1>u, <3>2
    <3> QED
      BY <3>1, <3>2
  <2> QED
    BY <1>1, <2>2, UsersSame
<1>10. Kept(paddr') = Kept(paddr) /\ v \in Kept(paddr)
  BY <1>2, <1>4, <1>8 DEF Kept
<1>11. \A w \in Kept(paddr) \ {v} : RangeOf(tags', paddr', need', w) = RangeOf(tags, paddr, need, w)
  <2> SUFFICES ASSUME NEW w \in Kept(paddr) \ {v}
               PROVE  RangeOf(tags', paddr', need', w) = RangeOf(tags, paddr, need, w)
    OBVIOUS
  <2>1. w \in Vaddrs /\ w # v /\ paddr[w] # Null
    BY DEF Kept
  <2>2. paddr'[w] = paddr[w] /\ need'[w] = need[w]
    BY <1>1, <1>8, <2>1
  <2>3. paddr[w] \in AllocIn(tags) /\ paddr[w] # next
    BY <1>0, <1>5, <2>1 DEF Named
  <2>4. Size(tags', paddr[w]) = Size(tags, paddr[w])
    BY <1>6, <2>3 DEF Size
  <2> QED
    BY <2>2, <2>4 DEF RangeOf
<1>12. /\ RangeOf(tags', paddr', need', v) = [at |-> o, size |-> Size(tags, next) - Pad, need |-> need[v]]
       /\ RangeOf(tags, paddr, need, v) = [at |-> next, size |-> Size(tags, next) - Pad, need |-> need[v]]
  <2>1. paddr'[v] = o /\ need'[v] = need[v] /\ paddr[v] = next
    BY <1>1, <1>2, <1>8
  <2> QED
    BY <1>6, <2>1 DEF RangeOf
<1>13. RangeFits(tags', paddr', need', v)
  BY <1>10, WillPlace, RangesFit
<1>14. Uses[v] = {}
  <2>1. UsersOf(writer, readers, pc, arg, v) = {}
    <3>1. readers[v] = {}
      BY <1>0, <1>2, MemBlockAssumption DEF LocksAreOwned
    <3>2. \A u \in Threads : ~(writer[v] = u /\ ~(pc[u] = "move" /\ arg[u] = v))
      BY <1>1, <1>2, <1>u
    <3> QED
      BY <3>1, <3>2 DEF UsersOf
  <2> QED
    BY <1>2, <2>1, UsesAre
<1>15. H!Next
  <2>1. DOMAIN Place = Kept(paddr) /\ DOMAIN Place' = Kept(paddr)
    BY <1>10, PlaceIs DEF Place
  <2>2. /\ \A w \in Kept(paddr) : Place[w] = RangeOf(tags, paddr, need, w)
        /\ \A w \in Kept(paddr) : Place'[w] = RangeOf(tags', paddr', need', w)
    BY <1>10, PlaceIs DEF Place
  <2>3. \A w \in Kept(paddr) \ {v} : Place'[w] = Place[w]
    BY <1>11, <2>2
  <2>6. /\ Place[v] = [at |-> next, size |-> Size(tags, next) - Pad, need |-> need[v]]
        /\ Place'[v] = [at |-> o, size |-> Size(tags, next) - Pad, need |-> need[v]]
    BY <1>10, <1>12, <2>2
  <2>4. Place'[v] \in H!Ranges /\ Place'[v].at + Place'[v].size <= Cap
    <3>1. Place'[v].at = o /\ Place'[v].size = Size(tags, next) - Pad
      BY <2>6
    <3>2. paddr'[v] = o
      BY <1>2, <1>8
    <3>3. o + (Size(tags, next) - Pad) <= Cap
      BY <1>6, <1>13, <3>2 DEF RangeFits
    <3>4. Place'[v] \in H!Ranges
      BY <1>10, <1>13, <2>2 DEF RangeFits
    <3> QED
      BY <3>1, <3>3, <3>4
  <2>5. \A w \in Kept(paddr) \ {v} : H!Apart(Place'[v], Place[w])
    <3> SUFFICES ASSUME NEW w \in Kept(paddr) \ {v} PROVE H!Apart(Place'[v], Place[w])
      OBVIOUS
    <3>1. H!Apart(RangeOf(tags', paddr', need', v), RangeOf(tags', paddr', need', w))
      BY <1>10, <1>13 DEF RangeFits
    <3> QED
      BY <1>10, <1>11, <2>2, <3>1
  <2>7. Place'[v] = [Place[v] EXCEPT !.at = Place'[v].at] /\ Place'[v].at < Place[v].at
    BY <1>3, <2>6
  <2> QED
    BY <1>2, <1>9, <1>10, <1>14, <2>1, <2>3, <2>4, <2>5, <2>7, MoveIsNext
<1> QED
  BY <1>15

\* What changes neither a range nor who uses one.
Stutters == Place' = Place /\ Uses' = Uses

LEMMA FreeCallStutters ==
  ASSUME BlockInv, NEW t \in Threads, NEW v \in Vaddrs, FreeCall(t, v)
  PROVE  Stutters
<1>1. /\ pc[t] = "idle" /\ Goto(t, "free", v, 0)
      /\ UNCHANGED <<tags, paddr, need, writer, readers>>
  BY DEF FreeCall, blockVars, bookVars, lockVars
<1>2. \A u \in Threads : /\ pc'[u] = IF u = t THEN "free" ELSE pc[u]
                         /\ arg'[u] = IF u = t THEN v ELSE arg[u]
  BY <1>1, Goes DEF BlockInv
<1>3. \A w \in Vaddrs : \A u \in Threads : (pc'[u] = "move" /\ arg'[u] = w) <=> (pc[u] = "move" /\ arg[u] = w)
  BY <1>1, <1>2
<1> QED
  BY <1>1, <1>3, UsersSame, PlaceSame DEF Stutters

LEMMA FreeStutters ==
  ASSUME BlockInv, NEW t \in Threads, FreeLock(t) \/ FreeRead(t)
  PROVE  Stutters
<1>1. /\ pc[t] \in {"free", "read"} /\ UNCHANGED <<tags, paddr, need, writer, readers>>
      /\ \E label \in {"read", "discard"} : \E o : Goto(t, label, arg[t], o)
  BY DEF FreeLock, FreeRead, blockVars, bookVars, lockVars
<1>2. PICK label \in {"read", "discard"} : \E o : Goto(t, label, arg[t], o)
  BY <1>1
<1>3. \A u \in Threads : pc'[u] = IF u = t THEN label ELSE pc[u]
  BY <1>2, Goes DEF BlockInv
<1>4. \A u \in Threads : arg'[u] = arg[u]
  BY <1>2, Goes DEF BlockInv
<1>5. \A w \in Vaddrs : \A u \in Threads : (pc'[u] = "move" /\ arg'[u] = w) <=> (pc[u] = "move" /\ arg[u] = w)
  BY <1>1, <1>3, <1>4
<1> QED
  BY <1>1, <1>5, UsersSame, PlaceSame DEF Stutters

LEMMA ShiftPickStutters ==
  ASSUME BlockInv, NEW t \in Threads, ShiftPick(t)
  PROVE  Stutters
<1>1. PICK i \in DOMAIN sizeFree : Shiftable(sizeFree[i]) /\ PickAt(t, sizeFree[i])
  BY DEF ShiftPick
<1> DEFINE o == sizeFree[i]
           v == owner[MpNext(o)]
<1>2. /\ writer[v] = Nobody
      /\ pc[t] = "idle" /\ writer' = [writer EXCEPT ![v] = t]
      /\ Goto(t, "move", v, o)
      /\ UNCHANGED <<tags, paddr, need, readers>>
  BY <1>1 DEF Shiftable, PickAt, WriteFree, blockVars, bookVars
<1> HIDE DEF o, v
<1>3. \A u \in Threads : /\ pc'[u] = IF u = t THEN "move" ELSE pc[u]
                         /\ arg'[u] = IF u = t THEN v ELSE arg[u]
  BY <1>2, Goes DEF BlockInv
<1>4. \A w \in Vaddrs : writer'[w] = IF w = v THEN t ELSE writer[w]
  BY <1>2 DEF BlockInv, TypeOK
<1>5. ASSUME NEW w \in Vaddrs, NEW u \in Threads
      PROVE  writer'[w] = u /\ ~(pc'[u] = "move" /\ arg'[u] = w) <=> writer[w] = u /\ ~(pc[u] = "move" /\ arg[u] = w)
  <2>1. Nobody \notin Threads
    BY MemBlockAssumption
  <2>2. CASE w = v
    BY <1>2, <1>3, <1>4, <2>1, <2>2
  <2>3. CASE w # v
    BY <1>2, <1>3, <1>4, <2>3
  <2> QED
    BY <2>2, <2>3
<1> QED
  BY <1>2, <1>5, UsersSame, PlaceSame DEF Stutters

LEMMA LockSteps ==
  ASSUME BlockInv, NEW t \in Threads, NEW v \in Vaddrs, GetRead(t, v) \/ GetWrite(t, v)
  PROVE  H!Next
<1>0. TypeOK /\ OwnedOnce
  BY DEF BlockInv
<1>1. /\ v \in handles /\ writer[v] = Nobody /\ pc[t] = "idle"
      /\ \/ readers' = [readers EXCEPT ![v] = @ \cup {t}] /\ writer' = writer
         \/ readers[v] = {} /\ writer' = [writer EXCEPT ![v] = t] /\ readers' = readers
      /\ UNCHANGED <<tags, paddr, need, pc, arg>>
  BY DEF GetRead, GetWrite, MayLock, WriteFree, blockVars, bookVars, callVars
<1>2. writer \in [Vaddrs -> Threads \cup {Nobody}] /\ readers \in [Vaddrs -> SUBSET Threads]
  BY <1>0 DEF TypeOK
<1>3. \A w \in Vaddrs \ {v} : readers'[w] = readers[w] /\ writer'[w] = writer[w]
  BY <1>1, <1>2
<1>4. UsersOf(writer', readers', pc', arg', v) = Uses[v] \cup {t}
  <2>1. Uses[v] = UsersOf(writer, readers, pc, arg, v)
    BY UsesAre
  <2>2. Nobody \notin Threads
    BY MemBlockAssumption
  <2>3. UsersOf(writer, readers, pc, arg, v) = readers[v]
    BY <1>1, <2>2 DEF UsersOf
  <2>4. CASE readers' = [readers EXCEPT ![v] = @ \cup {t}] /\ writer' = writer
    <3>1. readers'[v] = readers[v] \cup {t} /\ writer'[v] = Nobody
      BY <1>1, <1>2, <2>4
    <3>2. UsersOf(writer', readers', pc', arg', v) = readers'[v]
      BY <2>2, <3>1 DEF UsersOf
    <3> QED
      BY <2>1, <2>3, <3>1, <3>2
  <2>5. CASE readers[v] = {} /\ writer' = [writer EXCEPT ![v] = t] /\ readers' = readers
    <3>1. readers'[v] = {} /\ writer'[v] = t /\ pc'[t] = "idle"
      BY <1>1, <1>2, <2>5
    <3>2. UsersOf(writer', readers', pc', arg', v) = {t}
      BY <3>1 DEF UsersOf
    <3> QED
      BY <2>1, <2>3, <2>5, <3>2
  <2> QED
    BY <1>1, <2>4, <2>5
<1>5. Uses' = [Uses EXCEPT ![v] = Uses[v] \cup {t}]
  BY <1>1, <1>3, <1>4, UsersOfOne
<1>6. v \in DOMAIN Place
  <2>1. paddr[v] # Null
    BY <1>0, <1>1 DEF OwnedOnce
  <2>2. v \in Kept(paddr)
    BY <2>1 DEF Kept
  <2> QED
    BY <2>2, PlaceIs DEF Place
<1>7. H!Lock(t, v)
  BY <1>1, <1>5, <1>6, PlaceSame, HeapSteps
<1> QED
  BY <1>7, LockIsNext

LEMMA UnlockSteps ==
  ASSUME BlockInv, NEW t \in Threads, NEW v \in Vaddrs, Unlock(t, v)
  PROVE  H!Next
<1>0. TypeOK /\ LocksAreOwned
  BY DEF BlockInv
<1>1. /\ pc[t] = "idle" /\ (writer[v] = t \/ t \in readers[v])
      /\ writer' = [writer EXCEPT ![v] = Nobody]
      /\ readers' = [readers EXCEPT ![v] = @ \ {t}]
      /\ UNCHANGED <<tags, paddr, need, pc, arg>>
  BY DEF Unlock, Locked, blockVars, bookVars, callVars
<1>2. writer \in [Vaddrs -> Threads \cup {Nobody}] /\ readers \in [Vaddrs -> SUBSET Threads]
  BY <1>0 DEF TypeOK
<1>3. \A w \in Vaddrs \ {v} : readers'[w] = readers[w] /\ writer'[w] = writer[w]
  BY <1>1, <1>2
<1>4. UsersOf(writer', readers', pc', arg', v) = Uses[v] \ {t}
  <2>1. Uses[v] = UsersOf(writer, readers, pc, arg, v)
    BY UsesAre
  <2>2. Nobody \notin Threads
    BY MemBlockAssumption
  <2>3. readers'[v] = readers[v] \ {t} /\ writer'[v] = Nobody
    BY <1>1, <1>2
  <2>4. UsersOf(writer', readers', pc', arg', v) = readers[v] \ {t}
    BY <2>2, <2>3 DEF UsersOf
  <2>5. CASE writer[v] = t
    <3>1. readers[v] = {}
      BY <1>0, <2>2, <2>5 DEF LocksAreOwned
    <3>2. UsersOf(writer, readers, pc, arg, v) = {t}
      BY <1>1, <2>5, <3>1 DEF UsersOf
    <3> QED
      BY <2>1, <2>4, <3>1, <3>2
  <2>6. CASE t \in readers[v]
    <3>1. writer[v] = Nobody
      BY <1>0, <2>6 DEF LocksAreOwned
    <3>2. UsersOf(writer, readers, pc, arg, v) = readers[v]
      BY <2>2, <3>1 DEF UsersOf
    <3> QED
      BY <2>1, <2>4, <3>2
  <2> QED
    BY <1>1, <2>5, <2>6
<1>5. Uses' = [Uses EXCEPT ![v] = Uses[v] \ {t}]
  BY <1>1, <1>3, <1>4, UsersOfOne
<1>6. H!Unlock(t, v)
  BY <1>1, <1>5, PlaceSame, HeapSteps
<1> QED
  BY <1>6, LockIsNext

LEMMA RenewFrees ==
  ASSUME BlockInv, BlockInv', Renew
  PROVE  H!Next
<1>1. /\ \A v \in Vaddrs : writer[v] = Nobody /\ readers[v] = {}
      /\ handles' = {} /\ UNCHANGED <<writer, readers, pc, arg>> /\ \A t \in Threads : pc[t] = "idle"
  BY DEF Renew, WriteFree, lockVars, callVars
<1>2. \A v \in Vaddrs : paddr'[v] = Null
  <2>1. \A v \in Vaddrs : paddr'[v] # Null => v \in handles' \/ \E t \in Threads : pc'[t] \in Freeing /\ arg'[t] = v
    BY DEF BlockInv, OwnedOnce
  <2> QED
    BY <1>1, <2>1 DEF Freeing
<1>3. Uses' = Uses
  BY <1>1 DEF Uses, UsersOf
<1>4. \A v \in Vaddrs : Uses[v] = {}
  <2>1. Nobody \notin Threads
    BY MemBlockAssumption
  <2>2. ASSUME NEW v \in Vaddrs PROVE UsersOf(writer, readers, pc, arg, v) = {}
    BY <1>1, <2>1 DEF UsersOf
  <2> QED
    BY <2>2, UsesAre
<1> DEFINE vs == DOMAIN Place
<1>5. vs \subseteq Vaddrs
  <2>1. Kept(paddr) \subseteq Vaddrs
    BY DEF Kept
  <2>2. vs = Kept(paddr)
    BY DEF Place, PlaceOf
  <2> QED
    BY <2>1, <2>2
<1>6. Place' = [v \in vs \ vs |-> Place[v]]
  <2>1. Place' = [v \in Kept(paddr') |-> RangeOf(tags', paddr', need', v)]
    BY DEF Place, PlaceOf
  <2>2. Kept(paddr') = {} /\ vs \ vs = {}
    BY <1>2 DEF Kept
  <2> HIDE DEF vs
  <2> QED
    BY <2>1, <2>2
<1>7. (\A v \in vs : Uses[v] = {}) /\ Place' = [v \in DOMAIN Place \ vs |-> Place[v]]
  BY <1>4, <1>5, <1>6
<1> DEFINE all == DOMAIN [v \in {w \in Vaddrs : paddr[w] # Null} |->
                           [at |-> paddr[v], size |-> MpSize(paddr[v]) - Pad, need |-> need[v]]]
<1>8. all = vs
  BY DEF Place, PlaceOf, RangeOf, Kept, Size, MpSize
<1>9. (\A v \in all : Uses[v] = {}) /\ Place' = [v \in DOMAIN Place \ all |-> Place[v]]
  <2> HIDE DEF all, vs
  <2> QED
    BY <1>7, <1>8
<1>10. H!Free(all)
  <2> HIDE DEF all
  <2> QED
    BY <1>3, <1>9 DEF Place, PlaceOf, RangeOf, Kept, Size, Uses, UsersOf, MpSize, Users, H!Free
<1> QED
  BY <1>10 DEF H!Next

LEMMA StepIsHeaps ==
  ASSUME BlockInv, BlockInv', [Next]_vars
  PROVE  H!Next \/ Stutters
<1>1. ASSUME NEW t \in Threads, NEW v \in Vaddrs, NEW n \in Requests, NEW hold \in BOOLEAN, Malloc(t, n, hold, v)
      PROVE  H!Next
  BY <1>1, MallocAllocs
<1>2. ASSUME NEW t \in Threads, NEW v \in Vaddrs, FreeCall(t, v) \/ GetRead(t, v) \/ GetWrite(t, v) \/ Unlock(t, v)
      PROVE  H!Next \/ Stutters
  BY <1>2, FreeCallStutters, LockSteps, UnlockSteps
<1>3. ASSUME NEW t \in Threads, FreeLock(t) \/ FreeRead(t) \/ FreeDiscard(t) \/ ShiftPick(t) \/ ShiftMove(t)
      PROVE  H!Next \/ Stutters
  BY <1>3, FreeStutters, FreeFrees, ShiftPickStutters, ShiftMoves
<1>4. CASE Renew
  BY <1>4, RenewFrees
<1>5. CASE UNCHANGED vars
  BY <1>5 DEF vars, blockVars, bookVars, lockVars, callVars, Stutters, Place, Uses
<1> QED
  BY <1>1, <1>2, <1>3, <1>4, <1>5 DEF Next

LEMMA InitIsHeaps == Init => H!Init
<1> SUFFICES ASSUME Init PROVE H!Init
  OBVIOUS
<1>1. /\ paddr = [v \in Vaddrs |-> Null] /\ writer = [v \in Vaddrs |-> Nobody]
      /\ readers = [v \in Vaddrs |-> {}]
  BY DEF Init
<1>2. Place = [v \in {} |-> 0]
  <2>1. Kept(paddr) = {}
    BY <1>1 DEF Kept
  <2> QED
    BY <2>1 DEF Place, PlaceOf
<1>3. Uses = [v \in Vaddrs |-> {}]
  <2>1. ASSUME NEW v \in Vaddrs PROVE UsersOf(writer, readers, pc, arg, v) = {}
    BY <1>1, MemBlockAssumption DEF UsersOf
  <2> QED
    BY <2>1 DEF Uses
<1> QED
  BY <1>2, <1>3, HeapSteps

\* The calls of mb.h do to the ranges what Heap allows: an address gets a range that
\* holds what was asked for and overlaps no other, and a range moves or goes only
\* while nobody uses it (mb.h:9-96).
THEOREM BlockIsHeap == Spec => ImplementsHeap
<1>1. BlockInv /\ BlockInv' /\ [Next]_vars => H!Next \/ Stutters
  BY StepIsHeaps
<1>2. Stutters => UNCHANGED <<[v \in {w \in Vaddrs : paddr[w] # Null} |->
                               [at |-> paddr[v], size |-> MpSize(paddr[v]) - Pad, need |-> need[v]]],
                              [v \in Vaddrs |-> Users(v)]>>
  BY DEF Stutters, Place, PlaceOf, RangeOf, Kept, Size, MpSize, Uses, UsersOf, Users
<1> QED
  BY <1>1, <1>2, InitIsHeaps, BlockHolds, PTL DEF Spec, ImplementsHeap, H!Spec
=============================================================================
