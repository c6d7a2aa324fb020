----------------------------- MODULE MemBlock -----------------------------
(***************************************************************************)
(* The memory block of gc_src/mb.c: one area cut into pieces with a tag at *)
(* both ends, a list of the free pieces in order of size, and a shift that *)
(* moves a piece into the free piece before it while other threads use     *)
(* what they have locked.                                                  *)
(*                                                                         *)
(* Offsets and sizes are in bytes; Pad stands for MP_PADDING plus the      *)
(* header of a piece.  A word inside a piece that is not a tag is the      *)
(* user's, and reads 0 here.  The address book is what AddrSpace promises. *)
(***************************************************************************)
EXTENDS Integers, FiniteSets, SequencesExt

CONSTANTS
  Threads,   \* the callers
  Vaddrs,    \* the virtual addresses of the book
  MinBytes,  \* min_bytes of new_mem_block
  Requests,  \* min_bytes of the calls of mb_malloc_p
  Pad,       \* MAP_PADDING, MFP_PADDING
  MaxLocks,  \* bound: addresses a caller has locked at a time
  Nobody, Null

ASSUME MemBlockAssumption ==
  /\ IsFiniteSet(Threads)
  /\ IsFiniteSet(Vaddrs)
  /\ MinBytes \in Nat \ {0}
  /\ Requests \subseteq Nat
  /\ Pad \in Nat /\ Pad % 2 = 0
  /\ MaxLocks \in Nat
  /\ Nobody \notin Threads
  /\ Null \notin Nat \cup Vaddrs

MinSize == Pad + 2  \* MP_MIN_SIZE

RoundNumBytes(n) == IF n % 2 = 1 THEN n + 1 ELSE n

\* Mutant of PadNumBytes: no rounding.
PadUnrounded(n) == n + Pad

PadNumBytes(n) ==
  LET size == RoundNumBytes(n) + Pad IN IF size < MinSize THEN MinSize ELSE size

\* cap of the block
Cap == RoundNumBytes(MinBytes) + Pad

Offsets == 0..Cap

VARIABLES
  tags,      \* the headers, by the first byte of a piece, and the footers, by
             \* the first byte after it
  owner,     \* the address in the header of an allocated piece
  sizeFree,  \* size_free_list
  memLck,    \* who has mem_lck
  paddr,     \* the piece the book has for an address
  need,      \* history: the bytes that were asked for it
  writer, readers,  \* the locks on the addresses
  handles,   \* the addresses callers have
  pc,        \* where a thread is in mb_free or mb_try_shift
  arg,       \* vaddr there
  piece      \* mp, or og_free, there

blockVars == <<tags, owner, sizeFree>>
bookVars == <<paddr, need>>
lockVars == <<writer, readers>>
callVars == <<pc, arg, piece>>
vars == <<blockVars, memLck, bookVars, lockVars, handles, callVars>>

-----------------------------------------------------------------------------
(***************************************************************************)
(* Pieces (mb.c:59-99).                                                    *)
(***************************************************************************)
Tag(size, alloc) == IF alloc /\ size % 2 = 0 THEN size + 1 ELSE size

TagSize(tag) == tag - (tag % 2)

MpInit(tgs, o, size, alloc) ==
  [head |-> [p \in Offsets |-> IF p = o THEN Tag(size, alloc)
                               ELSE IF o < p /\ p < o + size THEN 0 ELSE tgs.head[p]],
   foot |-> [p \in Offsets |-> IF p = o + size THEN Tag(size, alloc)
                               ELSE IF o < p /\ p < o + size THEN 0 ELSE tgs.foot[p]]]

NoTags == [head |-> [p \in Offsets |-> 0], foot |-> [p \in Offsets |-> 0]]

MpSize(o) == TagSize(tags.head[o])
MpAlloc(o) == tags.head[o] % 2 = 1
MpNext(o) == o + MpSize(o)
MpPrev(o) == o - TagSize(tags.foot[o])

Pieces == {o \in Offsets : tags.head[o] # 0}
FreePieces == {o \in Pieces : ~MpAlloc(o)}
AllocPieces == {o \in Pieces : MpAlloc(o)}

\* mb_add_to_size_unsafe: before the first piece that is not larger.
\* Mutant: at the front.
AddToSizeFront(list, tgs, o) == <<o>> \o list

AddToSize(list, tgs, o) ==
  LET size(p) == TagSize(tgs.head[p])
      larger(i) == \A j \in 1..(i - 1) : size(list[j]) > size(o)
      i == CHOOSE i \in 1..(Len(list) + 1) :
             larger(i) /\ (i = Len(list) + 1 \/ size(list[i]) <= size(o))
  IN InsertAt(list, i, o)

-----------------------------------------------------------------------------
TypeOK ==
  /\ tags \in [head : [Offsets -> 0..(Cap + 1)], foot : [Offsets -> 0..(Cap + 1)]]
  /\ owner \in [Offsets -> Vaddrs \cup {Null}]
  /\ sizeFree \in Seq(Offsets)
  /\ memLck \in Threads \cup {Nobody}
  /\ paddr \in [Vaddrs -> Offsets \cup {Null}]
  /\ need \in [Vaddrs -> Requests \cup {0}]
  /\ writer \in [Vaddrs -> Threads \cup {Nobody}]
  /\ readers \in [Vaddrs -> SUBSET Threads]
  /\ handles \subseteq Vaddrs
  /\ pc \in [Threads -> {"idle", "free", "read", "discard", "move"}]
  /\ arg \in [Threads -> Vaddrs \cup {Null}]
  /\ piece \in [Threads -> Offsets]

\* new_mem_block: one free piece.
Init ==
  /\ tags = MpInit(NoTags, 0, Cap, FALSE)
  /\ owner = [o \in Offsets |-> Null]
  /\ sizeFree = <<0>>
  /\ memLck = Nobody
  /\ paddr = [v \in Vaddrs |-> Null]
  /\ need = [v \in Vaddrs |-> 0]
  /\ writer = [v \in Vaddrs |-> Nobody]
  /\ readers = [v \in Vaddrs |-> {}]
  /\ handles = {}
  /\ pc = [t \in Threads |-> "idle"]
  /\ arg = [t \in Threads |-> Null]
  /\ piece = [t \in Threads |-> 0]

WriteFree(v) == writer[v] = Nobody /\ readers[v] = {}

\* Who uses what is behind v: a shift that has its lock does not.
Users(v) == readers[v] \cup {t \in Threads : writer[v] = t /\ ~(pc[t] = "move" /\ arg[t] = v)}

Goto(t, label, v, o) ==
  /\ pc' = [pc EXCEPT ![t] = label]
  /\ arg' = [arg EXCEPT ![t] = v]
  /\ piece' = [piece EXCEPT ![t] = o]

-----------------------------------------------------------------------------
(***************************************************************************)
(* mb_malloc_p.                                                            *)
(***************************************************************************)
\* The head of the list becomes the piece of v; the rest of it is cut off if
\* it is at least least bytes.
Take(t, n, hold, v, least) ==
  LET big == Head(sizeFree)
      size == PadNumBytes(n)
      cut == MpSize(big) - size
      rest == MpInit(tags, big + size, cut, FALSE)
  IN /\ IF cut < least
          THEN /\ tags' = MpInit(tags, big, MpSize(big), TRUE)
               /\ sizeFree' = Tail(sizeFree)
          ELSE /\ tags' = MpInit(rest, big, size, TRUE)
               /\ sizeFree' = AddToSize(Tail(sizeFree), rest, big + size)
     /\ owner' = [owner EXCEPT ![big] = v]
     /\ paddr' = [paddr EXCEPT ![v] = big]
     /\ need' = [need EXCEPT ![v] = n]
     /\ writer' = [writer EXCEPT ![v] = IF hold THEN t ELSE Nobody]
     /\ handles' = handles \cup {v}
     /\ UNCHANGED <<memLck, readers, callVars>>

Locked(t) == {v \in Vaddrs : writer[v] = t \/ t \in readers[v]}

MayLock(t) == pc[t] = "idle" /\ Cardinality(Locked(t)) < MaxLocks

MallocCall(t, n, hold, v) ==
  /\ pc[t] = "idle"
  /\ memLck = Nobody
  /\ n # 0
  /\ sizeFree # <<>>
  /\ paddr[v] = Null
  /\ hold => MayLock(t)

BigEnough(n) == MpSize(Head(sizeFree)) >= PadNumBytes(n)

\* Mutant of Malloc: what is cut off may be too small for a piece.
MallocCutsAll(t, n, hold, v) ==
  MallocCall(t, n, hold, v) /\ BigEnough(n) /\ Take(t, n, hold, v, 1)

\* Nothing is allocated, and nothing changes, for a request of no bytes or one
\* that the largest free piece is too small for.
Malloc(t, n, hold, v) ==
  MallocCall(t, n, hold, v) /\ BigEnough(n) /\ Take(t, n, hold, v, MinSize)

-----------------------------------------------------------------------------
(***************************************************************************)
(* mb_free.                                                                *)
(***************************************************************************)
\* A caller gives up an address that nobody uses; a shift may have its lock
\* (mb.c:408-410).
FreeCall(t, v) ==
  /\ pc[t] = "idle"
  /\ v \in handles
  /\ Users(v) = {}
  /\ handles' = handles \ {v}
  /\ Goto(t, "free", v, 0)
  /\ UNCHANGED <<blockVars, memLck, bookVars, lockVars>>

\* Mutant of FreeLock: the address is resolved before mem_lck is taken.
FreeLockLate(t) ==
  /\ pc[t] = "free"
  /\ Goto(t, "read", arg[t], piece[t])
  /\ UNCHANGED <<blockVars, memLck, bookVars, lockVars, handles>>

FreeLock(t) ==
  /\ pc[t] = "free"
  /\ memLck = Nobody
  /\ memLck' = t
  /\ Goto(t, "read", arg[t], piece[t])
  /\ UNCHANGED <<blockVars, bookVars, lockVars, handles>>

\* adb_get_read and adb_unlock, which wait for a writer.
FreeRead(t) ==
  /\ pc[t] = "read"
  /\ writer[arg[t]] = Nobody
  /\ Goto(t, "discard", arg[t], paddr[arg[t]])
  /\ UNCHANGED <<blockVars, memLck, bookVars, lockVars, handles>>

PrevFree(o) == o > 0 /\ ~MpAlloc(MpPrev(o))
NextFree(o) == MpNext(o) < Cap /\ ~MpAlloc(MpNext(o))

\* The free piece o leaves the list.
Unlink(list, o) == RemoveAt(list, CHOOSE i \in DOMAIN list : list[i] = o)

\* The piece at o is joined with the free pieces next to it that are asked for.
Join(o, withPrev, withNext) ==
  LET start == IF withPrev THEN MpPrev(o) ELSE o
      end == IF withNext THEN MpNext(MpNext(o)) ELSE MpNext(o)
      joined == MpInit(tags, start, end - start, FALSE)
      others == IF withPrev THEN Unlink(sizeFree, MpPrev(o)) ELSE sizeFree
  IN /\ tags' = joined
     /\ sizeFree' = AddToSize(IF withNext THEN Unlink(others, MpNext(o)) ELSE others, joined, start)

\* Mutant of Coalesce: only the next piece is looked at.
CoalesceNext(o) == Join(o, FALSE, NextFree(o))

\* mb_coalesce_unsafe
Coalesce(o) == Join(o, PrevFree(o), NextFree(o))

\* adb_free, which waits for whoever has the lock, and the rest of mb_free.
FreeDiscard(t) ==
  /\ pc[t] = "discard"
  /\ WriteFree(arg[t])
  /\ paddr' = [paddr EXCEPT ![arg[t]] = Null]
  /\ need' = [need EXCEPT ![arg[t]] = 0]
  /\ owner' = [owner EXCEPT ![piece[t]] = Null]
  /\ Coalesce(piece[t])
  /\ memLck' = Nobody
  /\ Goto(t, "idle", Null, 0)
  /\ UNCHANGED <<lockVars, handles>>

-----------------------------------------------------------------------------
(***************************************************************************)
(* mb_try_shift.                                                           *)
(***************************************************************************)
NotNeeded ==
  sizeFree = <<>> \/ (Len(sizeFree) = 1 /\ MpNext(Head(sizeFree)) >= Cap)

AllocNext(o) == MpNext(o) < Cap /\ MpAlloc(MpNext(o))

\* Its next piece can be moved into the free piece o.
Shiftable(o) == AllocNext(o) /\ WriteFree(owner[MpNext(o)])

PickAt(t, o) ==
  /\ pc[t] = "idle"
  /\ memLck = Nobody
  /\ ~NotNeeded
  /\ memLck' = t
  /\ writer' = [writer EXCEPT ![owner[MpNext(o)]] = t]
  /\ Goto(t, "move", owner[MpNext(o)], o)
  /\ UNCHANGED <<blockVars, bookVars, readers, handles>>

\* Mutant of ShiftPick: the lock of the piece is not tried.
ShiftPickUntried(t) ==
  \E i \in DOMAIN sizeFree : AllocNext(sizeFree[i]) /\ PickAt(t, sizeFree[i])

\* The first piece on the list that can be shifted into.  If there is none, or
\* nothing to do, the call changes nothing: MB_BUSY, MB_NOT_NEEDED.
ShiftPick(t) ==
  \E i \in DOMAIN sizeFree :
    /\ Shiftable(sizeFree[i])
    /\ \A j \in 1..(i - 1) : ~Shiftable(sizeFree[j])
    /\ PickAt(t, sizeFree[i])

\* The tags when the piece after o is moved to o and the free piece after it has
\* size bytes.
Shifted(o, size) ==
  LET len == MpSize(MpNext(o))
  IN MpInit(MpInit(tags, o, len, TRUE), o + len, size, FALSE)

\* The new free piece is joined with the next one and sorted into the list.
ShiftJoin(o) ==
  LET new == o + MpSize(MpNext(o))
      after == MpNext(MpNext(o))
      tgs == Shifted(o, MpSize(o) + MpSize(after))
  IN /\ after < Cap /\ ~MpAlloc(after)
     /\ tags' = tgs
     /\ sizeFree' = AddToSize(Unlink(Unlink(sizeFree, o), after), tgs, new)

\* The new free piece takes the place of the old one on the list.
Replace(o) ==
  LET new == o + MpSize(MpNext(o))
  IN /\ tags' = Shifted(o, MpSize(o))
     /\ sizeFree' = [i \in DOMAIN sizeFree |-> IF sizeFree[i] = o THEN new ELSE sizeFree[i]]

ShiftReplace(o) ==
  /\ LET after == MpNext(MpNext(o)) IN after >= Cap \/ MpAlloc(after)
  /\ Replace(o)

\* adb_move_p writes v into the header of the piece it moves to o.
MoveOwner(o, v) ==
  owner' = [p \in Offsets |-> IF p = o THEN v ELSE IF p = MpNext(o) THEN Null ELSE owner[p]]

Moved(t) ==
  /\ pc[t] = "move"
  /\ paddr' = [paddr EXCEPT ![arg[t]] = piece[t]]
  /\ memLck' = Nobody
  /\ Goto(t, "idle", Null, 0)
  /\ UNCHANGED <<need, readers, handles>>

ReleaseArg(t) == writer' = [writer EXCEPT ![arg[t]] = Nobody]

\* Mutants of ShiftMove: init is 0, so that the address does not move along; the
\* lock is not given back; no look at the piece after next.
ShiftMoveNoInit(t) ==
  /\ Moved(t) /\ ReleaseArg(t) /\ (ShiftJoin(piece[t]) \/ ShiftReplace(piece[t]))
  /\ UNCHANGED owner

ShiftMoveKeepsLock(t) ==
  /\ Moved(t) /\ UNCHANGED writer /\ (ShiftJoin(piece[t]) \/ ShiftReplace(piece[t]))
  /\ MoveOwner(piece[t], arg[t])

ShiftMoveNoJoin(t) ==
  /\ Moved(t) /\ ReleaseArg(t) /\ Replace(piece[t])
  /\ MoveOwner(piece[t], arg[t])

\* Mutant of ShiftMove: no move into a free piece that is smaller.
ShiftMoveFits(t) ==
  IF MpSize(piece[t]) < MpSize(MpNext(piece[t]))
    THEN /\ pc[t] = "move"
         /\ ReleaseArg(t)
         /\ memLck' = Nobody
         /\ Goto(t, "idle", Null, 0)
         /\ UNCHANGED <<blockVars, bookVars, readers, handles>>
    ELSE /\ Moved(t) /\ ReleaseArg(t) /\ (ShiftJoin(piece[t]) \/ ShiftReplace(piece[t]))
         /\ MoveOwner(piece[t], arg[t])

\* From adb_move_p on.  Whoever gets the lock before the tags are written reads
\* and writes between them, and needs mem_lck to look at them.
ShiftMove(t) ==
  /\ Moved(t) /\ ReleaseArg(t) /\ (ShiftJoin(piece[t]) \/ ShiftReplace(piece[t]))
  /\ MoveOwner(piece[t], arg[t])

-----------------------------------------------------------------------------
(***************************************************************************)
(* The users of the addresses, and the end of the block.                   *)
(***************************************************************************)
GetRead(t, v) ==
  /\ MayLock(t)
  /\ v \in handles
  /\ writer[v] = Nobody /\ t \notin readers[v]
  /\ readers' = [readers EXCEPT ![v] = @ \cup {t}]
  /\ UNCHANGED <<blockVars, memLck, bookVars, writer, handles, callVars>>

GetWrite(t, v) ==
  /\ MayLock(t)
  /\ v \in handles
  /\ WriteFree(v)
  /\ writer' = [writer EXCEPT ![v] = t]
  /\ UNCHANGED <<blockVars, memLck, bookVars, readers, handles, callVars>>

Unlock(t, v) ==
  /\ pc[t] = "idle"
  /\ v \in Locked(t)
  /\ writer' = [writer EXCEPT ![v] = Nobody]
  /\ readers' = [readers EXCEPT ![v] = @ \ {t}]
  /\ UNCHANGED <<blockVars, memLck, bookVars, handles, callVars>>

\* delete_mem_block, which no other call runs beside, gives back the address of
\* every allocated piece; then a new block of the same size.
Renew ==
  /\ \A t \in Threads : pc[t] = "idle"
  /\ \A v \in Vaddrs : WriteFree(v)
  /\ paddr' = [v \in Vaddrs |-> IF v \in {owner[o] : o \in AllocPieces} THEN Null ELSE paddr[v]]
  /\ need' = [v \in Vaddrs |-> IF paddr'[v] = Null THEN 0 ELSE need[v]]
  /\ handles' = {}
  /\ tags' = MpInit(NoTags, 0, Cap, FALSE)
  /\ owner' = [o \in Offsets |-> Null]
  /\ sizeFree' = <<0>>
  /\ UNCHANGED <<memLck, lockVars, callVars>>

Next ==
  \/ \E t \in Threads, v \in Vaddrs :
       \/ \E n \in Requests, hold \in BOOLEAN : Malloc(t, n, hold, v)
       \/ FreeCall(t, v)
       \/ GetRead(t, v)
       \/ GetWrite(t, v)
       \/ Unlock(t, v)
  \/ \E t \in Threads : \/ FreeLock(t)
                        \/ FreeRead(t)
                        \/ FreeDiscard(t)
                        \/ ShiftPick(t)
                        \/ ShiftMove(t)
  \/ Renew

Spec == Init /\ [][Next]_vars

-----------------------------------------------------------------------------
(***************************************************************************)
(* Properties.                                                             *)
(***************************************************************************)
\* The pieces tile the block: each starts where the one before it ends, says
\* the same size at both ends, and is even and large enough to be freed or given
\* out again (mb.c:130-138).  No two neighbours are free: freeing and shifting
\* join a free piece with every free neighbour, so a block that is not packed
\* always has a piece to shift (mb.c:554).
PiecesTile ==
  /\ TypeOK
  /\ 0 \in Pieces
  /\ \A o \in Pieces :
       /\ MpSize(o) >= MinSize /\ MpSize(o) % 2 = 0
       /\ MpNext(o) \in Pieces \cup {Cap}
       /\ \A p \in Pieces : p <= o \/ MpNext(o) <= p
       /\ tags.foot[MpNext(o)] = tags.head[o]
  /\ \A o \in FreePieces : MpNext(o) \notin FreePieces

\* The list has every free piece once, the largest first: mb_malloc_p looks at its
\* head alone, and mb_free_space answers from it (mb.h:21-22).
FreeListExact ==
  /\ ToSet(sizeFree) = FreePieces
  /\ Len(sizeFree) = Cardinality(FreePieces)
  /\ \A i \in 1..(Len(sizeFree) - 1) : MpSize(sizeFree[i]) >= MpSize(sizeFree[i + 1])

\* An allocated piece and its address name each other, and every address the
\* book has belongs to a caller or to a free under way: a shift moves them
\* together, and a deleted block leaves no address behind.
AddressesAgree ==
  /\ \A o \in AllocPieces : owner[o] \in Vaddrs /\ paddr[owner[o]] = o
  /\ \A v \in Vaddrs : paddr[v] # Null => paddr[v] \in AllocPieces /\ owner[paddr[v]] = v
  /\ \A v \in Vaddrs : paddr[v] # Null <=>
                         (v \in handles \/ \E t \in Threads : pc[t] # "idle" /\ arg[t] = v)

\* Under the contract of mb.c:408-410 a free that has mem_lck never waits for the
\* lock of the piece, so nobody waits for mem_lck for ever.
FreeNeverWaits ==
  \A t \in Threads : pc[t] \in {"read", "discard"} => memLck = t /\ WriteFree(arg[t])

\* Every shift that has taken a lock moves the piece towards the start, so the
\* loop of mb_try_full_shift (mb.h:89-91) comes to an end.
ShiftPacks ==
  [][\A t \in Threads : pc[t] = "move" /\ pc'[t] = "idle" => paddr'[arg[t]] < paddr[arg[t]]]_vars

\* The block is a heap: the ranges behind addresses hold what was asked for and
\* never overlap, and they move or go only while nobody uses them (mb.h:9-96).
H == INSTANCE Heap WITH
       place <- [v \in {w \in Vaddrs : paddr[w] # Null} |->
                   [at |-> paddr[v], size |-> MpSize(paddr[v]) - Pad,
                    need |-> need[v]]],
       users <- [v \in Vaddrs |-> Users(v)]

ImplementsHeap == H!Spec
=============================================================================
