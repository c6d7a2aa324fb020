------------------------------ MODULE MemSpace ------------------------------
(***************************************************************************)
(* The memory space of gc_src/ms.c: a list of memory blocks that only      *)
(* grows, from which ms_malloc_p tries some at random before it makes one  *)
(* of its own.  The first word of an object is the block it lies in, for   *)
(* ms_free to find it by.                                                  *)
(*                                                                         *)
(* A block does what Heap says.  What is left of it is which objects lie   *)
(* in it and how many bytes they take: a block with no object serves every *)
(* request it is large enough for (its free pieces are one), another may   *)
(* be too fragmented.  ms_try_full_shift moves objects within their block, *)
(* which changes nothing here (MemBlock has it); ms_foreach and ms_count   *)
(* walk as ms_filter does.                                                 *)
(***************************************************************************)
EXTENDS Naturals, FiniteSets, SequencesExt, FiniteSetsExt

CONSTANTS
  Threads,     \* the callers
  Vaddrs,      \* 1..n: the cells of the address book in the order of a walk
  Blocks,      \* 1..n: the memory blocks there can be; a bound
  MbMinBytes,  \* mb_min_bytes
  Requests,    \* min_bytes of the calls of ms_malloc_p
  Header,      \* sizeof(mem_space_malloc_header)
  Pad,         \* MAP_PADDING of mb.c
  SearchDiv,   \* SEARCH_DIV, 3 in the code; smaller for more throws
  MaxLocks,    \* bound: objects a caller has locked at a time
  Nobody, Null

ASSUME MemSpaceAssumption ==
  /\ IsFiniteSet(Vaddrs) /\ Vaddrs = 1..Cardinality(Vaddrs)
  /\ IsFiniteSet(Blocks) /\ Blocks = 1..Cardinality(Blocks) /\ Blocks # {}
  /\ MbMinBytes \in Nat \ {0} /\ Requests \subseteq Nat
  /\ Header \in Nat \ {0} /\ Pad \in Nat /\ SearchDiv \in Nat \ {0} /\ MaxLocks \in Nat
  /\ Nobody \notin Threads /\ Null \notin Nat

VARIABLES
  mbList, mbCap,    \* mb_list, mb_list_cap
  room,             \* the bytes of a block, 0 for one that is not made yet
  place,            \* the block an address lies in, Null for a free address
  size,             \* the bytes of its piece
  header,           \* the mb of its header, Null for anything that was there before
  writer, readers,  \* the locks on the addresses
  handles,          \* the addresses callers have
  garbage,          \* the addresses given up for ms_filter to find
  pc,               \* where a thread is in a call
  want, hold, throws, mb, arg,     \* padded_bytes, hold, the throws left, mb, vaddr there
  sweeper, cell, removeStack       \* who is in ms_filter, how far it is, remove_stack

listVars == <<mbList, mbCap>>
bookVars == <<place, size, header>>
lockVars == <<writer, readers>>
callerVars == <<handles, garbage>>
callVars == <<pc, want, hold, throws, mb, arg>>
filterVars == <<sweeper, cell, removeStack>>
vars == <<listVars, room, bookVars, lockVars, callerVars, callVars, filterVars>>

\* pad_num_bytes of mb.c
PadNumBytes(n) == Max({n + (n % 2) + Pad, Pad + 2})

ObjectsIn(b) == {v \in Vaddrs : place[v] = b}
UsedIn(b) == MapThenSumSet(LAMBDA v : size[v], ObjectsIn(b))

Fits(b, n) == UsedIn(b) + PadNumBytes(n) <= room[b]

\* new_mem_space_seed: one block.
Init ==
  /\ mbList = <<1>> /\ mbCap = 2
  /\ room = [b \in Blocks |-> IF b = 1 THEN PadNumBytes(MbMinBytes) ELSE 0]
  /\ place = [v \in Vaddrs |-> Null]
  /\ size = [v \in Vaddrs |-> 0]
  /\ header = [v \in Vaddrs |-> Null]
  /\ writer = [v \in Vaddrs |-> Nobody]
  /\ readers = [v \in Vaddrs |-> {}]
  /\ handles = {} /\ garbage = {}
  /\ pc = [t \in Threads |-> "idle"]
  /\ want = [t \in Threads |-> 0]
  /\ hold = [t \in Threads |-> FALSE]
  /\ throws = [t \in Threads |-> 0]
  /\ mb = [t \in Threads |-> Null]
  /\ arg = [t \in Threads |-> Null]
  /\ sweeper = Nobody /\ cell = 0 /\ removeStack = <<>>

Goto(t, label) == pc' = [pc EXCEPT ![t] = label]

\* The call is over, and what it worked with is forgotten.
Return(t) ==
  /\ Goto(t, "idle")
  /\ want' = [want EXCEPT ![t] = 0]
  /\ hold' = [hold EXCEPT ![t] = FALSE]
  /\ throws' = [throws EXCEPT ![t] = 0]
  /\ mb' = [mb EXCEPT ![t] = Null]
  /\ arg' = [arg EXCEPT ![t] = Null]

WriteFree(v) == writer[v] = Nobody /\ readers[v] = {}
Locked(t) == {v \in Vaddrs : writer[v] = t \/ t \in readers[v]}

\* A caller that is in no call and may lock another object.
MayLock(t) == pc[t] = "idle" /\ Cardinality(Locked(t)) < MaxLocks

-----------------------------------------------------------------------------
(***************************************************************************)
(* ms_malloc_p.  A request of no bytes changes nothing.                    *)
(***************************************************************************)
MallocCall(t, n, h) ==
  /\ pc[t] = "idle" /\ n # 0
  /\ h => MayLock(t)
  /\ want' = [want EXCEPT ![t] = n + Header]
  /\ hold' = [hold EXCEPT ![t] = h]
  /\ throws' = [throws EXCEPT ![t] = Max({1, Len(mbList) \div SearchDiv})]
  /\ Goto(t, "throw")
  /\ UNCHANGED <<listVars, room, bookVars, lockVars, callerVars, mb, arg, filterVars>>

\* The free address v gets a piece of block b; its header is not written yet.
Place(t, v, b, owner) ==
  /\ place[v] = Null
  /\ place' = [place EXCEPT ![v] = b]
  /\ size' = [size EXCEPT ![v] = PadNumBytes(want[t])]
  /\ writer' = [writer EXCEPT ![v] = owner]
  /\ arg' = [arg EXCEPT ![t] = v]
  /\ UNCHANGED <<header, readers>>

\* Mutant of Throw: mb_malloc, which does not hold the new object.
ThrowNoHold(t) ==
  /\ pc[t] = "throw"
  /\ \E b \in ToSet(mbList) :
       /\ Fits(b, want[t])
       /\ mb' = [mb EXCEPT ![t] = b]
       /\ \E v \in Vaddrs : Place(t, v, b, Nobody)
  /\ Goto(t, "header")
  /\ UNCHANGED <<listVars, room, callerVars, want, hold, throws, filterVars>>

\* mb_malloc_and_hold in whichever block the dart hits; if it fails, another
\* throw or a new block.  (A block never leaves the list, so that the lock of
\* the list may as well be kept in between.)
Throw(t) ==
  /\ pc[t] = "throw"
  /\ \E b \in ToSet(mbList) :
       \/ /\ Fits(b, want[t])
          /\ mb' = [mb EXCEPT ![t] = b]
          /\ \E v \in Vaddrs : Place(t, v, b, t)
          /\ Goto(t, "header")
          /\ UNCHANGED throws
       \/ /\ ~Fits(b, want[t]) \/ ObjectsIn(b) # {}
          /\ throws' = [throws EXCEPT ![t] = @ - 1]
          /\ Goto(t, IF throws[t] > 1 THEN "throw" ELSE "new block")
          /\ UNCHANGED <<bookVars, lockVars, mb, arg>>
  /\ UNCHANGED <<listVars, room, callerVars, want, hold, filterVars>>

\* Mutant of ReqBytes: every block has the default size.
ReqBytesDefault(n) == MbMinBytes

ReqBytes(n) == Max({n, MbMinBytes})

Unmade == {b \in Blocks : room[b] = 0}

\* new_mem_block and mb_malloc_and_hold in it.  Were there no room the header
\* would be written through NULL.
NewBlock(t) ==
  /\ pc[t] = "new block"
  /\ Unmade # {}
  /\ LET b == Min(Unmade)
         bytes == PadNumBytes(ReqBytes(want[t]))
     IN /\ room' = [room EXCEPT ![b] = bytes]
        /\ mb' = [mb EXCEPT ![t] = b]
        /\ \E v \in Vaddrs : Place(t, v, b, t)
        /\ Goto(t, IF PadNumBytes(want[t]) <= bytes THEN "new header" ELSE "crashed")
  /\ UNCHANGED <<listVars, callerVars, want, hold, throws, filterVars>>

\* ms_interpret_malloc_res, and the return if the block was on the list.
WriteHeader(t) ==
  /\ pc[t] \in {"header", "new header"}
  /\ header' = [header EXCEPT ![arg[t]] = mb[t]]
  /\ writer' = IF hold[t] THEN writer ELSE [writer EXCEPT ![arg[t]] = Nobody]
  /\ IF pc[t] = "header"
       THEN Return(t) /\ handles' = handles \cup {arg[t]}
       ELSE Goto(t, "add block") /\ UNCHANGED <<handles, want, hold, throws, mb, arg>>
  /\ UNCHANGED <<listVars, room, place, size, readers, garbage, filterVars>>

\* Mutant of AddBlock: the block is written over the last one.
AddBlockOver(t) ==
  /\ pc[t] = "add block"
  /\ mbCap' = IF Len(mbList) = mbCap THEN 2 * mbCap ELSE mbCap
  /\ mbList' = [mbList EXCEPT ![Len(mbList)] = mb[t]]
  /\ handles' = handles \cup {arg[t]}
  /\ Return(t)
  /\ UNCHANGED <<room, bookVars, lockVars, garbage, filterVars>>

AddBlock(t) ==
  /\ pc[t] = "add block"
  /\ mbCap' = IF Len(mbList) = mbCap THEN 2 * mbCap ELSE mbCap
  /\ mbList' = Append(mbList, mb[t])
  /\ handles' = handles \cup {arg[t]}
  /\ Return(t)
  /\ UNCHANGED <<room, bookVars, lockVars, garbage, filterVars>>

-----------------------------------------------------------------------------
(***************************************************************************)
(* ms_free and ms_filter.                                                  *)
(***************************************************************************)
\* A caller frees an object it has not given up and nobody uses.
FreeCall(t, v) ==
  /\ pc[t] = "idle"
  /\ v \in handles /\ WriteFree(v)
  /\ handles' = handles \ {v}
  /\ arg' = [arg EXCEPT ![t] = v]
  /\ Goto(t, "read header")
  /\ UNCHANGED <<listVars, room, bookVars, lockVars, garbage, want, hold, throws, mb, filterVars>>

\* adb_get_read waits for a writer.
ReadHeader(t) ==
  /\ pc[t] = "read header"
  /\ writer[arg[t]] = Nobody
  /\ mb' = [mb EXCEPT ![t] = header[arg[t]]]
  /\ Goto(t, "free")
  /\ UNCHANGED <<listVars, room, bookVars, lockVars, callerVars, want, hold, throws, arg, filterVars>>

\* mb_free; ms_filter goes on with the next address on its stack.
MbFree(t) ==
  /\ pc[t] = "free"
  /\ WriteFree(arg[t])
  /\ place' = [place EXCEPT ![arg[t]] = Null]
  /\ size' = [size EXCEPT ![arg[t]] = 0]
  /\ header' = [header EXCEPT ![arg[t]] = Null]
  /\ garbage' = garbage \ {arg[t]}
  /\ mb' = [mb EXCEPT ![t] = Null]
  /\ arg' = [arg EXCEPT ![t] = Null]
  /\ Goto(t, IF sweeper = t THEN "pop" ELSE "idle")
  /\ UNCHANGED <<listVars, room, lockVars, handles, want, hold, throws, filterVars>>

\* A caller leaves an object nobody uses to ms_filter, as its predicate sees.
GiveUp(v) ==
  /\ v \in handles /\ WriteFree(v)
  /\ handles' = handles \ {v}
  /\ garbage' = garbage \cup {v}
  /\ UNCHANGED <<listVars, room, bookVars, lockVars, callVars, filterVars>>

\* Two filters at a time would free an address twice ("it doesn't really make
\* sense to call them in parallel", ms.h:50): the callers keep to that.  Any
\* other call may run beside one, as it does beside the collector.
FilterCall(t) ==
  /\ pc[t] = "idle" /\ sweeper = Nobody /\ Locked(t) = {}
  /\ sweeper' = t /\ cell' = 1
  /\ Goto(t, "filter")
  /\ UNCHANGED <<listVars, room, bookVars, lockVars, callerVars, want, hold, throws, mb, arg, removeStack>>

\* Mutant of Rejected: the predicate is taken the wrong way round.
RejectedKept(v) == v \notin garbage

\* What the predicate of ms_filter returns 0 for.
Rejected(v) == v \in garbage

\* One cell of the book; the lock of one in use is waited for.
FilterCell(t) ==
  /\ pc[t] = "filter" /\ cell \in Vaddrs
  /\ place[cell] # Null => writer[cell] = Nobody
  /\ removeStack' = IF place[cell] # Null /\ Rejected(cell) THEN Append(removeStack, cell) ELSE removeStack
  /\ cell' = cell + 1
  /\ UNCHANGED <<listVars, room, bookVars, lockVars, callerVars, callVars, sweeper>>

FilterWalked(t) ==
  /\ pc[t] = "filter" /\ cell \notin Vaddrs
  /\ Goto(t, "pop")
  /\ cell' = 0
  /\ UNCHANGED <<listVars, room, bookVars, lockVars, callerVars, want, hold, throws, mb, arg, sweeper, removeStack>>

FilterPop(t) ==
  /\ pc[t] = "pop" /\ removeStack # <<>>
  /\ arg' = [arg EXCEPT ![t] = Last(removeStack)]
  /\ removeStack' = Front(removeStack)
  /\ Goto(t, "read header")
  /\ UNCHANGED <<listVars, room, bookVars, lockVars, callerVars, want, hold, throws, mb, sweeper, cell>>

FilterReturn(t) ==
  /\ pc[t] = "pop" /\ removeStack = <<>>
  /\ Goto(t, "idle")
  /\ sweeper' = Nobody
  /\ UNCHANGED <<listVars, room, bookVars, lockVars, callerVars, want, hold, throws, mb, arg, cell, removeStack>>

-----------------------------------------------------------------------------
(***************************************************************************)
(* The users of the objects, and the end of the space.                     *)
(***************************************************************************)
GetWrite(t, v) ==
  /\ MayLock(t) /\ v \in handles /\ WriteFree(v)
  /\ writer' = [writer EXCEPT ![v] = t]
  /\ UNCHANGED <<listVars, room, bookVars, readers, callerVars, callVars, filterVars>>

GetRead(t, v) ==
  /\ MayLock(t) /\ v \in handles /\ writer[v] = Nobody
  /\ readers' = [readers EXCEPT ![v] = @ \cup {t}]
  /\ UNCHANGED <<listVars, room, bookVars, writer, callerVars, callVars, filterVars>>

Unlock(t, v) ==
  /\ pc[t] = "idle" /\ v \in Locked(t)
  /\ writer' = [writer EXCEPT ![v] = Nobody]
  /\ readers' = [readers EXCEPT ![v] = @ \ {t}]
  /\ UNCHANGED <<listVars, room, bookVars, callerVars, callVars, filterVars>>

\* delete_mem_space, which no other call runs beside, gives back what lies in
\* the blocks on the list; then a new space.
Renew ==
  /\ \A t \in Threads : pc[t] = "idle"
  /\ \A v \in Vaddrs : WriteFree(v)
  /\ place' = [v \in Vaddrs |-> IF place[v] \in ToSet(mbList) THEN Null ELSE place[v]]
  /\ size' = [v \in Vaddrs |-> IF place'[v] = Null THEN 0 ELSE size[v]]
  /\ header' = [v \in Vaddrs |-> Null]
  /\ mbList' = <<1>> /\ mbCap' = 2
  /\ room' = [b \in Blocks |-> IF b = 1 THEN PadNumBytes(MbMinBytes) ELSE 0]
  /\ handles' = {} /\ garbage' = {}
  /\ UNCHANGED <<lockVars, callVars, filterVars>>

Next ==
  \/ \E t \in Threads :
       \/ \E n \in Requests, h \in BOOLEAN : MallocCall(t, n, h)
       \/ Throw(t) \/ NewBlock(t) \/ WriteHeader(t) \/ AddBlock(t)
       \/ ReadHeader(t) \/ MbFree(t)
       \/ FilterCall(t) \/ FilterCell(t) \/ FilterWalked(t) \/ FilterPop(t) \/ FilterReturn(t)
       \/ \E v \in Vaddrs : FreeCall(t, v) \/ GetWrite(t, v) \/ GetRead(t, v) \/ Unlock(t, v)
  \/ \E v \in Vaddrs : GiveUp(v)
  \/ Renew

Spec == Init /\ [][Next]_vars

-----------------------------------------------------------------------------
(***************************************************************************)
(* Properties.                                                             *)
(***************************************************************************)
\* Whoever gets the lock of an object in use finds the block it lies in in its
\* header, although an object can be found in the book from the moment its
\* block has made it; so ms_free only frees in the right block.
HeadersAreTrue ==
  /\ \A v \in Vaddrs : place[v] # Null /\ writer[v] = Nobody => header[v] = place[v]
  /\ \A t \in Threads : pc[t] = "free" => place[arg[t]] # Null /\ mb[t] = place[arg[t]]

\* A block is on the list once, or is being filled by one call that will put it
\* there; the list fits its buffer; and the first malloc in a new block never
\* fails ("this malloc should always work!", ms.c:190).
BlocksAreListed ==
  LET filling(b) == {t \in Threads : mb[t] = b /\ pc[t] \in {"new header", "add block"}}
      listed(b) == {i \in DOMAIN mbList : mbList[i] = b}
  IN /\ \A b \in Blocks : room[b] # 0 => Cardinality(listed(b)) + Cardinality(filling(b)) = 1
     /\ \A v \in Vaddrs : place[v] # Null => room[place[v]] # 0
     /\ Len(mbList) <= mbCap
     /\ \A t \in Threads : pc[t] # "crashed"

\* A memory space is an ObjectSpace: an object that a call of ms_malloc_p has
\* returned goes only by the ms_free or the ms_filter it was given up to.
BeingFreed == garbage \cup {arg[t] : t \in {u \in Threads : pc[u] \in {"read header", "free"}}}

Space ==
  INSTANCE ObjectSpace WITH
    object <- [v \in Vaddrs |-> CASE v \in handles -> "live"
                                  [] v \in BeingFreed -> "given up"
                                  [] OTHER -> "none"],
    users <- [v \in Vaddrs |-> IF v \in handles
                                 THEN readers[v] \cup ({writer[v]} \ {Nobody}) ELSE {}]

ImplementsObjectSpace == Space!Spec
=============================================================================
