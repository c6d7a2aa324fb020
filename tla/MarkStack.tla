----------------------------- MODULE MarkStack -----------------------------
(***************************************************************************)
(* The roots and the stack of grey objects of a collected space together:  *)
(* a collection copies the root set onto in_progress_stack, a broken       *)
(* collection, with root_set_lock held to read and                         *)
(* in_progress_stack_lock held, while the threads root, deroot and push.   *)
(***************************************************************************)
EXTENDS BrokenCollection, RootSet

VARIABLES
  pushing,  \* where the collection is: "no", "roots" with root_set_lock, "stack" with both
  cursor,   \* root_i
  base      \* history: the stack when the copying began

vars == <<bcVars, rootVars, pushing, cursor, base>>

ASSUME MarkStackAssumption == Addrs = Cell

Init ==
  /\ BcInit /\ RootInit
  /\ pushing = "no" /\ cursor = 0 /\ base = <<>>

\* cs_root, cs_deroot: they write, so they wait for root_set_lock.
RootCall ==
  /\ pushing = "no"
  /\ \/ \E v \in Addrs : Root(v)
     \/ \E id \in Ids : Deroot(id)
  /\ UNCHANGED <<bcVars, pushing, cursor, base>>

\* The users of the collection: cs_visit_obj pushes, the marker pops.  The
\* collector uses the back only; the front is there for the other callers.
StackCall ==
  /\ pushing # "stack"
  /\ \/ \E del \in BOOLEAN : NewCollection(del)
     \/ pushing = "no" /\ DeleteCollection
     \/ \E v \in Cell : RoomFor(1) /\ exists /\ PushBack(v)
     \/ \E v \in Cell : PushFront(v)
     \/ PopBack \/ PopFront
  /\ UNCHANGED <<rootVars, pushing, cursor, base>>

\* The identifiers in use below n, and how many there are.
RootsBelow(n) == {id \in Ids : id < n /\ rootSet[id].allocated}

BeginPush ==
  /\ pushing = "no" /\ exists
  /\ pushing' = "roots"
  /\ UNCHANGED <<bcVars, rootVars, cursor, base>>

LockStack ==
  /\ pushing = "roots"
  /\ RoomFor(Cardinality(RootsBelow(rootCap)))
  /\ pushing' = "stack" /\ cursor' = 0 /\ base' = Contents
  /\ UNCHANGED <<bcVars, rootVars>>

\* Mutant of PushRoot: free entries are pushed as well.
PushEntry ==
  /\ pushing = "stack" /\ cursor < rootCap
  /\ PushBack(rootSet[cursor].word)
  /\ cursor' = cursor + 1
  /\ UNCHANGED <<rootVars, pushing, base>>

PushRoot ==
  /\ pushing = "stack" /\ cursor < rootCap
  /\ IF rootSet[cursor].allocated THEN PushBack(rootSet[cursor].word) ELSE UNCHANGED bcVars
  /\ cursor' = cursor + 1
  /\ UNCHANGED <<rootVars, pushing, base>>

EndPush ==
  /\ pushing = "stack" /\ cursor = rootCap
  /\ pushing' = "no" /\ cursor' = 0 /\ base' = <<>>
  /\ UNCHANGED <<bcVars, rootVars>>

Next == RootCall \/ StackCall \/ BeginPush \/ LockStack \/ PushRoot \/ EndPush

Spec == Init /\ [][Next]_vars

-----------------------------------------------------------------------------
(***************************************************************************)
(* Properties.                                                             *)
(***************************************************************************)
\* The addresses of the entries below n, in order.
RootAddrs ==
  LET below[n \in 0..MaxRoots] ==
        IF n = 0 THEN <<>>
        ELSE below[n - 1] \o (IF rootSet[n - 1].allocated THEN <<rootSet[n - 1].word>> ELSE <<>>)
  IN below[cursor]

\* While the roots are copied ("the roots at this point in time will be the
\* only roots considered", cs.c:609) the stack is what it was, followed by the
\* address of every root passed: none is skipped, none is added or taken by
\* another thread, whatever tables the pushes start.
RootsArePushed == pushing = "stack" => Contents = base \o RootAddrs

\* The broken collection is a deque.
ImplementsDeque == Deq!Spec

\* The root set is a partial function from identifiers to addresses.
ImplementsRootMap == Map!Spec
=============================================================================
