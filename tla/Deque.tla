------------------------------- MODULE Deque -------------------------------
(***************************************************************************)
(* What util_src/data.h promises of a broken collection: a sequence of     *)
(* cells with two ends, created empty and deleted as a whole.              *)
(***************************************************************************)
EXTENDS Naturals, Sequences

CONSTANTS
  Cell,   \* what a cell can hold
  None    \* no collection, or nothing popped yet

VARIABLES
  contents,  \* the cells in order, None when there is no collection
  dest       \* what the last call has written, None unless it was a pop

dequeVars == <<contents, dest>>

Init == contents = None /\ dest = None

New == contents = None /\ contents' = <<>> /\ dest' = None

Delete == contents # None /\ contents' = None /\ dest' = None

PushBack(v) == contents # None /\ contents' = Append(contents, v) /\ dest' = None

PushFront(v) == contents # None /\ contents' = <<v>> \o contents /\ dest' = None

PopBack ==
  /\ contents \notin {None, <<>>}
  /\ \E rest \in {SubSeq(contents, 1, Len(contents) - 1)} :
       contents' = rest /\ dest' = contents[Len(contents)]

PopFront ==
  /\ contents \notin {None, <<>>}
  /\ contents' = Tail(contents) /\ dest' = Head(contents)

Next ==
  \/ New \/ Delete \/ PopBack \/ PopFront
  \/ \E v \in Cell : PushBack(v) \/ PushFront(v)

Spec == Init /\ [][Next]_dequeVars
============================================================================
