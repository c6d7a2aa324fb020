---------------------------- MODULE ObjectSpace ----------------------------
(***************************************************************************)
(* What ms.h promises of a memory space: an object exists from the return  *)
(* of the call that has made it until it is given up and freed, it goes    *)
(* only after its owner has given it up, and never while somebody uses it. *)
(***************************************************************************)
CONSTANTS Threads, Vaddrs

VARIABLES
  object,  \* "none", "live", or "given up" and waiting to be freed
  users    \* the threads that have a lock on the object

Init ==
  /\ object = [v \in Vaddrs |-> "none"]
  /\ users = [v \in Vaddrs |-> {}]

Becomes(v, from, to) == object[v] = from /\ object' = [object EXCEPT ![v] = to]

Alloc(v, us) == Becomes(v, "none", "live") /\ users' = [users EXCEPT ![v] = us]

Use(v, us) == object[v] = "live" /\ users' = [users EXCEPT ![v] = us] /\ UNCHANGED object

GiveUp(v) == users[v] = {} /\ Becomes(v, "live", "given up") /\ UNCHANGED users

Free(v) == users[v] = {} /\ Becomes(v, "given up", "none") /\ UNCHANGED users

\* The space is deleted, with all that is in it.
Delete == users = [v \in Vaddrs |-> {}] /\ object' = [v \in Vaddrs |-> "none"] /\ UNCHANGED users

Next ==
  \/ \E v \in Vaddrs : \/ \E t \in Threads : Alloc(v, {}) \/ Alloc(v, {t})
                       \/ \E us \in SUBSET Threads : Use(v, us)
                       \/ GiveUp(v)
                       \/ Free(v)
  \/ Delete

Spec == Init /\ [][Next]_<<object, users>>
=============================================================================
