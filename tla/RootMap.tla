------------------------------ MODULE RootMap ------------------------------
(***************************************************************************)
(* What gc_src/cs.h promises of roots: identifiers stand for addresses     *)
(* from cs_root to cs_deroot, and an identifier in use is not given out.   *)
(***************************************************************************)
CONSTANTS Ids, Addrs, NoAddr

VARIABLE rooted  \* the address each identifier stands for, or NoAddr

Init == rooted = [id \in Ids |-> NoAddr]

Root(v) == \E id \in Ids : rooted[id] = NoAddr /\ rooted' = [rooted EXCEPT ![id] = v]

Deroot(id) == rooted[id] # NoAddr /\ rooted' = [rooted EXCEPT ![id] = NoAddr]

Next == (\E v \in Addrs : Root(v)) \/ (\E id \in Ids : Deroot(id))

Spec == Init /\ [][Next]_rooted
============================================================================
