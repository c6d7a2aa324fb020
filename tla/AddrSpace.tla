----------------------------- MODULE AddrSpace -----------------------------
(***************************************************************************)
(* What virt.h:58-141 promises of a table of virtual addresses: a put      *)
(* returns an address nobody has, with what was put behind it; memory      *)
(* moves only under callers that do not use it, and an address is taken    *)
(* back only when nobody does.                                             *)
(***************************************************************************)
CONSTANTS Threads, Addrs, Blocks, NoBlock

VARIABLES
  mem,     \* the memory behind each address that is in use
  asked,   \* what a thread has asked to put and not got an address for
  users    \* who has an address locked

Init ==
  /\ mem = [a \in {} |-> NoBlock]
  /\ asked = [t \in Threads |-> NoBlock]
  /\ users = [a \in Addrs |-> {}]

Ask(t, p) ==
  /\ asked[t] = NoBlock
  /\ asked' = [asked EXCEPT ![t] = p]
  /\ UNCHANGED <<mem, users>>

Map(t, a, hold) ==
  /\ asked[t] # NoBlock
  /\ a \notin DOMAIN mem
  /\ mem' = [b \in DOMAIN mem \cup {a} |-> IF b = a THEN asked[t] ELSE mem[b]]
  /\ asked' = [asked EXCEPT ![t] = NoBlock]
  /\ users' = [users EXCEPT ![a] = IF hold THEN {t} ELSE {}]

Lock(t, a) ==
  /\ a \in DOMAIN mem
  /\ users' = [users EXCEPT ![a] = @ \cup {t}]
  /\ UNCHANGED <<mem, asked>>

Unlock(t, a) ==
  /\ users' = [users EXCEPT ![a] = @ \ {t}]
  /\ UNCHANGED <<mem, asked>>

Remap(t, a, p) ==
  /\ a \in DOMAIN mem
  /\ users[a] \subseteq {t}
  /\ mem' = [mem EXCEPT ![a] = p]
  /\ UNCHANGED <<asked, users>>

Unmap(a) ==
  /\ a \in DOMAIN mem
  /\ users[a] = {}
  /\ mem' = [b \in DOMAIN mem \ {a} |-> mem[b]]
  /\ UNCHANGED <<asked, users>>

Next ==
  \/ \E t \in Threads, p \in Blocks : Ask(t, p)
  \/ \E t \in Threads, a \in Addrs : \/ \E hold \in BOOLEAN : Map(t, a, hold)
                                     \/ Lock(t, a)
                                     \/ Unlock(t, a)
                                     \/ \E p \in Blocks : Remap(t, a, p)
  \/ \E a \in Addrs : Unmap(a)

Spec == Init /\ [][Next]_<<mem, asked, users>>
=============================================================================
