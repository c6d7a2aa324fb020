------------------------------- MODULE Heap -------------------------------
(***************************************************************************)
(* What mb.h:9-96 promises of a memory block: every address in use has a  *)
(* range of the block to itself with the bytes asked for, and it moves,    *)
(* towards the start of the block, or goes only while nobody uses it.      *)
(***************************************************************************)
EXTENDS Naturals

CONSTANTS Threads, Vaddrs, Cap

VARIABLES
  place,   \* the range behind each address that is in use
  users    \* who has an address locked

Ranges == {r \in [at : 0..Cap, size : 1..Cap, need : 1..Cap] : r.need <= r.size}

Apart(r, s) == r.at + r.size <= s.at \/ s.at + s.size <= r.at

Fits(r, others) ==
  /\ r \in Ranges
  /\ r.at + r.size <= Cap
  /\ \A v \in others : Apart(r, place[v])

Init ==
  /\ place = [v \in {} |-> 0]
  /\ users = [v \in Vaddrs |-> {}]

Alloc(v, us) ==
  /\ v \notin DOMAIN place
  /\ DOMAIN place' = DOMAIN place \cup {v}
  /\ \A w \in DOMAIN place : place'[w] = place[w]
  /\ Fits(place'[v], DOMAIN place)
  /\ users' = [users EXCEPT ![v] = us]

Lock(t, v) ==
  /\ v \in DOMAIN place
  /\ users' = [users EXCEPT ![v] = @ \cup {t}]
  /\ UNCHANGED place

Unlock(t, v) ==
  /\ users' = [users EXCEPT ![v] = @ \ {t}]
  /\ UNCHANGED place

Move(v) ==
  /\ v \in DOMAIN place
  /\ users[v] = {}
  /\ DOMAIN place' = DOMAIN place
  /\ \A w \in DOMAIN place \ {v} : place'[w] = place[w]
  /\ place'[v] = [place[v] EXCEPT !.at = place'[v].at]
  /\ place'[v].at < place[v].at
  /\ Fits(place'[v], DOMAIN place \ {v})
  /\ UNCHANGED users

\* One address is given back; all are when the block is deleted.
Free(vs) ==
  /\ \A v \in vs : users[v] = {}
  /\ place' = [v \in DOMAIN place \ vs |-> place[v]]
  /\ UNCHANGED users

Next ==
  \/ \E v \in Vaddrs : \/ \E us \in {{}} \cup {{t} : t \in Threads} : Alloc(v, us)
                       \/ \E t \in Threads : Lock(t, v) \/ Unlock(t, v)
                       \/ Move(v)
                       \/ Free({v})
  \/ Free(DOMAIN place)

Spec == Init /\ [][Next]_<<place, users>>
=============================================================================
