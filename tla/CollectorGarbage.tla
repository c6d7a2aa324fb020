------------------------- MODULE CollectorGarbage -------------------------
(* Collector with a history variable, for what cs.c:36-39 promises about *)
(* one whole collection.                                                 *)
EXTENDS Collector

VARIABLE dead   \* what was garbage when the current collection began

GInit == Init /\ dead = {}

GNext ==
  /\ Next
  /\ dead' = CASE gcPc = "idle" /\ gcPc' = "white" -> Garbage
               [] gcPc' = "free"                   -> {}
               [] OTHER                            -> dead

GSpec == GInit /\ [][GNext]_<<vars, dead>>

\* The second guarantee (cs.c:38-39): what was garbage before paint white
\* began is still unvisited when marking ends, so this sweep frees all of it.
GarbageIsUnvisited ==
  gcPc = "filter" => \A o \in dead : status[o] = "unvisited"
===========================================================================
