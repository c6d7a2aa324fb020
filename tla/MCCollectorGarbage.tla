------------------------ MODULE MCCollectorGarbage ------------------------
(* Small instances of CollectorGarbage.                                  *)
EXTENDS CollectorGarbage
===========================================================================
