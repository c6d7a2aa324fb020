--------------------------- MODULE MCCollector ---------------------------
(* Small instances of Collector: the .cfg files pick the freedom the     *)
(* mutators have.                                                        *)
EXTENDS Collector, TLC

Threads == Permutations(Mutators)
==========================================================================
