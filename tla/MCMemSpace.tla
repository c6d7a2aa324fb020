----------------------------- MODULE MCMemSpace -----------------------------
(* A small memory space.                                                   *)
EXTENDS MemSpace, TLC

Swap == Permutations(Threads)
=============================================================================
