---------------------------- MODULE MCMemBlock ----------------------------
(* Small instances of MemBlock.                                            *)
EXTENDS MemBlock, TLC

Symmetry == Permutations(Threads) \cup Permutations(Vaddrs)
===========================================================================
