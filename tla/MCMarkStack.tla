---------------------------- MODULE MCMarkStack ----------------------------
(* Small instances of MarkStack.                                           *)
EXTENDS MarkStack, TLC

Swap == Permutations(Addrs)
============================================================================
