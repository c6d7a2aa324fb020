------------------------------ MODULE MCChunit ------------------------------
(* Two suites of one test; a "long" message does not fit in the pipe. *)
EXTENDS Chunit

MCSuiteSizes == <<1, 1>>

MCWords == [bare |-> 0, pair |-> 1, long |-> 2]

MCKinds == DOMAIN MCWords
=============================================================================
