---------------------------- MODULE MCGcWorker ----------------------------
(* Small instances of GcWorker.                                          *)
EXTENDS GcWorker
===========================================================================
