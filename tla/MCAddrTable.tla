--------------------------- MODULE MCAddrTable ---------------------------
(* Small instances of AddrTable.                                         *)
EXTENDS AddrTable
==========================================================================
