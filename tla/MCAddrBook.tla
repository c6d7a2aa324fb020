---------------------------- MODULE MCAddrBook ----------------------------
(* Small instances of AddrBook.                                          *)
EXTENDS AddrBook
===========================================================================
