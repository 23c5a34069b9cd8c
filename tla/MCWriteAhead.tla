---------------------------- MODULE MCWriteAhead ----------------------------
(* Small instances of WriteAhead.                                          *)
EXTENDS WriteAhead
=============================================================================
