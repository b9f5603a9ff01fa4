---------------------------- MODULE MCLogShipper ----------------------------
(* Small instance of LogShipper for TLC: a request holds two of the three  *)
(* entries the buffer can hold, the WAL two as well.                       *)
EXTENDS LogShipper
=============================================================================
