----------------------------- MODULE MCHostRestart -----------------------------
(* Three images of the host and a journal of two receipts.                 *)
EXTENDS HostRestart
=============================================================================
