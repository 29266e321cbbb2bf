-------------------------- MODULE MCScheduleLedger --------------------------
(***************************************************************************)
(* One schedule declared (overlap skip), fired at most twice, by the clock *)
(* of the one resident host and by hand.                                   *)
(***************************************************************************)
EXTENDS ScheduleLedger

CONSTANT report

MCFor == [r \in Run |-> report]
=============================================================================
