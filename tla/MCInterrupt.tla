------------------------------ MODULE MCInterrupt ------------------------------
(* Instances of Interrupt for TLC; the states need no bound.                 *)
EXTENDS Interrupt
=============================================================================
