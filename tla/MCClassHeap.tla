------------------------------ MODULE MCClassHeap ------------------------------
(* ClassHeap with a few objects and messages; the bounds are in the .cfg   *)
(* file.                                                                   *)
EXTENDS ClassHeap
=============================================================================
