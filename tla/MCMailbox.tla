------------------------------- MODULE MCMailbox -------------------------------
(* Instances of Mailbox for TLC.                                            *)
EXTENDS Mailbox, TLC

CONSTANTS p1, p2, p3, p4

MC4Procs == {p1, p2, p3, p4}
Symmetry4 == Permutations(MC4Procs)
=============================================================================
