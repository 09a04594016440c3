----------------------------- MODULE MCCheckpoint -----------------------------
(* Instances of Checkpoint for TLC: processes and assignments without files,  *)
(* and files without them.                                                    *)
EXTENDS Checkpoint

Suspends == [procs |-> {1, 2}, does |-> {"suspend"}, modes |-> {}, last |-> 2]
Assigns  == [procs |-> {1}, does |-> {"fast", "slow"}, modes |-> {}, last |-> 3]
AssignsLate == [procs |-> {1}, does |-> {"slow"}, modes |-> {}, last |-> 4]
Writes   == [procs |-> {1}, does |-> {"files"}, modes |-> {"w", "a", "r+"}, last |-> 3]
CallsC   == [procs |-> {1}, does |-> {"dpi"}, modes |-> {}, last |-> 3]
MCDesigns == {Suspends, Assigns, AssignsLate, Writes, CallsC}

MCSaveAts == {NoTime, 1}
=============================================================================
