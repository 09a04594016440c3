------------------------------ MODULE MCSemaphore ------------------------------
(* Instances of Semaphore for TLC: three processes, so that a request can    *)
(* find a larger and a smaller one parked before it.                         *)
EXTENDS Semaphore

CONSTANTS p1, p2, p3

MCProcs == {p1, p2, p3}
=============================================================================
