----------------------------- MODULE MCNonBlocking -----------------------------
(* Instances of NonBlocking for TLC: a signal for each of two edge blocks, or a  *)
(* signal that both assign.                                                    *)
EXTENDS NonBlocking, TLC

CONSTANTS s1, s2, b1, b2

NoBlock == [b \in {b1, b2} |-> {}]
OneEach == (b1 :> {s1}) @@ (b2 :> {s2})
Shared  == (b1 :> {s1, s2}) @@ (b2 :> {s1, s2})

AtOnce == {"compiled", "dyn", "statement", "blocking", "queue"}
MCDesigns ==
    [layout : {OneEach}, forms : {AtOnce}, limit : {3}, last : {0}]
    \cup [layout : {Shared}, forms : {{"compiled"}}, limit : {3}, last : {0}]
    \cup [layout : {NoBlock}, forms : {{"compiled", "delayed"}}, limit : {2}, last : {1}]
    \cup [layout : {NoBlock}, forms : {{"delayed", "delayedQueue"}}, limit : {2}, last : {2}]
=============================================================================
