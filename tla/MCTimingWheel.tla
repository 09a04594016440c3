---------------------------- MODULE MCTimingWheel ----------------------------
(* TimingWheel with a wheel of four slots in words of two bits.            *)
EXTENDS TimingWheel
CONSTANTS p1, p2
MCPids == {p1, p2}
=============================================================================
