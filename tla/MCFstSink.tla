------------------------------- MODULE MCFstSink -------------------------------
(* Instances of FstSink for TLC: a batch of three, so that a slot's changes can  *)
(* be split over two batches.                                                  *)
EXTENDS FstSink
=============================================================================
