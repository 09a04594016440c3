------------------------------- MODULE MCFstFile -------------------------------
(* Instances of FstFile for TLC: heads of three bytes and pages of eight, so  *)
(* that terminators, bodies and pads all meet page boundaries.                *)
EXTENDS FstFile
=============================================================================
