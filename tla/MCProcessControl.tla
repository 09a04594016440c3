--------------------------- MODULE MCProcessControl ---------------------------
(* ProcessControl on a few processes; the bounds are in the .cfg files.    *)
EXTENDS ProcessControl
=============================================================================
