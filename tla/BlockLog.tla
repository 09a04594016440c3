------------------------------- MODULE BlockLog -------------------------------
(***************************************************************************)
(* What the dump file of a running simulation promises whoever opens it    *)
(* after the run died: it holds whole value-change blocks, in the order    *)
(* they were produced, with none missing between two that are there, and   *)
(* what it once held it keeps.  FstFile.tla is the code and implements it. *)
(***************************************************************************)
EXTENDS Naturals, Sequences

CONSTANTS MaxBlocks  \* bound: blocks of the model

VARIABLES produced,  \* how many blocks the dump writer has finished
          log,       \* the blocks a reader of the file finds
          alive      \* whether the process still runs

vars == <<produced, log, alive>>

FirstBlocks(n) == [i \in 1 .. n |-> i]

Init == /\ produced = 0
        /\ log = <<>>
        /\ alive = TRUE

Produce == /\ alive
           /\ produced' = produced + 1
           /\ UNCHANGED <<log, alive>>

\* The blocks not yet in the file become readable, all at once.
Commit == /\ alive
          /\ log' = FirstBlocks(produced)
          /\ UNCHANGED <<produced, alive>>

\* A kill may fall just after the last byte that commits.
Kill == /\ alive
        /\ alive' = FALSE
        /\ log' \in {log, FirstBlocks(produced)}
        /\ UNCHANGED produced

Next == Produce \/ Commit \/ Kill

Spec == Init /\ [][Next]_vars
=============================================================================
