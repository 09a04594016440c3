------------------------------ MODULE MCTimeSlot ------------------------------
EXTENDS TimeSlot, TLC

Wide == [effects     |-> {"write", "nba", "fire", "trigger", "fork"},
         places      |-> AllPlaces \ {"prop"},
         programs    |-> {},
         children    |-> {3},
         watched     |-> TRUE,
         interpreted |-> TRUE,
         stallLimit  |-> 0,
         runs        |-> 3]

\* A program block, compiled writes and deferred reports
Program == [Wide EXCEPT !.effects = {"none", "write", "nba", "fork", "assert"},
                        !.places = AllPlaces \ {"ev", "hop", "prop"},
                        !.programs = {2},
                        !.watched = FALSE,
                        !.interpreted = FALSE]

\* Program processes that fork each other, each in a tick of its own, under a limit of
\* one tick
Livelock == [Wide EXCEPT !.effects = {"none", "fork"},
                         !.places = {"end", "inactive", "delay"},
                         !.programs = Procs,
                         !.children = {2, 3},
                         !.watched = FALSE,
                         !.stallLimit = 1,
                         !.runs = 6]

\* Waits on a property of an object, which a round may pass over, between waits on x,
\* and writes from every region, which do not look at the waits
Gate == [Wide EXCEPT !.effects = {"write", "set", "other", "met"},
                     !.places = {"end", "delay", "cond", "prop", "hop"},
                     !.watched = FALSE,
                     !.interpreted = FALSE,
                     !.runs = 5]

\* Processes that are put off, in any region
Spinner == [Wide EXCEPT !.effects = {"none", "nba", "set"},
                        !.places = {"inactive", "delay", "prop", "x"},
                        !.watched = FALSE,
                        !.interpreted = FALSE,
                        !.stallLimit = 2,
                        !.runs = 6]

PassDesigns == {Wide, Program, Livelock, Gate, Spinner}
LivelockDesigns == {Livelock}

\* A process that waits on a condition is woken by the last cascade of a slot, and what
\* it writes there is found by the drain of #0 in the next slot
LateDesigns == {[Wide EXCEPT
    !.effects = {"none", "write", "nba"},
    !.places = {"end", "x", "cond", "delay", "inactive"},
    !.children = {},
    !.runs = 8]}

NarrowDesigns == {[Wide EXCEPT
    !.effects = {"none", "write", "nba", "trigger", "strobe"},
    !.places = AllPlaces \ {"ev", "prop"},
    !.children = {},
    !.runs = 4]}
=============================================================================
