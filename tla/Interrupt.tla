------------------------------- MODULE Interrupt -------------------------------
(***************************************************************************)
(* How a run ends on Ctrl-C or SIGTERM (interrupt.rs, the guard thread of  *)
(* fst_sink.rs, take_interrupt in event_loop.rs).  Three threads share the *)
(* flags INTERRUPTED, LOOP_STOP and ACKNOWLEDGED and the process's one     *)
(* alarm: the simulation thread, the FST guard thread, and the thread on   *)
(* which the kernel runs the signal handler.  Every atomic access and      *)
(* every call of alarm() is a step of its own.  By default main() runs the *)
(* simulation on a worker thread ("xezim-main") and waits for it, so that  *)
(* the handler normally runs on another thread than the simulation;        *)
(* with XEZIM_STACK_MB=0 there is only one.                                *)
(*                                                                         *)
(* Time is left out: an armed alarm may fire at any time, and the guard    *)
(* may find at any time that TAIL_AFTER has passed.                        *)
(***************************************************************************)
EXTENDS InterruptState

vars == <<interrupted, loopStop, acknowledged, alarm, process, handler, thread,
          sim, from, finished, guard, tailDone, closed, cut>>

flagVars  == <<interrupted, loopStop, acknowledged>>
sigVars   == <<handler, thread>>
simVars   == <<sim, from, finished, cut, closed>>
guardVars == <<guard, tailDone>>

Init == /\ interrupted = FALSE /\ loopStop = FALSE /\ acknowledged = FALSE
        /\ alarm = FALSE
        /\ process = "running"
        /\ handler = "none" /\ thread \in HandlerThreads
        /\ sim = "slot" /\ from = "slot" /\ finished = FALSE
        /\ cut = "nothing"
        /\ guard = "ticking" /\ tailDone = FALSE /\ closed = FALSE

\* The simulation thread does nothing while it runs the handler.
SimRuns == Runs /\ ~ (InHandler /\ thread = "simulation")

-----------------------------------------------------------------------------
\* handle_interrupt: the first signal...
FirstSignal == /\ Runs /\ ~ interrupted
               /\ interrupted' = TRUE
               /\ handler' = "store_signal"
               /\ UNCHANGED <<loopStop, acknowledged, alarm, process, thread,
                              simVars, guardVars>>

HandlerStoresSignal == /\ Runs /\ handler = "store_signal"
                       /\ handler' = "set_loop_stop"
                       /\ UNCHANGED <<flagVars, alarm, process, thread, simVars,
                                      guardVars>>

HandlerStopsLoops == /\ Runs /\ handler = "set_loop_stop"
                     /\ loopStop' = TRUE
                     /\ handler' = "arm"
                     /\ UNCHANGED <<interrupted, acknowledged, alarm, process,
                                    thread, simVars, guardVars>>

HandlerArms == /\ Runs /\ handler = "arm"
               /\ alarm' = TRUE
               /\ handler' = "done"
               /\ UNCHANGED <<flagVars, process, thread, simVars, guardVars>>

\* ... and a second one: the default action of the signal ends the process.
SecondSignal == /\ Runs /\ interrupted
                /\ process' = "killed"
                /\ UNCHANGED <<flagVars, alarm, sigVars, simVars, guardVars>>

\* handle_interrupt_alarm: raises INTERRUPT_SIGNAL with its default action.
AlarmFires == /\ Runs /\ alarm
              /\ alarm' = FALSE
              /\ process' = IF handler \in {"none", "store_signal"} THEN process
                                                                    ELSE "killed"
              /\ UNCHANGED <<flagVars, sigVars, simVars, guardVars>>

-----------------------------------------------------------------------------
\* take_interrupt: ACKNOWLEDGED is stored; Disarm is the alarm(0) after it.
TakeInterrupt(next) ==
    IF finished
    THEN sim' = next /\ UNCHANGED <<acknowledged, from, finished>>
    ELSE /\ acknowledged' = TRUE
         /\ finished' = TRUE
         /\ sim' = "acking"
         /\ from' = next

Disarm == /\ SimRuns /\ sim = "acking"
          /\ alarm' = FALSE
          /\ sim' = from
          /\ UNCHANGED <<flagVars, process, sigVars, from, finished, cut, closed,
                         guardVars>>

\* The slot goes on to its end; $finish may have been called in it.
EndSlot == /\ SimRuns /\ sim = "slot"
           /\ sim' = "boundary"
           /\ finished' \in {finished, TRUE}
           /\ UNCHANGED <<flagVars, alarm, process, sigVars, from, cut, closed,
                          guardVars>>

\* A long loop polls LOOP_STOP on its back-edge and is left.
LoopPoll == /\ SimRuns /\ sim = "slot" /\ loopStop
            /\ TakeInterrupt("boundary")
            /\ UNCHANGED <<interrupted, loopStop, alarm, process, sigVars, cut,
                           closed, guardVars>>

\* The slot boundary polls INTERRUPTED.
BoundaryPoll == /\ SimRuns /\ sim = "boundary" /\ interrupted
                /\ TakeInterrupt("loop_left")
                /\ UNCHANGED <<interrupted, loopStop, alarm, process, sigVars,
                               cut, closed, guardVars>>

\* No interrupt: the next slot, or the end of the event loop.
NextSlot == /\ SimRuns /\ sim = "boundary" /\ ~ interrupted
            /\ sim' \in (IF finished THEN {"loop_left"} ELSE {"slot", "loop_left"})
            /\ UNCHANGED <<flagVars, alarm, process, sigVars, from, finished,
                           cut, closed, guardVars>>

\* Mutant: the flag stays set for the `final` blocks.
LeaveLoopStopped == /\ SimRuns /\ sim = "loop_left"
                    /\ finished' = FALSE
                    /\ sim' = "final"
                    /\ UNCHANGED <<flagVars, alarm, process, sigVars, from, cut,
                                   closed, guardVars>>

\* end_loop_stop, and run() clears self.finished to run the `final` blocks.
EndLoopStop == /\ SimRuns /\ sim = "loop_left"
               /\ loopStop' = FALSE
               /\ finished' = FALSE
               /\ sim' = "final"
               /\ UNCHANGED <<interrupted, acknowledged, alarm, process, sigVars,
                              from, cut, closed, guardVars>>

\* A `final` block calls $finish, or the next one starts.
FinalBlock == /\ SimRuns /\ sim = "final"
              /\ finished' = ~ finished
              /\ UNCHANGED <<flagVars, alarm, process, sigVars, sim, from, cut,
                             closed, guardVars>>

\* A loop of a `final` block polls LOOP_STOP.
FinalPoll == /\ SimRuns /\ sim = "final" /\ loopStop
             /\ TakeInterrupt("final")
             /\ cut' = IF acknowledged /\ from # "final" THEN "loop" ELSE cut
             /\ UNCHANGED <<interrupted, loopStop, alarm, process, sigVars,
                            closed, guardVars>>

\* The trial loop of randomize() polls INTERRUPTED, which is never cleared.
SolverPoll == /\ SimRuns /\ Randomizes
              /\ sim \in {"slot", "final"} /\ interrupted
              /\ TakeInterrupt(IF sim = "slot" THEN "boundary" ELSE sim)
              /\ cut' = IF sim = "final" /\ acknowledged /\ from # "final"
                        THEN "randomize" ELSE cut
              /\ UNCHANGED <<interrupted, loopStop, alarm, process, sigVars,
                             closed, guardVars>>

\* FstSink::shut_down stores `closed` and joins the guard (run() has restored
\* self.finished, which nothing reads any more)...
Close == /\ SimRuns /\ sim = "final"
         /\ sim' = "closing"
         /\ closed' = TRUE
         /\ UNCHANGED <<flagVars, alarm, process, sigVars, from, finished, cut,
                        guardVars>>

\* ... and the process exits when the dump is written.
Exit == /\ SimRuns /\ sim = "closing" /\ guard = "gone"
        /\ process' = "exited"
        /\ UNCHANGED <<flagVars, alarm, sigVars, simVars, guardVars>>

-----------------------------------------------------------------------------
\* Mutant: the guard looks at `closed` only when it has nothing else to do.
GuardLeavesIdle == /\ Runs /\ guard = "ticking" /\ closed /\ tailDone
                   /\ guard' = "gone"
                   /\ UNCHANGED <<flagVars, alarm, process, sigVars, simVars,
                                  tailDone>>

GuardLeaves == /\ Runs /\ guard = "ticking" /\ closed
               /\ guard' = "gone"
               /\ UNCHANGED <<flagVars, alarm, process, sigVars, simVars, tailDone>>

\* A tick that finds the interrupt taken.
GuardStandsDown == /\ Runs /\ guard = "ticking" /\ ~ closed
                   /\ ~ tailDone /\ interrupted /\ acknowledged
                   /\ tailDone' = TRUE
                   /\ UNCHANGED <<flagVars, alarm, process, sigVars, simVars, guard>>

\* A tick that finds it not taken for TAIL_AFTER: write_tail, hold_backstop.
GuardHolds == /\ Runs /\ guard = "ticking" /\ ~ closed
              /\ ~ tailDone /\ interrupted /\ ~ acknowledged
              /\ alarm' = FALSE
              /\ guard' = "writing"
              /\ UNCHANGED <<flagVars, process, sigVars, simVars, tailDone>>

\* Mutant: the alarm stays off.
GuardForgets == /\ Runs /\ guard = "writing"
                /\ guard' = "rearmed"
                /\ UNCHANGED <<flagVars, alarm, process, sigVars, simVars, tailDone>>

\* The tail is on disk, or TAIL_WAIT has passed: release_backstop re-arms...
GuardRearms == /\ Runs /\ guard = "writing"
               /\ alarm' = TRUE
               /\ guard' = "rearmed"
               /\ UNCHANGED <<flagVars, process, sigVars, simVars, tailDone>>

\* Mutant: ACKNOWLEDGED is not looked at again.
GuardTrusts == /\ Runs /\ guard = "rearmed"
               /\ guard' = "ticking"
               /\ tailDone' = TRUE
               /\ UNCHANGED <<flagVars, alarm, process, sigVars, simVars>>

\* ... and looks whether the interrupt was taken meanwhile.
GuardRechecks == /\ Runs /\ guard = "rearmed"
                 /\ guard' = IF acknowledged THEN "disarming" ELSE "ticking"
                 /\ tailDone' = ~ acknowledged
                 /\ UNCHANGED <<flagVars, alarm, process, sigVars, simVars>>

GuardDisarms == /\ Runs /\ guard = "disarming"
                /\ alarm' = FALSE
                /\ guard' = "ticking"
                /\ tailDone' = TRUE
                /\ UNCHANGED <<flagVars, process, sigVars, simVars>>

Signal  == FirstSignal \/ SecondSignal
Handler == HandlerStoresSignal \/ HandlerStopsLoops \/ HandlerArms
Sim     == \/ EndSlot \/ LoopPoll \/ BoundaryPoll \/ NextSlot \/ Disarm
           \/ EndLoopStop \/ FinalBlock \/ FinalPoll \/ SolverPoll \/ Close \/ Exit
Guard   == \/ GuardLeaves \/ GuardStandsDown \/ GuardHolds
           \/ GuardRearms \/ GuardRechecks \/ GuardDisarms

Next == Signal \/ Handler \/ AlarmFires \/ Sim \/ Guard

Spec == Init /\ [][Next]_vars

(***************************************************************************)
(* The kernel runs the handler and the guard thread and delivers SIGALRM.  *)
(* Nothing is assumed of the simulation thread inside a slot: it may be    *)
(* blocked for ever in a DPI call.  A joined thread lets it exit.          *)
(***************************************************************************)
Fairness == /\ WF_vars(Handler) /\ WF_vars(AlarmFires)
            /\ WF_vars(Guard) /\ WF_vars(Exit)

FairSpec == Spec /\ Fairness

-----------------------------------------------------------------------------
\* Every variable has its type.
TypeOK == FlagTypes /\ PlaceTypes

(***************************************************************************)
(* An interrupt is taken, or the process ends anyway: a simulation thread  *)
(* that never polls, or one that ended by $finish, included.               *)
(***************************************************************************)
InterruptAnswered == interrupted ~> acknowledged \/ ~ Runs

(***************************************************************************)
(* Closing the dump always ends: the guard thread is not still waiting     *)
(* when it is joined.                                                      *)
(***************************************************************************)
CloseEnds == sim = "closing" ~> ~ Runs
=============================================================================
