----------------------------- MODULE InterruptState -----------------------------
(***************************************************************************)
(* What the threads of Interrupt.tla share, and what the comments of       *)
(* interrupt.rs promise of it.                                             *)
(***************************************************************************)
EXTENDS Integers

CONSTANTS HandlerThreads,  \* where a signal may be handled
          Randomizes       \* whether the design calls randomize()

ASSUME HandlerAssumption == /\ HandlerThreads \subseteq {"simulation", "other"}
                            /\ Randomizes \in BOOLEAN

VARIABLES
    interrupted, loopStop, acknowledged,  \* the static flags
    alarm,      \* whether SIGALRM is pending
    process,    \* whether the process runs, has exited, or was killed
    handler,    \* how far the handler of the first signal has come
    thread,     \* the thread it runs on
    sim,        \* where the simulation thread is
    from,       \* where it was when it took the interrupt
    finished,   \* self.finished
    guard,      \* where the guard thread is
    tailDone,   \* its tail_done
    closed,     \* shared.closed
    cut         \* history: what cut a `final` block short, although the
                \* event loop had taken the interrupt

\* handler: what it does next.
HandlerStates == {"none", "store_signal", "set_loop_stop", "arm", "done"}
InHandler == handler \in {"store_signal", "set_loop_stop", "arm"}

\* sim: inside a time slot; at a slot boundary; between the store of
\* ACKNOWLEDGED and alarm(0); out of the event loop; in the `final` blocks;
\* waiting for the guard.
SimStates   == {"slot", "boundary", "acking", "loop_left", "final", "closing"}
GuardStates == {"ticking", "writing", "rearmed", "disarming", "gone"}

Runs == process = "running"

FlagTypes  == /\ interrupted \in BOOLEAN /\ loopStop \in BOOLEAN
              /\ acknowledged \in BOOLEAN /\ alarm \in BOOLEAN
              /\ finished \in BOOLEAN /\ tailDone \in BOOLEAN
              /\ closed \in BOOLEAN
PlaceTypes == /\ process \in {"running", "killed", "exited"}
              /\ handler \in HandlerStates
              /\ thread \in HandlerThreads
              /\ sim \in SimStates
              /\ from \in SimStates \ {"acking", "closing"}
              /\ guard \in GuardStates
              /\ cut \in {"nothing", "loop", "randomize"}

-----------------------------------------------------------------------------
(***************************************************************************)
(* The backstop is off for good once the simulation thread has taken the   *)
(* interrupt: "a re-armed backstop can never outlive an acknowledgement",  *)
(* so that finalizing the dumps is not cut short.  Left out are the        *)
(* moments at which a thread is about to call alarm(0).                    *)
(***************************************************************************)
Settled == sim # "acking" /\ guard \notin {"rearmed", "disarming"}

BackstopOffOnceTaken == acknowledged /\ Settled /\ Runs => ~ alarm

(***************************************************************************)
(* It is, where the simulation thread runs the handler: the handler has    *)
(* armed the alarm before the thread can take the interrupt.               *)
(***************************************************************************)
BackstopOffOnOwnThread == thread = "simulation" => BackstopOffOnceTaken

(***************************************************************************)
(* After an interrupt that was taken, "the `final` blocks that run after   *)
(* an interrupted run still execute their loops in full".                  *)
(***************************************************************************)
FinalInFull == cut = "nothing"

(***************************************************************************)
(* The part of it that LOOP_STOP, cleared when the event loop ends, can    *)
(* promise: the back-edge polls of the `final` blocks do not see the       *)
(* interrupt again, where the simulation thread runs the handler.          *)
(***************************************************************************)
LoopsInFullOnOwnThread == thread = "simulation" => cut # "loop"
=============================================================================
