------------------------------ MODULE EventQueue ------------------------------
(***************************************************************************)
(* What the simulator's event queue promises the rest of the scheduler,    *)
(* without saying how: one FIFO list of entries for every simulation time, *)
(* and a clock that never passes a time at which entries still wait.       *)
(* TimingWheel.tla is the data structure of the code and implements this.  *)
(***************************************************************************)
EXTENDS Integers, Sequences, FiniteSets

CONSTANTS Pids,     \* process identifiers
          MaxTime,  \* bound: the last simulation time of the model
          NoEvent   \* "nothing has been popped yet"

VARIABLES time,     \* the simulation clock
          queue,    \* queue[t]: the entries waiting for time t, oldest first
          taken,    \* the entries of a slot handed out together, not yet run
          running   \* the entry handed out last

vars == <<time, queue, taken, running>>

Times  == 0 .. MaxTime

\* An entry: a process and whether it was put at the front (a fork child).
Events == [pid : Pids, front : BOOLEAN]

\* The entries of s that are not of process p, in their order.
OfOthers(p, s) ==
    LET kept == {i \in DOMAIN s : s[i].pid # p}
        At(j) == CHOOSE i \in kept : Cardinality({k \in kept : k < i}) = j - 1
    IN  [j \in 1 .. Cardinality(kept) |-> s[At(j)]]

Init == /\ time = 0
        /\ queue = [t \in Times |-> <<>>]
        /\ taken = <<>>
        /\ running = NoEvent

Schedule(t, e) ==
    /\ t >= time
    /\ queue' = [queue EXCEPT ![t] = Append(@, e)]
    /\ UNCHANGED <<time, taken, running>>

ScheduleFront(t, e) ==
    /\ t >= time
    /\ queue' = [queue EXCEPT ![t] = <<e>> \o @]
    /\ UNCHANGED <<time, taken, running>>

\* Before anything has run, the entries of time 0 are put in another order.
Reorder == /\ time = 0 /\ running = NoEvent /\ taken = <<>>
           /\ \E f \in [DOMAIN queue[0] -> DOMAIN queue[0]] :
                 /\ {f[i] : i \in DOMAIN f} = DOMAIN f
                 /\ queue' = [queue EXCEPT ![0] =
                                  [i \in DOMAIN f |-> queue[0][f[i]]]]
           /\ UNCHANGED <<time, taken, running>>

\* The oldest entry of the current time is handed out.
Pop == /\ queue[time] # <<>>
       /\ running' = Head(queue[time])
       /\ queue' = [queue EXCEPT ![time] = Tail(@)]
       /\ UNCHANGED <<time, taken>>

\* All the entries of the current time are handed out, to be run in order.
Take == /\ taken = <<>>
        /\ taken' = queue[time]
        /\ queue' = [queue EXCEPT ![time] = <<>>]
        /\ UNCHANGED <<time, running>>

RunTaken == /\ taken # <<>>
            /\ running' = Head(taken)
            /\ taken' = Tail(taken)
            /\ UNCHANGED <<time, queue>>

\* What was handed out and has not run goes back ahead of newer entries.
Requeue == /\ queue' = [queue EXCEPT ![time] = taken \o @]
           /\ taken' = <<>>
           /\ UNCHANGED <<time, running>>

\* No entry of process p is queued any more.
Cancel(p) == /\ queue' = [t \in Times |-> OfOthers(p, queue[t])]
             /\ UNCHANGED <<time, taken, running>>

\* The clock moves, and leaves nothing behind.
Advance(t) == /\ t > time
              /\ taken = <<>>
              /\ \A u \in Times : u < t => queue[u] = <<>>
              /\ time' = t
              /\ UNCHANGED <<queue, taken, running>>

\* The entries of the current time are put off to t, behind those of t.
PutOff(t) == /\ t > time
             /\ taken = <<>>
             /\ \A u \in Times : u > time /\ u < t => queue[u] = <<>>
             /\ queue' = [queue EXCEPT ![t] = @ \o queue[time], ![time] = <<>>]
             /\ time' = t
             /\ UNCHANGED <<taken, running>>

Next == \/ \E t \in Times, e \in Events : Schedule(t, e) \/ ScheduleFront(t, e)
        \/ Reorder \/ Pop \/ Take \/ RunTaken \/ Requeue
        \/ \E p \in Pids : Cancel(p)
        \/ \E t \in Times : Advance(t) \/ PutOff(t)

Spec == Init /\ [][Next]_vars

-----------------------------------------------------------------------------
TypeOK == /\ time \in Times
          /\ queue \in [Times -> Seq(Events)]
          /\ taken \in Seq(Events)
          /\ running \in Events \cup {NoEvent}

(***************************************************************************)
(* The clock never passes a waiting entry: a process delayed to time t is  *)
(* run at t, neither dropped nor run late (the comment of next_time_scan   *)
(* tells of entries that became invisible and ended the run early).        *)
(***************************************************************************)
NothingLeftBehind == \A t \in Times : t < time => queue[t] = <<>>
=============================================================================
