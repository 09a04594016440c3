------------------------------- MODULE Semaphore -------------------------------
(***************************************************************************)
(* One built-in `semaphore` of a simulated program: its key count, the     *)
(* queue of the processes parked in get(), and what put(), get(),          *)
(* try_get(), kill(), suspend() and resume() do to them.  The simulator    *)
(* runs one process at a time and each of these calls runs to its end, so  *)
(* one call is one action; the interleaving is that of the processes.      *)
(*                                                                         *)
(* given, lent, unpaid and headGone are history: the keys the semaphore    *)
(* was made with or was put; the keys each process took; the processes     *)
(* that a get let go on without its keys; and whether the head of the      *)
(* queue was killed or suspended since the last put.                       *)
(***************************************************************************)
EXTENDS Integers, Sequences, FiniteSets, SequencesExt

CONSTANTS Procs,    \* the processes that use the semaphore
          MaxKeys,  \* bound: the keys it is ever given, and the largest request
          Features  \* which of "kill", "suspend", "synchronous" it uses

ASSUME MaxKeysAssumption == MaxKeys \in Nat
ASSUME ProcsAssumption == IsFiniteSet(Procs)

VARIABLES count,      \* semaphores[handle]
          waiters,    \* semaphore_get_waiters[handle]
          suspended,  \* the processes that suspend() took out of the queue
          state,      \* what each process is doing
          given, lent, unpaid, headGone

history == <<given, lent, unpaid, headGone>>
vars == <<count, waiters, suspended, state, history>>

Keys    == 0 .. MaxKeys
Waiters == [pid : Procs, n : Keys]

\* active: between two calls; blocked: in a get; ready: woken, not yet run.
States == {"active", "blocked", "ready", "killed"}

Pids(q)   == {w.pid : w \in ToSet(q)}
Place(p, q) == CHOOSE i \in DOMAIN q : q[i].pid = p

\* A process is in the queue once at most.
WaitersWithout(p) == IF p \in Pids(waiters)
                     THEN RemoveAt(waiters, Place(p, waiters))
                     ELSE waiters

Init == /\ count \in Keys
        /\ waiters = <<>>
        /\ suspended = {}
        /\ state = [p \in Procs |-> "active"]
        /\ given = count
        /\ lent = [p \in Procs |-> 0]
        /\ unpaid = {}
        /\ headGone = FALSE

-----------------------------------------------------------------------------
\* Mutant: one put wakes one process at most.
WakesOne(left, k) ==
    /\ k <= 1
    /\ \A i \in 1 .. k : /\ waiters[i].n <= left[i - 1]
                         /\ left[i] = left[i - 1] - waiters[i].n
    /\ k = 0 /\ waiters # <<>> => left[0] < waiters[1].n

\* Mutant: the woken process does not take its keys.
WakesForFree(left, k) ==
    /\ \A i \in 1 .. k : waiters[i].n <= left[i - 1] /\ left[i] = left[i - 1]
    /\ k < Len(waiters) => left[k] < waiters[k + 1].n

(***************************************************************************)
(* The loop of wake_semaphore_waiters serves the first k waiters; left[i]  *)
(* is the count after it has served i of them.                             *)
(***************************************************************************)
WakesInOrder(left, k) ==
    /\ \A i \in 1 .. k : /\ waiters[i].n <= left[i - 1]
                         /\ left[i] = left[i - 1] - waiters[i].n
    /\ k < Len(waiters) => left[k] < waiters[k + 1].n

ServeWaiters(keys) ==
    \E k \in 0 .. Len(waiters) : \E left \in [0 .. k -> Keys] :
        LET served == SubSeq(waiters, 1, k)
        IN  /\ left[0] = keys
            /\ WakesInOrder(left, k)
            /\ count' = left[k]
            /\ waiters' = SubSeq(waiters, k + 1, Len(waiters))
            /\ state' = [p \in Procs |-> IF p \in Pids(served) THEN "ready"
                                                               ELSE state[p]]
            /\ lent' = [p \in Procs |->
                           IF p \in Pids(served)
                           THEN lent[p] + waiters[Place(p, waiters)].n
                           ELSE lent[p]]

Put(p, n) == /\ state[p] = "active"
             /\ given + n <= MaxKeys
             /\ given' = given + n
             /\ ServeWaiters(count + n)
             /\ headGone' = FALSE
             /\ UNCHANGED <<suspended, unpaid>>

\* Mutant: the process that has just asked is served before the others.
Jumped(w) == <<w>> \o waiters

Parked(w) == Append(waiters, w)

\* A get parks only when the keys are too few: it does not look at the queue.
GetParks(p, n) == /\ state[p] = "active"
                  /\ count < n
                  /\ waiters' = Parked([pid |-> p, n |-> n])
                  /\ state' = [state EXCEPT ![p] = "blocked"]
                  /\ UNCHANGED <<count, suspended, history>>

\* get() with enough keys, and try_get() when it succeeds.
TakeKeys(p, n) == /\ state[p] = "active"
                  /\ count >= n
                  /\ count' = count - n
                  /\ lent' = [lent EXCEPT ![p] = @ + n]
                  /\ UNCHANGED <<waiters, suspended, state, given,
                                  unpaid, headGone>>

\* get() reached in a context that cannot suspend: it returns all the same.
GetReturns(p, n) == /\ "synchronous" \in Features
                    /\ state[p] = "active"
                    /\ count < n
                    /\ unpaid' = unpaid \cup {p}
                    /\ UNCHANGED <<count, waiters, suspended, state, given, lent,
                                   headGone>>

\* The scheduler runs a woken process.
Dispatch(p) == /\ state[p] = "ready"
               /\ state' = [state EXCEPT ![p] = "active"]
               /\ UNCHANGED <<count, waiters, suspended, history>>

IsHead(p) == waiters # <<>> /\ Head(waiters).pid = p

\* kill(), `disable fork` and `disable <name>`: the queue is not served anew.
Kill(p) == /\ "kill" \in Features
           /\ state[p] # "killed"
           /\ waiters' = WaitersWithout(p)
           /\ suspended' = suspended \ {p}
           /\ state' = [state EXCEPT ![p] = "killed"]
           /\ headGone' = (headGone \/ IsHead(p))
           /\ UNCHANGED <<count, given, lent, unpaid>>

\* suspend() of a process parked in get().
Suspend(p) == /\ "suspend" \in Features
              /\ p \in Pids(waiters)
              /\ suspended' = suspended \cup {p}
              /\ waiters' = WaitersWithout(p)
              /\ headGone' = (headGone \/ IsHead(p))
              /\ UNCHANGED <<count, state, given, lent, unpaid>>

\* resume(): the continuation kept is the one that follows the get.
Resume(p) == /\ "suspend" \in Features
             /\ p \in suspended
             /\ suspended' = suspended \ {p}
             /\ unpaid' = unpaid \cup {p}
             /\ state' = [state EXCEPT ![p] = "ready"]
             /\ UNCHANGED <<count, waiters, given, lent, headGone>>

Next == \E p \in Procs :
            \/ \E n \in Keys : \/ Put(p, n)
                              \/ GetParks(p, n)
                              \/ TakeKeys(p, n)
                              \/ GetReturns(p, n)
            \/ Dispatch(p)
            \/ Kill(p)
            \/ Suspend(p)
            \/ Resume(p)

Spec == Init /\ [][Next]_vars

-----------------------------------------------------------------------------
(***************************************************************************)
(* Every value has its type: the key count never goes below zero.          *)
(***************************************************************************)
TypeOK == /\ count \in Keys
          /\ waiters \in Seq(Waiters)
          /\ suspended \subseteq Procs
          /\ state \in [Procs -> States]
          /\ given \in Keys
          /\ lent \in [Procs -> Nat]
          /\ unpaid \subseteq Procs
          /\ headGone \in BOOLEAN

(***************************************************************************)
(* No keys appear or vanish: what was given is in the semaphore or was     *)
(* taken by a get (the decrement of a parked get is made by the put that   *)
(* wakes it, not by the get, and a woken process may be killed before it   *)
(* runs).                                                                  *)
(***************************************************************************)
KeysConserved == TypeOK /\ given = count + FoldFunction(+, 0, lent)

(***************************************************************************)
(* No wakeup is lost: the oldest waiter waits because the keys are too     *)
(* few for it ("Park until a `put` raises the count enough",               *)
(* processes.rs).                                                          *)
(***************************************************************************)
OldestMustWait == waiters # <<>> => count < Head(waiters).n

(***************************************************************************)
(* The same but for what killing or suspending the head of the queue does  *)
(* until the next put: no order of puts and gets loses a wakeup.           *)
(***************************************************************************)
WaitsForKeys == headGone \/ OldestMustWait

(***************************************************************************)
(* A get returns with its keys ("the decrement happens at wake").          *)
(***************************************************************************)
GetsArePaid == unpaid = {}

(***************************************************************************)
(* Among parked processes the service is first come, first served: nobody  *)
(* gets ahead of a process that stays parked, and nobody behind it is      *)
(* woken ("NOT skipped in favour of a later, smaller request").            *)
(***************************************************************************)
Ahead(p, q)  == {q[i].pid : i \in 1 .. Place(p, q) - 1}
Behind(p, q) == Pids(q) \ (Ahead(p, q) \cup {p})

NoneOvertaken ==
    [][\A p \in Pids(waiters) \cap Pids(waiters') :
           /\ Ahead(p, waiters') \subseteq Ahead(p, waiters)
           /\ \A q \in Behind(p, waiters) : state'[q] # "ready"]_vars

(***************************************************************************)
(* The same promise for a process that has not parked: while others wait,  *)
(* no get takes keys from under them.                                      *)
(***************************************************************************)
NoBarging == [][lent' # lent => waiters = <<>> \/ waiters' # waiters]_vars
=============================================================================
