-------------------------------- MODULE Mailbox --------------------------------
(***************************************************************************)
(* One built-in `mailbox` of a simulated program: the messages in the box, *)
(* the processes parked in get() and peek() because it is empty, and those *)
(* parked in put() because it is full (mailboxes.rs, construction.rs, and  *)
(* the places in processes.rs and calls.rs that park and put).  One call   *)
(* is one action: the simulator runs one process at a time.                *)
(*                                                                         *)
(* Messages are numbered in the order of the put calls, so that the k-th   *)
(* call puts message k.                                                    *)
(***************************************************************************)
EXTENDS Integers, Sequences, SequencesExt

CONSTANTS Procs,    \* the processes that use the mailbox
          Bounds,   \* the sizes the mailbox may be made with, 0 for no bound
          MaxSent,  \* bound: put calls
          Usages    \* see features

AllFeatures == {"kill", "suspend", "expression", "synchronous"}

ASSUME MailboxAssumption ==
    Bounds \subseteq Nat /\ MaxSent \in Nat /\ Usages \subseteq SUBSET AllFeatures

VARIABLES box,      \* mailboxes[handle], oldest message first
          bound,    \* mailbox_bound[handle], recorded by new()
          features, \* how the design uses it: killed or suspended processes, puts
                    \* in an expression or where a process cannot park
          getters,  \* mailbox_get_waiters[handle]
          putters,  \* mailbox_put_waiters[handle]
          state,    \* what each process is doing
          sent,     \* put calls made
          taken     \* history: the messages consumed, in that order

vars == <<box, bound, features, getters, putters, state, sent, taken>>

Messages == 1 .. MaxSent
Getters  == [pid : Procs, peek : BOOLEAN]
Putters  == [pid : Procs, msg : Messages]

\* active: between two calls; ready: woken, not yet run.
States == {"active", "getting", "putting", "suspended", "ready", "killed"}

Init == /\ bound \in Bounds /\ features \in Usages
        /\ box = <<>> /\ getters = <<>> /\ putters = <<>>
        /\ state = [p \in Procs |-> "active"]
        /\ sent = 0
        /\ taken = <<>>

-----------------------------------------------------------------------------
(***************************************************************************)
(* What one call does to the mailbox is computed on a record m of its      *)
(* variables and then made the next state.                                 *)
(***************************************************************************)
Now == [box |-> box, getters |-> getters, putters |-> putters,
        state |-> state, taken |-> taken]

Become(m) == /\ box' = m.box
             /\ getters' = m.getters
             /\ putters' = m.putters
             /\ state' = m.state
             /\ taken' = m.taken

\* A continuation is put in the event queue; that of a killed process is
\* discarded when it comes to run.
Woken(s) == IF s = "killed" THEN s ELSE "ready"

\* Mutant: one message too many.
IsOverfull(m) == bound > 0 /\ Len(m.box) > bound
IsFull(m)     == bound > 0 /\ Len(m.box) >= bound

\* Mutant: the producer that parked last is admitted.
AdmitLast(m) ==
    IF bound = 0 \/ IsFull(m) \/ m.putters = <<>> THEN m
    ELSE LET w == Last(m.putters)
         IN  [m EXCEPT !.box = Append(@, w.msg), !.putters = Front(@),
                       !.state[w.pid] = Woken(@)]
\* admit_mailbox_put_waiter
Admit(m) ==
    IF bound = 0 \/ IsFull(m) \/ m.putters = <<>> THEN m
    ELSE LET w == Head(m.putters)
         IN  [m EXCEPT !.box = Append(@, w.msg), !.putters = Tail(@),
                       !.state[w.pid] = Woken(@)]

\* The oldest message leaves the box, which may admit a parked producer.
Popped(m) == [m EXCEPT !.box = Tail(@), !.taken = Append(@, Head(m.box))]
\* Mutant: the freed slot is offered to nobody.
ConsumeOnly(m) == Popped(m)
Consume(m) == Admit(Popped(m))

\* Mutant: the last getter is served first.
DeliverToLast(m) ==
    IF m.box = <<>> \/ m.getters = <<>> THEN m
    ELSE LET w == Last(m.getters)
             n == [m EXCEPT !.getters = Front(@), !.state[w.pid] = Woken(@)]
         IN  IF w.peek THEN n ELSE Consume(n)
\* One turn of the loop of drain_mailbox_get_waiters.
Deliver(m) ==
    IF m.box = <<>> \/ m.getters = <<>> THEN m
    ELSE LET w == Head(m.getters)
             n == [m EXCEPT !.getters = Tail(@), !.state[w.pid] = Woken(@)]
         IN  IF w.peek THEN n ELSE Consume(n)

\* drain_mailbox_get_waiters: every turn takes a waiter.
Drained(m) ==
    LET after[i \in 0 .. Len(m.getters)] ==
            IF i = 0 THEN m ELSE Deliver(after[i - 1])
    IN  after[Len(m.getters)]

Stored(m, msg) == Drained([m EXCEPT !.box = Append(@, msg)])
-----------------------------------------------------------------------------
Sending(p) == /\ state[p] = "active"
              /\ sent < MaxSent
              /\ sent' = sent + 1

Park(p, why) == state' = [state EXCEPT ![p] = why]

\* put() as a statement of a process, which parks when the box is full, and
\* try_put(), which then returns 0 and changes nothing.
Put(p) == /\ Sending(p)
          /\ ~ IsFull(Now)
          /\ Become(Stored(Now, sent + 1))

PutParks(p) == /\ Sending(p)
               /\ IsFull(Now)
               /\ putters' = Append(putters, [pid |-> p, msg |-> sent + 1])
               /\ Park(p, "putting")
               /\ UNCHANGED <<box, getters, taken>>

\* put() reached in a context that cannot suspend: the method of
\* construction.rs, which has no test of the bound.
PutSynchronous(p) == /\ "synchronous" \in features
                     /\ Sending(p)
                     /\ Become(Stored(Now, sent + 1))

\* put() as evaluated by eval_call (calls.rs): one waiter is handed the new
\* message, whatever the box holds; a peeker leaves it there.  No test of the
\* bound here either.
PutExpression(p) ==
    /\ "expression" \in features
    /\ Sending(p)
    /\ IF getters = <<>>
       THEN Become([Now EXCEPT !.box = Append(@, sent + 1)])
       ELSE LET w == Head(getters)
                m == [Now EXCEPT !.getters = Tail(@), !.state[w.pid] = Woken(@)]
            IN  Become(IF w.peek THEN [m EXCEPT !.box = Append(@, sent + 1)]
                                 ELSE [m EXCEPT !.taken = Append(@, sent + 1)])

\* get() and peek() as a statement of a process.  An empty box first admits a
\* parked producer; if it is still empty the process parks.
GetOrPeek(p, peek) ==
    LET m == IF box = <<>> THEN Admit(Now) ELSE Now
    IN  /\ state[p] = "active"
        /\ Become(IF m.box = <<>>
                  THEN [m EXCEPT !.getters = Append(@, [pid |-> p, peek |-> peek]),
                                 !.state[p] = "getting"]
                  ELSE IF peek THEN m ELSE Consume(m))
        /\ UNCHANGED sent

\* try_get(), and get() in a context that cannot suspend; try_peek() and
\* peek() there change nothing.
TryGet(p) == /\ state[p] = "active"
             /\ box # <<>>
             /\ Become(Consume(Now))
             /\ UNCHANGED sent

Dispatch(p) == /\ state[p] = "ready"
               /\ Park(p, "active")
               /\ UNCHANGED <<box, getters, putters, sent, taken>>

\* A process is in the queue once at most.
Waits(p, q) == \E i \in DOMAIN q : q[i].pid = p
GettersWithout(p) ==
    IF Waits(p, getters)
    THEN RemoveAt(getters, CHOOSE i \in DOMAIN getters : getters[i].pid = p)
    ELSE getters

\* kill() and the disable statements: mailbox_put_waiters is not purged.
Kill(p) == /\ "kill" \in features
           /\ state[p] # "killed"
           /\ getters' = GettersWithout(p)
           /\ Park(p, "killed")
           /\ UNCHANGED <<box, putters, sent, taken>>

\* suspend() finds a getter, and not a producer.
Suspend(p) == /\ "suspend" \in features
              /\ state[p] = "getting"
              /\ getters' = GettersWithout(p)
              /\ Park(p, "suspended")
              /\ UNCHANGED <<box, putters, sent, taken>>

\* resume(): the process goes on after the get, without a message.
Resume(p) == /\ state[p] = "suspended"
             /\ Park(p, "ready")
             /\ UNCHANGED <<box, getters, putters, sent, taken>>

Next == /\ UNCHANGED <<bound, features>>
        /\ \E p \in Procs :
              \/ Put(p) \/ PutParks(p)
              \/ PutSynchronous(p) \/ PutExpression(p)
              \/ \E peek \in BOOLEAN : GetOrPeek(p, peek)
              \/ TryGet(p)
              \/ Dispatch(p) \/ Kill(p) \/ Suspend(p) \/ Resume(p)

Spec == Init /\ [][Next]_vars

-----------------------------------------------------------------------------
\* Every value has its type, and a process that waits to receive is in the
\* queue exactly once.
TypeOK == /\ box \in Seq(Messages)
          /\ bound \in Bounds
          /\ features \in Usages
          /\ getters \in Seq(Getters)
          /\ putters \in Seq(Putters)
          /\ state \in [Procs -> States]
          /\ sent \in 0 .. MaxSent
          /\ taken \in Seq(Messages)
          /\ \A i, j \in DOMAIN getters : getters[i].pid = getters[j].pid => i = j
          /\ \A p \in Procs : state[p] = "getting" <=> Waits(p, getters)

MessagesOf(q) == [i \in DOMAIN q |-> q[i].msg]
Unsent == MessagesOf(putters)

ByStatements == features \cap {"expression", "synchronous"} = {}

\* Every put of every form keeps the order (calls.rs:1450 says so of expressions).
AllInOrder == taken \o box \o Unsent = [k \in 1 .. sent |-> k]

\* Messages put by statements are received in the order of the put calls, those
\* that had to wait for space included; none is lost or received twice.
InOrder == ByStatements => AllInOrder

\* Whatever the order: each message put is in one place, once.
NothingLost == LET all == taken \o box \o Unsent
               IN  IsInjective(all) /\ ToSet(all) = 1 .. sent

\* Together: each message is in one place, where it belongs, and each process that
\* waits to receive is in the queue once.
EachOnce == TypeOK /\ NothingLost /\ InOrder

\* No getter or peeker sleeps beside a message, whatever put it there.
NobodyBesideMessage == getters # <<>> => box = <<>>

\* No getter or peeker sleeps beside a message (the drain after every put:
\* "The drain keeps delivering while items and waiters remain"), where no put is
\* evaluated in an expression.
NoGetterBesideMessage == "expression" \in features \/ NobodyBesideMessage

\* No producer sleeps beside a free slot (the zero-delay producer/consumer
\* pair that "deadlocked after filling the bound once").
NoPutterBesideSpace == putters # <<>> => IsFull(Now)

\* Together: what every put and every get, peek and try_get must do for those
\* that are parked.
NobodyWaitsInVain == NoGetterBesideMessage /\ NoPutterBesideSpace

\* A bounded mailbox never holds more than its bound ("a full box rejects
\* `try_put` and parks `put`"), whatever form the puts have.
AllWithinBound == bound > 0 => Len(box) <= bound

\* It does not where statements put, which are the puts that test the bound.
WithinBound == ByStatements => AllWithinBound

(***************************************************************************)
(* Receivers are served in the order they parked: when a message wakes one *)
(* of them, it wakes those before it as well.                              *)
(***************************************************************************)
ServedInOrder ==
    [][\A i, j \in DOMAIN getters :
           i < j /\ state'[getters[j].pid] = "ready"
                => state'[getters[i].pid] # "getting"]_vars

\* A killed process puts nothing more: its parked message goes with it
\* ("Purge from every scheduling structure", proc_kill).
KilledPutsNothing == \A w \in ToSet(putters) : state[w.pid] # "killed"
=============================================================================
