------------------------------ MODULE TimeSlotState ------------------------------
(***************************************************************************)
(* The state of the event loop of TimeSlot.tla, and what holds of it.        *)
(***************************************************************************)
EXTENDS Integers, Sequences

CONSTANTS MaxProcs,  \* bound: the processes of a design
          MaxTime,   \* bound: the last slot of all
          Designs    \* see Design

Procs == 1 .. MaxProcs

AllEffects == {"none", "write", "nba", "fire", "trigger", "strobe", "assert", "fork",
               "set", "other", "met"}
AllPlaces  == {"end", "inactive", "delay", "x", "ev", "cb", "cond", "prop", "hop"}

\* A design: what activations do and where they park; the processes of program
\* blocks and those that only a fork starts; whether an edge block is sensitive
\* to x; whether writes are interpreted (and so look at the waits of others); the
\* limit of ticks in a slot and of activations of one process in it (0: none),
\* XEZIM_STALL_LIMIT; and a bound, the number of activations that do something
Design == [effects : SUBSET AllEffects, places : SUBSET AllPlaces,
           programs : SUBSET Procs, children : SUBSET Procs,
           watched : BOOLEAN, interpreted : BOOLEAN, stallLimit : Nat,
           runs : Nat]

ASSUME SlotAssumption ==
    /\ MaxProcs \in Nat
    /\ MaxTime \in Nat
    /\ Designs \subseteq Design

VARIABLES
    design,
    time,
    queue,    \* event_queue
    lists,    \* the other lists of continuations, see ListNames
    batch,    \* what the current stage took from a list and still has to run
    running,  \* the process that runs, or 0
    stack,    \* the stages still to come, the next first
    wait,     \* what each process waits for, and the value it compares with
    sig,      \* the signals and what is pending for them
    pass,     \* the flags of the passes
    strobe,   \* pending_strobes is not empty
    asserts,  \* the processes with a report in deferred_asserts
    stall,    \* stall_iters
    left      \* activations left

slotVars == <<design, time, queue, lists, batch, running, stack, wait, sig, pass,
          strobe, asserts, stall, left>>
places == <<queue, lists, batch, running>>
output == <<strobe, asserts, stall, left>>

Times == 0 .. MaxTime

\* inactive_queue, condition_waiters, ready_condition_waiters, event_waiters,
\* deferred_clocking_conts, reactive_conts, nba_region_waiters
ListNames == {"inactive", "conds", "ready", "events", "clocking", "reactive", "hops"}

NoNba == 2    \* no assignment to x is pending
Unset == 2    \* an event before its first trigger, a clock before its first tick

\* nba: the last value assigned to x and not committed; triggers: how many ->>
\* are pending; hops: the processes whose @(nba) awaits an assignment of their own;
\* ticked: x as tick_clocking_blocks saw it last; y: a property of a class object
Sigs == [x : 0 .. 1, prev : 0 .. 1, ev : 0 .. 2, nba : 0 .. 2, triggers : Nat,
         hops : SUBSET Procs, ticked : 0 .. 2, y : 0 .. 1]

\* mode: the caller of drain_condition_waiters; moved: late_resume_epoch went up;
\* progress, advanced: cond_progress did, in this round, in this tick; wrote: a
\* clocking continuation wrote; fired: an edge block was triggered; recorded:
\* edge_exec_wrote is not empty; rechecked: cond_repass_recheck for this time;
\* noted: the bits of y are in STORE_WRITE_MASK, and before: were when the clocking
\* continuations began; hits: stall_pid_hits; defer: zero_delay_defer_pending
Modes  == {"pre", "cascade", "end", "repass"}
Passes == [mode : Modes, moved : BOOLEAN, progress : BOOLEAN, advanced : BOOLEAN,
           wrote : BOOLEAN, fired : BOOLEAN, recorded : BOOLEAN,
           rechecked : SUBSET Procs, noted : BOOLEAN, before : BOOLEAN,
           hits : [Procs -> Nat], defer : BOOLEAN]

Waits == [on : {"unborn", "run", "x", "ev", "cb", "cond", "prop", "gone"},
          seen : 0 .. 2]

\* The entries of a list of processes that are in S, in their order
Only(s, S) ==
    LET Upto[k \in 0 .. Len(s)] ==
            IF k = 0 THEN <<>>
            ELSE IF s[k] \in S THEN Append(Upto[k - 1], s[k]) ELSE Upto[k - 1]
    IN  Upto[Len(s)]

-------------------------------------------------------------------------------
\* The waiters of @ or of a clocking event whose term fires: the value is not the one
\* it saw when it parked
Triggered ==
    {p \in Procs : \/ wait[p].on \in {"x", "cb"} /\ sig.x # wait[p].seen
                   \/ wait[p].on = "ev" /\ sig.ev # wait[p].seen}

\* wait(x == v), "cond", and wait(y == v), "prop"
ValueOf(on) == IF on = "prop" THEN sig.y ELSE sig.x

IsFalse(p) == wait[p].on \in {"cond", "prop"} /\ ValueOf(wait[p].on) # wait[p].seen

\* What apply_nba finds to do, and what the cascade looks at
PendingData == sig.nba # NoNba \/ sig.hops # {}
Pending     == PendingData \/ sig.triggers > 0

At(stage) == running = 0 /\ stack # <<>> /\ Head(stack) = stage

Timed == {t \in Times : queue[t] # <<>>}

\* The slot goes on: something is queued for now, or an NBA or its waiter is
\* pending, or nothing is queued at all and a program process waits
SameSlot ==
    \/ time \in Timed \/ PendingData \/ lists["hops"] # <<>>
    \/ Timed = {} /\ lists["reactive"] # <<>>

Stalls == IF pass.advanced THEN 1 ELSE stall + 1
StallLimitHit == design.stallLimit > 0 /\ Stalls > design.stallLimit

\* A process that has had all the activations of this time
Spent(p) == design.stallLimit > 0 /\ pass.hits[p] >= design.stallLimit

\* One that was put off, and is queued for now
Spinning == \E i \in DOMAIN queue[time] : Spent(queue[time][i])

-------------------------------------------------------------------------------
(* Properties *)

\* Every variable has its type; the lists hold processes, the event one of its
\* three values.
SlotTypes ==
    /\ design \in Designs
    /\ time \in Times
    /\ queue \in [Times -> Seq(Procs)]
    /\ lists \in [ListNames -> Seq(Procs)]
    /\ batch \in Seq(Procs)
    /\ running \in Procs \cup {0}
    /\ wait \in [Procs -> Waits]
    /\ sig \in Sigs
    /\ pass \in Passes
    /\ strobe \in BOOLEAN
    /\ asserts \subseteq Procs
    /\ stall \in Nat
    /\ left \in 0 .. design.runs

\* Where in s, which is a list of the kind and of a name or a time, process p is
Entries(kind, of, s, p) == {<<kind, of, i>> : i \in {j \in DOMAIN s : s[j] = p}}

\* All the places of process p: in the lists, in the event queue, in the batch
Where(p) ==
    (UNION {Entries("list", l, lists[l], p) : l \in ListNames})
    \cup (UNION {Entries("queue", t, queue[t], p) : t \in Times})
    \cup Entries("batch", 0, batch, p)
    \cup {<<"running", 0, 0>> : r \in {running} \cap {p}}

\* Whatever passes move a continuation between the eight lists of a slot, a process
\* that has begun and not ended is in exactly one of them: none is lost (it would
\* never run again) and none is there twice (it would run twice).
OneContinuation ==
    \A p \in Procs : IF wait[p].on \in {"unborn", "gone"} THEN Where(p) = {}
                     ELSE \E place \in Where(p) : Where(p) = {place}

\* The same, with every value of its type.
WaitsOnce == SlotTypes /\ OneContinuation

\* When a tick comes to its NBA region its Active and Inactive regions are empty,
\* although both put work in each other, and the waits in both: unless a process that
\* has used up its activations of this time is queued, which is put off in the middle of
\* a region, with what is queued behind it.  (What the NBA region itself queues before
\* it commits is not meant, see NbaAfterActive.)
ActiveIsDone ==
    At("preNba") /\ stack[2] = "commit" =>
        Spinning \/ (queue[time] = <<>> /\ lists["inactive"] = <<>>)

SlotEnds == time' # time \/ (stack' = <<>> /\ stack # <<>>)
LivelockBroken == At("spinner") \/ (SameSlot /\ StallLimitHit)

\* A time slot ends, in an advance or at the end of the run, only when all its
\* regions are empty: no continuation, no assignment and no waiter of an assignment
\* is carried into a later time, whatever order the late passes ran in.  Breaking
\* a livelock is the exception.
SlotIsEmpty ==
    [][SlotEnds /\ ~LivelockBroken =>
          /\ ~PendingData
          /\ queue[time] = <<>>
          /\ \A l \in {"inactive", "ready", "clocking", "reactive", "hops"} :
                lists[l] = <<>>]_slotVars

\* When a slot ends no parked wait(y == v) is true, although a round looks at it only
\* when the bits of y are noted, and takes the notes of all; and a parked
\* wait(x == v) that is true was looked at by a re-pass in this slot: it is missed only by
\* the rule that a re-pass looks at it once per time.  The exception is a slot left
\* because a process was put off, after which no wait is looked at; one that is left at
\* the limit of ticks is none.
NoTrueWaitLeft ==
    [][SlotEnds /\ ~pass.defer => \A i \in DOMAIN lists["conds"] :
          LET p == lists["conds"][i]
          IN  IsFalse(p) \/ (wait[p].on # "prop" /\ p \in pass.rechecked)]_slotVars

\* The passes of a slot repeat while they find work; with finitely many activations
\* that do anything the run comes to its end, so no pass keeps another one going
\* for nothing (a wait that is looked at, parks and is looked at again).
RunEnds == <>(stack = <<>>)

-------------------------------------------------------------------------------
(* What comments and tests say of the slot and the code does not keep *)

\* A change of a signal that an edge block is sensitive to is not erased by a
\* snapshot before check_edges looked at it (in_edge_cont, simulator.rs:8355).
NoEdgeErased ==
    [][design.watched /\ sig'.prev # sig.prev => At("edges")]_slotVars

\* A deferred trigger ->> fires in the slot of its statement (statements.rs:6341).
TriggerInSlot == [][SlotEnds => sig.triggers = 0]_slotVars

\* Every time slot prints its own $strobe (tests/scheduling).
StrobeInSlot == [][SlotEnds => ~strobe]_slotVars

\* An @x waiter resumes in the slot of the change of x.
EdgeInSlot ==
    [][SlotEnds => \A i \in DOMAIN lists["events"] : lists["events"][i] \notin Triggered]_slotVars

Commits == Pending /\ sig'.nba = NoNba /\ sig'.hops = {} /\ sig'.triggers = 0

\* #0 continuations parked by a round's active-region work run before its
\* assignments commit (event_loop.rs:312).
NbaAfterInactive == [][Commits => lists["inactive"] = <<>>]_slotVars

\* #0 continuations are drained until none is left before the caller commits
\* (event_loop.rs:267).  A write that the last cascade of a slot recorded is looked at
\* by the next drain_inactive_pre_nba, and whom it wakes may park again.
NbaAfterActive ==
    [][At("commit") => queue[time] = <<>> /\ lists["inactive"] = <<>>]_slotVars

\* A request to put a process off is not served at a later time, where it would jump
\* past what is due there (event_loop.rs:2463)
DeferInTime ==
    [][At("spinner") /\ pass.defer => Spinning]_slotVars

\* A process parked at @(nba) resumes after its own assignment committed
\* (drain_nba_region_waiters).
HopSees ==
    [][lists["hops"] # <<>> /\ lists'["hops"] = <<>> => sig.hops = {}]_slotVars
=============================================================================
