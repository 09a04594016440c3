------------------------------ MODULE NonBlocking ------------------------------
(***************************************************************************)
(* Non-blocking assignments.  A compiled assignment goes to nba_fast, where *)
(* nba_fast_index finds the latest entry of a signal so that an assignment *)
(* of part of it can be merged, and an assignment that changes nothing is  *)
(* left out; one whose target has no id goes to nba_queue; those with a    *)
(* delay wait in delayed_nba and delayed_nba_queue.  apply_nba commits      *)
(* them in the NBA region.  Edge blocks that are "pure" run on threads, each *)
(* with a queue of its own.                                                *)
(*                                                                         *)
(* A process or a block that runs alone does the same to the queues, so    *)
(* Assign stands for both.  Values are functions from the bits to {0, 1};  *)
(* x, z, widths, signs and conversions are left out, and so is packed_nba, *)
(* a list of the same kind for cells that nothing else writes.             *)
(***************************************************************************)
EXTENDS Integers, Sequences, FiniteSets

CONSTANTS Signals, Bits,
          Blocks,      \* the compiled edge blocks
          Designs,     \* see Design
          MaxTime,     \* bound: the last slot of all
          None         \* no bit value

\* A design: what each block assigns, the forms of assignment that occur, and
\* two bounds: the assignments of one window or with a delay, and the last slot
AllForms == {"compiled", "dyn", "statement", "blocking", "queue", "delayed",
             "delayedQueue"}
Design == [layout : [Blocks -> SUBSET Signals], forms : SUBSET AllForms,
           limit : Nat, last : 0 .. MaxTime]

ASSUME NbaAssumption ==
    /\ MaxTime \in Nat
    /\ None \notin {0, 1}
    /\ Designs \subseteq Design

VARIABLES
    design,
    table,    \* signal_table
    fast, index,          \* nba_fast, and nba_fast_index (0: no entry)
    queue,                \* nba_queue
    delayed, delayedQueue, \* delayed_nba, delayed_nba_queue
    time,
    phase,         \* "serial"; "threads" run; "merge": their results are taken
    threads, out,  \* the blocks that run on threads, and their nba_out
    want,     \* history: the bits last assigned in this window
    wantAt,   \* history: the value last assigned, with a delay, for a slot
    spoiled,  \* history: why the reference may differ from the code, by signal
    writes    \* history: the assignments made in this window

nbaVars == <<design, table, fast, index, queue, delayed, delayedQueue, time,
          phase, threads, out, want, wantAt, spoiled, writes>>

fastVars == <<fast, index>>

Values  == [Bits -> {0, 1}]
Times   == 0 .. MaxTime
Masks   == (SUBSET Bits) \ {{}}
Wanted  == [Bits -> {0, 1, None}]
NoValue == [b \in Bits |-> None]

\* An assignment of the bits of mask, to the ones of val.
Writes  == {w \in [id : Signals, mask : Masks, val : Values] :
               \A b \in Bits \ w.mask : w.val[b] = 0}
Entries == [id : Signals, val : Values]

\* Where the code is known to differ from the order of assignments: see Spoil.
Causes == {"blocking", "isolated", "dyn", "queue"}

Merge(v, w)  == [b \in Bits |-> IF b \in w.mask THEN w.val[b] ELSE v[b]]
Overlay(v, u) == [b \in Bits |-> IF u[b] = None THEN v[b] ELSE u[b]]
IsWhole(w)   == w.mask = Bits
-----------------------------------------------------------------------------
NbaTypes ==
    /\ design \in Designs
    /\ table \in [Signals -> Values]
    /\ fast \in Seq(Entries)
    /\ index \in [Signals -> 0 .. Len(fast)]
    /\ queue \in Seq(Writes)
    /\ delayed \in Seq([at : Times, id : Signals, val : Values])
    /\ delayedQueue \in Seq([at : Times, write : Writes])
    /\ time \in Times
    /\ phase \in {"serial", "threads", "merge"}
    /\ threads \in SUBSET Blocks
    /\ out \in [Blocks -> Seq(Entries)]
    /\ want \in [Signals -> Wanted]
    /\ wantAt \in [Signals \X Times -> Wanted]
    /\ spoiled \in [Signals -> SUBSET Causes]
    /\ writes \in 0 .. design.limit

NbaInit ==
    /\ design \in Designs
    /\ table = [s \in Signals |-> [b \in Bits |-> 0]]
    /\ fast = <<>> /\ index = [s \in Signals |-> 0]
    /\ queue = <<>> /\ delayed = <<>> /\ delayedQueue = <<>>
    /\ time = 0
    /\ phase = "serial" /\ threads = {} /\ out = [b \in Blocks |-> <<>>]
    /\ want = [s \in Signals |-> NoValue]
    /\ wantAt = [p \in Signals \X Times |-> NoValue]
    /\ spoiled = [s \in Signals |-> {}]
    /\ writes = 0
-----------------------------------------------------------------------------
(* History.                                                                  *)
Assigned(s)  == want[s] # NoValue
IsQueued(s)  == \E i \in DOMAIN queue : queue[i].id = s

Spoil(s, causes) == spoiled' = [spoiled EXCEPT ![s] = @ \cup causes]
Want(w) == want' = [want EXCEPT ![w.id] = [b \in Bits |->
                       IF b \in w.mask THEN w.val[b] ELSE @[b]]]

CountWrite == writes < design.limit /\ writes' = writes + 1

Also(cause, holds) == IF holds THEN {cause} ELSE {}

-----------------------------------------------------------------------------
(* Immediate assignments.                                                    *)

Push(s, v) ==
    /\ fast' = Append(fast, [id |-> s, val |-> v])
    /\ index' = [index EXCEPT ![s] = Len(fast) + 1]

\* Mutant: the elision looks at the signal only (issue #142).
ScheduleElidesFirst(w) ==
    LET s == w.id IN
    IF Merge(table[s], w) = table[s]
    THEN UNCHANGED fastVars
    ELSE IF index[s] # 0
    THEN /\ fast' = [fast EXCEPT ![index[s]].val = Merge(@, w)]
         /\ index' = index
    ELSE Push(s, Merge(table[s], w))

\* The compiled forms: NbaAssign, NbaAssignConst, NbaAssignArray,
\* NbaAssignRange, NbaAssignBitDyn and the arms of NbaAssignRangeDyn that leave
\* bits out.
Schedule(w) ==
    LET s == w.id IN
    IF index[s] # 0
    THEN /\ fast' = [fast EXCEPT ![index[s]].val = Merge(@, w)]
         /\ index' = index
    ELSE IF Merge(table[s], w) = table[s]
    THEN UNCHANGED fastVars
    ELSE Push(s, Merge(table[s], w))

\* The arm of NbaAssignRangeDyn for a range that covers the signal.
ScheduleDynWhole(w) ==
    IF table[w.id] = w.val THEN UNCHANGED fastVars ELSE Push(w.id, w.val)

\* A statement that is interpreted, and the calls of native code for a whole
\* signal, make a new entry always.
ScheduleStatement(w) == Push(w.id, w.val)

Frame == UNCHANGED <<design, time, phase, threads, out>>

Assign ==
    /\ phase = "serial" /\ CountWrite
    /\ \E w \in Writes, form \in design.forms :
          /\ \/ form = "compiled" /\ Schedule(w)
             \/ form = "dyn" /\ IsWhole(w) /\ ScheduleDynWhole(w)
             \/ form = "statement" /\ IsWhole(w) /\ ScheduleStatement(w)
          /\ Want(w)
          /\ Spoil(w.id, Also("queue", IsQueued(w.id))
                         \cup Also("dyn", form = "dyn" /\ index[w.id] # 0))
    /\ UNCHANGED <<table, queue, delayed, delayedQueue, wantAt>> /\ Frame

\* enqueue_context_nba without a delay: what the target's name means is found
\* out when it is committed.
Enqueue ==
    /\ "queue" \in design.forms /\ phase = "serial" /\ CountWrite
    /\ \E w \in Writes :
          /\ queue' = Append(queue, w)
          /\ Want(w)
    /\ UNCHANGED <<table, fastVars, delayed, delayedQueue, wantAt, spoiled>>
    /\ Frame

\* A blocking assignment: pending assignments hold the other bits, or were
\* left out because they changed nothing.
AssignBlocking ==
    /\ "blocking" \in design.forms /\ phase = "serial" /\ CountWrite
    /\ \E w \in Writes :
          /\ Merge(table[w.id], w) # table[w.id]
          /\ table' = [table EXCEPT ![w.id] = Merge(@, w)]
          /\ Spoil(w.id, Also("blocking", Assigned(w.id)))
    /\ UNCHANGED <<fastVars, queue, delayed, delayedQueue, want, wantAt>> /\ Frame
-----------------------------------------------------------------------------
(* Assignments with a delay.                                                 *)

HasDelayed(s) == \E i \in DOMAIN delayed : delayed[i].id = s

\* One that has the signal's value is left out, if none is pending (#145).
ScheduleDelayed(s, v, t) ==
    delayed' = IF table[s] = v /\ ~HasDelayed(s)
               THEN delayed
               ELSE Append(delayed, [at |-> t, id |-> s, val |-> v])

RoomForDelayed == Len(delayed) + Len(delayedQueue) < design.limit  \* bound

AssignDelayed ==
    /\ "delayed" \in design.forms /\ phase = "serial" /\ RoomForDelayed
    /\ \E s \in Signals, v \in Values, t \in Times :
          /\ t > time /\ t <= design.last
          /\ ScheduleDelayed(s, v, t)
          /\ wantAt' = IF table[s] = v /\ ~HasDelayed(s) THEN wantAt
                       ELSE [wantAt EXCEPT ![<<s, t>>] = v]
    /\ UNCHANGED <<table, fastVars, queue, delayedQueue, want, spoiled, writes>>
    /\ Frame

\* enqueue_context_nba with a delay.
EnqueueDelayed ==
    /\ "delayedQueue" \in design.forms /\ phase = "serial" /\ RoomForDelayed
    /\ \E w \in Writes, t \in Times :
          /\ t > time /\ t <= design.last
          /\ delayedQueue' = Append(delayedQueue, [at |-> t, write |-> w])
          /\ wantAt' = [wantAt EXCEPT ![<<w.id, t>>] = [b \in Bits |->
                            IF b \in w.mask THEN w.val[b] ELSE @[b]]]
    /\ UNCHANGED <<table, fastVars, queue, delayed, want, spoiled, writes>>
    /\ Frame
-----------------------------------------------------------------------------
(* Edge blocks on threads (check_edges).                                     *)
WritersOf(s) == {b \in Blocks : s \in design.layout[b]}

\* Mutant: blocks that share a signal run on threads.
PureAnyWriter(b) == design.layout[b] # {}

\* No other compiled edge block assigns a signal that b assigns.
Pure(b) == design.layout[b] # {} /\ \A s \in design.layout[b] : WritersOf(s) = {b}

Dispatch ==
    /\ phase = "serial"
    /\ \E T \in SUBSET {b \in Blocks : Pure(b)} :
          /\ Cardinality(T) >= 2
          /\ threads' = T
    /\ phase' = "threads"
    /\ UNCHANGED <<design, table, fastVars, queue, delayed, delayedQueue, time,
                   out, want, wantAt, spoiled, writes>>

\* The latest entry of s in a queue; 0 if it has none.
LastAt(q, s) ==
    LET places == {i \in DOMAIN q : q[i].id = s}
    IN  IF places = {} THEN 0 ELSE CHOOSE i \in places : \A j \in places : j <= i

\* exec_insns_isolated: the block sees its own queue and the signals.
Isolated(q, w) ==
    LET k == LastAt(q, w.id) IN
    IF k # 0
    THEN [q EXCEPT ![k].val = Merge(@, w)]
    ELSE IF Merge(table[w.id], w) = table[w.id]
    THEN q
    ELSE Append(q, [id |-> w.id, val |-> Merge(table[w.id], w)])

ThreadAssigns ==
    /\ phase = "threads" /\ CountWrite
    /\ \E b \in threads, w \in Writes :
          /\ w.id \in design.layout[b]
          /\ out' = [out EXCEPT ![b] = Isolated(@, w)]
          /\ Want(w)
          /\ Spoil(w.id, Also("isolated", index[w.id] # 0)
                         \cup Also("queue", IsQueued(w.id)))
    /\ UNCHANGED <<design, table, fastVars, queue, delayed, delayedQueue, time,
                   phase, threads, wantAt>>

ThreadsEnd ==
    /\ phase = "threads"
    /\ phase' = "merge"
    /\ UNCHANGED <<design, table, fastVars, queue, delayed, delayedQueue, time,
                   threads, out, want, wantAt, spoiled, writes>>

Take(b) ==
    /\ fast' = fast \o out[b]
    /\ index' = [s \in Signals |-> IF LastAt(out[b], s) = 0 THEN index[s]
                                   ELSE Len(fast) + LastAt(out[b], s)]

\* The results are taken thread by thread; the blocks come in any order.
MergeThread ==
    /\ phase = "merge"
    /\ \E b \in threads :
          /\ Take(b)
          /\ threads' = threads \ {b}
          /\ out' = [out EXCEPT ![b] = <<>>]
          /\ phase' = IF threads = {b} THEN "serial" ELSE "merge"
    /\ UNCHANGED <<design, table, queue, delayed, delayedQueue, time,
                   want, wantAt, spoiled, writes>>
-----------------------------------------------------------------------------
(* The NBA region (apply_nba_inner) and the clock.                           *)

\* One that is taken out is replaced by the last one (swap_remove).
SwapRemove(q, i) ==
    [k \in 1 .. Len(q) - 1 |-> IF k = i THEN q[Len(q)] ELSE q[k]]

Due(t) == t <= time

\* The scan of delayed_nba: each of its steps commits one or passes one.
Matured ==
    LET Scan[k \in 0 .. Len(delayed)] ==
            IF k = 0
            THEN [at |-> 1, rest |-> delayed, table |-> table]
            ELSE LET c == Scan[k - 1]
                     e == c.rest[c.at]
                 IN  IF Due(e.at)
                     THEN [c EXCEPT !.rest = SwapRemove(@, c.at),
                                    !.table = [@ EXCEPT ![e.id] = e.val]]
                     ELSE [c EXCEPT !.at = @ + 1]
    IN  Scan[Len(delayed)]

\* Every entry holds the whole signal.
CommitFast(tab) ==
    [s \in Signals |-> IF LastAt(fast, s) = 0 THEN tab[s]
                       ELSE fast[LastAt(fast, s)].val]

\* assign_value, write by write.
CommitQueue(tab, q) ==
    LET After[k \in 0 .. Len(q)] ==
            IF k = 0 THEN tab
            ELSE [After[k - 1] EXCEPT ![q[k].id] = Merge(@, q[k])]
    IN  After[Len(q)]

\* The entries of delayed_nba_queue that are due, or those that are not.
Sifted(due) ==
    LET F[k \in 0 .. Len(delayedQueue)] ==
            IF k = 0 THEN <<>>
            ELSE IF Due(delayedQueue[k].at) = due
            THEN Append(F[k - 1], delayedQueue[k])
            ELSE F[k - 1]
    IN  F[Len(delayedQueue)]

DueQueue == [i \in DOMAIN Sifted(TRUE) |-> Sifted(TRUE)[i].write]

NothingPending ==
    /\ fast = <<>> /\ queue = <<>>
    /\ \A i \in DOMAIN delayed : ~Due(delayed[i].at)
    /\ \A i \in DOMAIN delayedQueue : ~Due(delayedQueue[i].at)

Apply ==
    /\ phase = "serial" /\ ~NothingPending
    /\ table' = CommitQueue(CommitFast(Matured.table), DueQueue \o queue)
    /\ delayed' = Matured.rest
    /\ fast' = <<>> /\ index' = [s \in Signals |-> 0]
    /\ queue' = <<>>
    /\ delayedQueue' = Sifted(FALSE)
    /\ want' = [s \in Signals |-> NoValue]
    /\ wantAt' = [p \in Signals \X Times |-> IF p[2] = time THEN NoValue
                                             ELSE wantAt[p]]
    /\ spoiled' = [s \in Signals |-> {}] /\ writes' = 0
    /\ UNCHANGED <<design, time, phase, threads, out>>

\* The clock goes to the next slot in which something is due; the processes
\* may wake in any.
Advance ==
    /\ phase = "serial" /\ NothingPending /\ time < design.last
    /\ time' = time + 1
    /\ want' = [s \in Signals |-> NoValue]
    /\ spoiled' = [s \in Signals |-> {}] /\ writes' = 0
    /\ UNCHANGED <<design, table, fastVars, queue, delayed, delayedQueue,
                   phase, threads, out, wantAt>>

NbaNext == Assign \/ Enqueue \/ AssignBlocking \/ AssignDelayed \/ EnqueueDelayed
        \/ Dispatch \/ ThreadAssigns \/ ThreadsEnd \/ MergeThread
        \/ Apply \/ Advance

NbaSpec == NbaInit /\ [][NbaNext]_nbaVars
-----------------------------------------------------------------------------
(* Properties.                                                               *)

\* The two ways in which assignments with a delay are not kept in order: with
\* one that lands in this slot, an immediate one starts from the value before it;
\* and of two that land in one slot swap_remove may commit the first last.
DueOf(s) ==
    [fast  |-> Cardinality({i \in DOMAIN delayed :
                                delayed[i].id = s /\ Due(delayed[i].at)}),
     queue |-> Cardinality({i \in DOMAIN delayedQueue :
                                delayedQueue[i].write.id = s /\ Due(delayedQueue[i].at)})]

MeetsDelayed(s) ==
    \/ Assigned(s) /\ DueOf(s) # [fast |-> 0, queue |-> 0]
    \/ DueOf(s).fast > 1
    \/ DueOf(s).fast > 0 /\ DueOf(s).queue > 0

\* What the NBA region should leave: the bits assigned last in source order, on
\* top of what a delayed assignment brings.
Reference(s) == Overlay(Overlay(table[s], wantAt[<<s, time>>]), want[s])

LastWinsExcept(excused) ==
    Apply => \A s \in Signals : \/ spoiled[s] \cap excused # {}
                               \/ MeetsDelayed(s)
                               \/ table'[s] = Reference(s)

\* IEEE 1800 10.4.2, quoted at bytecode_runtime.rs:3607: the last assignment
\* of the window wins, bit by bit, whatever was merged, left out or computed on a
\* thread, but for the known Causes.
LastAssignmentWins == [][LastWinsExcept(Causes)]_nbaVars

\* The same between the steps: the value that a signal will have, as the
\* queues say, is what the assignments say.
Pending(s) == IF LastAt(fast, s) = 0 THEN table[s] ELSE fast[LastAt(fast, s)].val
PendingIsMeant ==
    phase = "serial" =>
        \A s \in Signals : (spoiled[s] = {} /\ ~IsQueued(s))
                              => Pending(s) = Overlay(table[s], want[s])

\* A delayed assignment lands in its slot: the clock does not pass it, and the
\* slots before it leave it alone (a delayed assignment is transport, not
\* inertial: statements.rs:4524).  Only a value elided is not there.
DelayedOnTime ==
    /\ \A i \in DOMAIN delayed : delayed[i].at >= time
    /\ \A s \in Signals, t \in Times :
          wantAt[<<s, t>>] # NoValue =>
              /\ t >= time
              /\ \/ \E i \in DOMAIN delayed : delayed[i].id = s /\ delayed[i].at = t
                 \/ \E i \in DOMAIN delayedQueue :
                       delayedQueue[i].write.id = s /\ delayedQueue[i].at = t

\* Together: between the steps the queues say what the assignments made so far
\* say, those of this window and the delayed ones.
QueuesAreMeant == NbaTypes /\ PendingIsMeant /\ DelayedOnTime

\* Without any excuse for the arm of NbaAssignRangeDyn ("every sibling arm
\* already had this guard", bytecode_runtime.rs:4489).
DynLastWins == [][LastWinsExcept(Causes \ {"dyn"})]_nbaVars

\* A signal with one writer is safe on threads ("its single NbaFast entry is
\* correct as-is", two_state.rs:5907).
OneWriterWins == [][LastWinsExcept(Causes \ {"isolated"})]_nbaVars
=============================================================================
