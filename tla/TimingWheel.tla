----------------------------- MODULE TimingWheel -----------------------------
(***************************************************************************)
(* The event queue of simulator.rs, `struct TimingWheel`: a circular array *)
(* of WheelSize FIFO slots for the near future, a bitmap of its occupied   *)
(* slots grouped in words, a sorted map for what lies further ahead, a     *)
(* memoized next time and a count of the entries of each process.  The     *)
(* actions are the calls the event loops make on it, at the simulation     *)
(* time they make them.                                                    *)
(***************************************************************************)
EXTENDS Integers, Sequences, SequencesExt, FiniteSets, FiniteSetsExt

CONSTANTS Pids,       \* process identifiers
          MaxTime,    \* bound: the last simulation time of the model
          MaxEvents,  \* bound: entries waiting, and front entries counted, at once
          WheelSize,  \* WHEEL_SIZE, 4096 in the code
          WordBits,   \* bits of a bitmap word, 64 in the code
          OnePerPid,  \* the callers schedule a process only when it is not queued
          NoEvent     \* "nothing has been popped yet"

ASSUME WheelAssumption ==
    /\ MaxTime \in Nat
    /\ MaxEvents \in Nat
    /\ WheelSize \in Nat \ {0}
    /\ WordBits \in Nat \ {0}
    /\ WheelSize % WordBits = 0
    /\ OnePerPid \in BOOLEAN

VARIABLES time,          \* self.time, the simulation clock
          wheel,         \* slot -> FIFO list
          bitmap,        \* the slots whose bit is set
          occupiedWords, \* number of non-zero bitmap words
          overflow,      \* time -> FIFO list; <<>> where the map has no key
          nextCache,     \* memoized next_time()
          currentTime,   \* the wheel's own clock
          pidCounts,     \* pid -> count; 0 where the map has no key
          frontTime, frontPending, lastPopFront,
          batch,         \* slot_batches: taken by remove(), not run yet
          running        \* the entry run last

wheelVars == <<wheel, bitmap, occupiedWords, overflow, nextCache, currentTime,
               pidCounts, frontTime, frontPending, lastPopFront>>
vars == <<time, wheelVars, batch, running>>

Times   == 0 .. MaxTime
Slots   == 0 .. WheelSize - 1
Words   == WheelSize \div WordBits
NoTime  == MaxTime + 1      \* next_time() = None
Unknown == -1               \* an empty memo
Events  == [pid : Pids, front : BOOLEAN]

Slot(t)   == t % WheelSize
WordOf(s) == s \div WordBits
\* Mutant: one time too many in the window.
InWheelClosed(t) == t <= currentTime + WheelSize
InWheel(t) == t < currentTime + WheelSize

\* The time that an occupied slot stands for.
TimeOf(s) == currentTime + ((s + WheelSize - Slot(currentTime)) % WheelSize)

OverflowTimes == {t \in Times : overflow[t] # <<>>}
MinOr(S, d) == IF S = {} THEN d ELSE Min(S)
CountOf(p, s) == Cardinality({i \in DOMAIN s : s[i].pid = p})
OfOthers(p, s) ==
    LET kept == {i \in DOMAIN s : s[i].pid # p}
        At(j) == CHOOSE i \in kept : Cardinality({k \in kept : k < i}) = j - 1
    IN  [j \in 1 .. Cardinality(kept) |-> s[At(j)]]
Uncount(counts, e) == [counts EXCEPT ![e.pid] = IF @ > 0 THEN @ - 1 ELSE 0]

\* occupied_words after the bitmap becomes b: one per word with a bit set.
NonZeroWords(b) == Cardinality({WordOf(s) : s \in b})

-----------------------------------------------------------------------------
(* Reading the next time.                                                  *)

\* The third phase: the bits of the current word below the current slot.
\* Mutant: the scan as it was before that phase was added.
NoLowBits(word, high) == {}
LowBits(word, high) == word \ high

\* next_time_scan: the rest of the current word, the following words in
\* circular order, the low bits of the current word, then the overflow.
NextTimeScan ==
    LET start == Slot(currentTime)
        word(k) == {s \in bitmap : WordOf(s) = (WordOf(start) + k) % Words}
        first == {s \in word(0) : s >= start}
        later == {k \in 1 .. Words - 1 : word(k) # {}}
        found == IF first # {} THEN first
                 ELSE IF later # {} THEN word(Min(later))
                 ELSE LowBits(word(0), first)
        slot  == Min(found)
        delta == IF slot >= start THEN slot - start ELSE slot + WheelSize - start
    IN IF found # {} THEN currentTime + delta ELSE MinOr(OverflowTimes, NoTime)

CacheUsable == nextCache # Unknown /\ nextCache >= currentTime
NextTime == IF CacheUsable THEN nextCache ELSE NextTimeScan

\* The memo that calling next_time() leaves.
Memo == NextTime

Narrowed(t) == IF nextCache = Unknown THEN Unknown
               ELSE IF t < nextCache THEN t ELSE nextCache

NextTimeAfter(t) ==
    MinOr({u \in {TimeOf(s) : s \in bitmap} \cup OverflowTimes : u > t}, NoTime)

IsEmpty == occupiedWords = 0 /\ OverflowTimes = {}
HasPid(p) == pidCounts[p] > 0

-----------------------------------------------------------------------------
(* What the queue holds.                                                   *)

AllLists == {wheel[s] : s \in Slots} \cup {overflow[t] : t \in Times}
Pending(p) == \E l \in AllLists : \E i \in DOMAIN l : l[i].pid = p
InBatch(p) == \E i \in DOMAIN batch : batch[i].pid = p
Waiting == MapThenSumSet(LAMBDA s : Len(wheel[s]), Slots)
           + MapThenSumSet(LAMBDA t : Len(overflow[t]), Times) + Len(batch)

\* Who may be scheduled, and how much the model lets wait at once.
MayQueue(p) == /\ Waiting < MaxEvents
               /\ OnePerPid => ~Pending(p) /\ ~InBatch(p)

-----------------------------------------------------------------------------
(* Parts shared by the operations.                                         *)

\* Entries es put in slot or overflow list of time t, at its back or front.
PutBack(t, es) ==
    IF InWheel(t) THEN /\ wheel' = [wheel EXCEPT ![Slot(t)] = @ \o es]
                       /\ bitmap' = bitmap \cup {Slot(t)}
                       /\ UNCHANGED overflow
    ELSE /\ overflow' = [overflow EXCEPT ![t] = @ \o es]
         /\ UNCHANGED <<wheel, bitmap>>

PutFront(t, es) ==
    IF InWheel(t) THEN /\ wheel' = [wheel EXCEPT ![Slot(t)] = es \o @]
                       /\ bitmap' = bitmap \cup {Slot(t)}
                       /\ UNCHANGED overflow
    ELSE /\ overflow' = [overflow EXCEPT ![t] = es \o @]
         /\ UNCHANGED <<wheel, bitmap>>

\* move_overflow_into_wheel: lists that the window reaching t now covers are
\* appended to their slots.
\* Mutant: only what is already due is moved.
MovableDue(t) == {u \in OverflowTimes : u <= t}
Movable(t) == {u \in OverflowTimes : u < t + WheelSize}
MovedWheel(t) ==
    [s \in Slots |->
        LET here == {u \in Movable(t) : Slot(u) = s}
        IN IF here = {} THEN wheel[s] ELSE wheel[s] \o overflow[Min(here)]]
MovedBitmap(t) == bitmap \cup {Slot(u) : u \in Movable(t)}
MovedOverflow(t) ==
    [u \in Times |-> IF u \in Movable(t) THEN <<>> ELSE overflow[u]]

UncountAll(es) ==
    [p \in Pids |-> IF pidCounts[p] > CountOf(p, es)
                    THEN pidCounts[p] - CountOf(p, es) ELSE 0]

\* What pop_front leaves of the count of entries put at the head.
FrontLeft == IF frontPending > 0 /\ frontTime = time THEN frontPending - 1
             ELSE frontPending

-----------------------------------------------------------------------------
Init == /\ time = 0
        /\ wheel = [s \in Slots |-> <<>>]
        /\ bitmap = {}
        /\ occupiedWords = 0
        /\ overflow = [t \in Times |-> <<>>]
        /\ nextCache = Unknown
        /\ currentTime = 0
        /\ pidCounts = [p \in Pids |-> 0]
        /\ frontTime = 0 /\ frontPending = 0 /\ lastPopFront = FALSE
        /\ batch = <<>>
        /\ running = NoEvent

\* A delay, a wakeup: any time from now on.
Schedule(p, t) ==
    /\ MayQueue(p)
    /\ t >= time
    /\ pidCounts' = [pidCounts EXCEPT ![p] = @ + 1]
    /\ nextCache' = Narrowed(t)
    /\ PutBack(t, <<[pid |-> p, front |-> FALSE]>>)
    /\ occupiedWords' = NonZeroWords(bitmap')
    /\ UNCHANGED <<time, currentTime, frontTime, frontPending, lastPopFront,
                   batch, running>>

\* A fork child: ahead of what waits for the current time.
ScheduleFront(p) ==
    /\ MayQueue(p)
    /\ frontTime = time => frontPending < MaxEvents     \* bound
    /\ pidCounts' = [pidCounts EXCEPT ![p] = @ + 1]
    /\ frontTime' = time
    /\ frontPending' = (IF frontTime # time THEN 0 ELSE frontPending) + 1
    /\ nextCache' = Narrowed(time)
    /\ PutFront(time, <<[pid |-> p, front |-> TRUE]>>)
    /\ occupiedWords' = NonZeroWords(bitmap')
    /\ UNCHANGED <<time, currentTime, lastPopFront, batch, running>>

\* reorder_slot sorts stably by a rank, 0 for a process without one.
Sorted(s, rank) ==
    LET Before(i, k) == \/ rank[s[i].pid] < rank[s[k].pid]
                        \/ rank[s[i].pid] = rank[s[k].pid] /\ i < k
        At(j) == CHOOSE k \in DOMAIN s :
                     Cardinality({i \in DOMAIN s : Before(i, k)}) = j - 1
    IN [j \in DOMAIN s |-> s[At(j)]]

\* order_time0_processes, before the event loop starts.
ReorderSlot ==
    /\ time = 0 /\ running = NoEvent /\ batch = <<>>
    /\ \E rank \in [Pids -> 0 .. Cardinality(Pids)] :
          wheel' = [wheel EXCEPT ![Slot(0)] = Sorted(@, rank)]
    /\ UNCHANGED <<time, bitmap, occupiedWords, overflow, nextCache, currentTime,
                   pidCounts, frontTime, frontPending, lastPopFront, batch,
                   running>>

\* requeue_slot_batches -> requeue_front: a nested scheduler starts.
RequeueFront ==
    /\ batch # <<>>
    /\ nextCache' = Narrowed(time)
    /\ pidCounts' = [p \in Pids |-> pidCounts[p] + CountOf(p, batch)]
    /\ PutFront(time, batch)
    /\ occupiedWords' = NonZeroWords(bitmap')
    /\ batch' = <<>>
    /\ UNCHANGED <<time, currentTime, frontTime, frontPending, lastPopFront,
                   running>>

\* `while next_time() == Some(time) { pop_front(time) ... }`
PopFront ==
    /\ NextTime = time
    /\ LET w == MovedWheel(time)
           s == Slot(time)
       IN /\ w[s] # <<>>
          /\ running' = Head(w[s])
          /\ wheel' = [w EXCEPT ![s] = Tail(@)]
          /\ bitmap' = IF Len(w[s]) = 1 THEN MovedBitmap(time) \ {s}
                       ELSE MovedBitmap(time)
          /\ nextCache' = IF Len(w[s]) = 1 THEN Unknown ELSE Memo
          /\ pidCounts' = Uncount(pidCounts, Head(w[s]))
    /\ occupiedWords' = NonZeroWords(bitmap')
    /\ overflow' = MovedOverflow(time)
    /\ currentTime' = time
    /\ lastPopFront' = (frontPending > 0 /\ frontTime = time)
    /\ frontPending' = FrontLeft
    /\ UNCHANGED <<time, frontTime, batch>>

\* run_events_until: remove(time) hands the whole slot out as a batch.
RemoveSlot ==
    /\ batch = <<>>
    /\ LET w == MovedWheel(time)
           s == Slot(time)
       IN /\ batch' = w[s]
          /\ wheel' = [w EXCEPT ![s] = <<>>]
          /\ bitmap' = MovedBitmap(time) \ (IF w[s] = <<>> THEN {} ELSE {s})
          /\ nextCache' = IF w[s] = <<>> THEN Memo ELSE Unknown
          /\ pidCounts' = UncountAll(w[s])
    /\ occupiedWords' = NonZeroWords(bitmap')
    /\ overflow' = MovedOverflow(time)
    /\ currentTime' = time
    /\ frontPending' = IF frontTime = time THEN 0 ELSE frontPending
    /\ UNCHANGED <<time, frontTime, lastPopFront, running>>

RunBatch == /\ batch # <<>>
            /\ running' = Head(batch)
            /\ batch' = Tail(batch)
            /\ UNCHANGED <<time, wheelVars>>

\* remove_pid.  When the wheel holds no entry of p, only the first one in the
\* first overflow list that has one is removed.
RemovePid(p) ==
    /\ HasPid(p)
    /\ LET inWheel == \E s \in Slots : CountOf(p, wheel[s]) > 0
           far == {t \in OverflowTimes : CountOf(p, overflow[t]) > 0}
           kept == [s \in Slots |-> OfOthers(p, wheel[s])]
       IN /\ wheel' = kept
          /\ bitmap' = bitmap \ {s \in Slots : wheel[s] # <<>> /\ kept[s] = <<>>}
          /\ \/ /\ inWheel
                /\ overflow' = [t \in Times |-> IF t \in OverflowTimes
                                                THEN OfOthers(p, overflow[t])
                                                ELSE <<>>]
             \/ /\ ~ inWheel /\ far = {}
                /\ UNCHANGED overflow
             \/ /\ ~ inWheel
                /\ \E t \in far : \E i \in DOMAIN overflow[t] :
                      /\ \A u \in far : t <= u
                      /\ overflow[t][i].pid = p
                      /\ \A j \in 1 .. i - 1 : overflow[t][j].pid # p
                      /\ overflow' = [overflow EXCEPT ![t] = RemoveAt(@, i)]
    /\ nextCache' = Unknown
    /\ occupiedWords' = NonZeroWords(bitmap')
    /\ pidCounts' = [pidCounts EXCEPT ![p] = 0]
    /\ UNCHANGED <<time, currentTime, frontTime, frontPending, lastPopFront,
                   batch, running>>

\* The loops move the clock to the least of next_time() and of the clock
\* generators', delayed updates' and timers' times, which may be any.
Advance(t) ==
    /\ batch = <<>>
    /\ t > time
    /\ t <= NextTime
    /\ time' = t
    /\ nextCache' = Memo
    /\ UNCHANGED <<wheel, bitmap, occupiedWords, overflow, currentTime, pidCounts,
                   frontTime, frontPending, lastPopFront, batch, running>>

\* try_break_zero_delay_livelock: the entries of the current time are put off
\* to the next time at which anything (here: the queue, or another source at
\* t) has work.
PutOff(t) ==
    /\ batch = <<>>
    /\ t > time
    /\ t <= NextTimeAfter(time)
    /\ LET w == MovedWheel(time)
           stuck == w[Slot(time)]
           cleared == [w EXCEPT ![Slot(time)] = <<>>]
           near == t < time + WheelSize
       IN /\ wheel' = IF near THEN [cleared EXCEPT ![Slot(t)] = @ \o stuck]
                      ELSE cleared
          /\ overflow' = IF near THEN MovedOverflow(time)
                         ELSE [MovedOverflow(time) EXCEPT ![t] = @ \o stuck]
          /\ bitmap' = IF stuck = <<>> THEN MovedBitmap(time)
                       ELSE (MovedBitmap(time) \ {Slot(time)})
                            \cup (IF near THEN {Slot(t)} ELSE {})
          /\ nextCache' = IF stuck = <<>> THEN nextCache ELSE Unknown
          /\ pidCounts' = [p \in Pids |-> UncountAll(stuck)[p] + CountOf(p, stuck)]
    /\ occupiedWords' = NonZeroWords(bitmap')
    /\ currentTime' = time
    /\ frontPending' = IF frontTime = time THEN 0 ELSE frontPending
    /\ time' = t
    /\ UNCHANGED <<frontTime, lastPopFront, batch, running>>

Next == \/ \E p \in Pids, t \in Times : Schedule(p, t)
        \/ \E p \in Pids : ScheduleFront(p) \/ RemovePid(p)
        \/ ReorderSlot \/ RequeueFront \/ PopFront \/ RemoveSlot \/ RunBatch
        \/ \E t \in Times : Advance(t) \/ PutOff(t)

Spec == Init /\ [][Next]_vars

-----------------------------------------------------------------------------
(* Properties.                                                             *)

\* The queue as the scheduler means it.
QueueAt(t) == IF t >= currentTime /\ InWheel(t) THEN wheel[Slot(t)] ELSE overflow[t]
EQ == INSTANCE EventQueue WITH queue <- [t \in Times |-> QueueAt(t)], taken <- batch

(***************************************************************************)
(* The wheel is a FIFO queue per time: entries come out at the time they   *)
(* were scheduled for, in the order of their scheduling, also when they    *)
(* waited in the overflow map first or went back with a nested scheduler's *)
(* batch.                                                                  *)
(***************************************************************************)
ImplementsEventQueue == EQ!Spec

TypeOK == /\ time \in Times /\ currentTime \in Times
          /\ wheel \in [Slots -> Seq(Events)]
          /\ bitmap \in SUBSET Slots
          /\ occupiedWords \in 0 .. Words
          /\ overflow \in [Times -> Seq(Events)]
          /\ nextCache \in Times \cup {NoTime, Unknown}
          /\ pidCounts \in [Pids -> Nat]
          /\ frontTime \in Times /\ frontPending \in Nat
          /\ lastPopFront \in BOOLEAN
          /\ batch \in Seq(Events)
          /\ running \in Events \cup {NoEvent}

(***************************************************************************)
(* A slot stands for one time: the overflow map only holds times beyond    *)
(* the window, so that no list is appended to a slot in use for another.   *)
(***************************************************************************)
OverflowBeyondWindow == \A t \in OverflowTimes : t >= currentTime + WheelSize

(***************************************************************************)
(* next_time() names the earliest waiting entry, whether it is read from   *)
(* the memo, found by the bitmap's three-phase scan, or in the overflow.   *)
(***************************************************************************)
NextTimeExact ==
    NextTime = MinOr({t \in Times : QueueAt(t) # <<>>}, NoTime)

(***************************************************************************)
(* is_empty(), a counter of bitmap words, agrees with the lists: the main  *)
(* loop ends the run on it.                                                *)
(***************************************************************************)
IsEmptyExact == IsEmpty <=> \A p \in Pids : ~Pending(p)

(***************************************************************************)
(* has_pid(p) is never true of a process with nothing queued: such a       *)
(* process would look suspended for ever and its join never complete.      *)
(***************************************************************************)
HasPidSound == \A p \in Pids : HasPid(p) => Pending(p)

(***************************************************************************)
(* A process with an entry queued is never taken for a finished one.       *)
(***************************************************************************)
HasPidComplete == \A p \in Pids : Pending(p) => HasPid(p)

HasPidExact == HasPidSound /\ HasPidComplete

(***************************************************************************)
(* What the wheel keeps beside its lists (the memo and the bitmap for      *)
(* next_time, occupied_words for is_empty, pid_counts for has_pid) agrees  *)
(* with them.                                                              *)
(***************************************************************************)
IndexesAgree == TypeOK /\ NextTimeExact /\ IsEmptyExact /\ HasPidExact

(***************************************************************************)
(* "remove ALL events for `pid` from both the wheel and overflow".         *)
(***************************************************************************)
RemovePidRemovesAll ==
    [][\A p \in Pids : RemovePid(p) => ~Pending(p)']_vars

(***************************************************************************)
(* last_pop_front "says whether the latest `pop_front` returned one" of    *)
(* the entries schedule_front put at the head.                             *)
(***************************************************************************)
LastPopFrontExact == [][PopFront => (lastPopFront' <=> running'.front)]_vars
=============================================================================
