------------------------------- MODULE TimeSlot -------------------------------
(***************************************************************************)
(* The event loop: one tick of run_one_tick, region by region, and what the *)
(* main loop does between two ticks.  A tick may run a region again, and    *)
(* several ticks may belong to one time slot, so the regions still to come   *)
(* are a stack.  Each stage of it is one action; between two stages, and     *)
(* nowhere else, processes run, one activation at a time.                   *)
(*                                                                         *)
(* An activation has one effect and then parks or ends.  There is one       *)
(* variable x, written by blocking and non-blocking assignments and waited  *)
(* for by @x, by a clocking block and by wait(x == v), one property y of a    *)
(* class object, waited for by wait(y == v), and one named event,            *)
(* which is a one-bit signal that toggles.  Edge blocks, continuous          *)
(* assignments, clock generators, delayed updates, VPI callbacks and the    *)
(* limits of 1000 and 10000 rounds, which no bounded activity reaches, are  *)
(* left out; design.watched says that an edge block is sensitive to x.       *)
(***************************************************************************)
EXTENDS TimeSlotState

Tick == <<"active", "preNba", "commit", "edges", "cascade", "mark", "clocking",
          "reactive", "hops", "postponed", "waitsEnd", "late", "promote", "loop">>

LatePass == <<"edges", "cascade", "clocking", "reactive", "hops", "waitsRepass",
              "late">>

\* snapshot_edge_signals: what the edge blocks have seen of a signal is set to its
\* value when a process waits for it; other signals change only when a block fires
Snapshot ==
    IF \E i \in DOMAIN lists["events"] : wait[lists["events"][i]].on \in {"x", "cb"}
    THEN sig.x ELSE sig.prev

EventAfter(ev, n) ==
    CASE n = 0 -> ev
      [] n % 2 = 1 -> IF ev = 1 THEN 0 ELSE 1
      [] OTHER -> IF ev = 1 THEN 1 ELSE 0

NoHits == [p \in Procs |-> 0]

Init ==
    /\ design \in Designs
    /\ time = 0
    /\ LET roots == Only([p \in Procs |-> p], Procs \ design.children)
       IN  /\ queue = [t \in Times |-> IF t = 0 THEN Only(roots, Procs \ design.programs)
                                                ELSE <<>>]
           /\ lists = [l \in ListNames |-> IF l = "reactive" THEN Only(roots, design.programs)
                                                           ELSE <<>>]
    /\ batch = <<>>
    /\ running = 0
    /\ stack = Tick
    /\ wait = [p \in Procs |->
                 [on |-> IF p \in design.children THEN "unborn" ELSE "run", seen |-> 0]]
    /\ sig = [x |-> 0, prev |-> 0, ev |-> Unset, nba |-> NoNba, triggers |-> 0,
              hops |-> {}, ticked |-> Unset, y |-> 0]
    /\ pass = [mode |-> "pre", moved |-> FALSE, progress |-> FALSE, advanced |-> FALSE,
               wrote |-> FALSE, fired |-> FALSE, recorded |-> FALSE, rechecked |-> {},
               noted |-> TRUE, before |-> TRUE, hits |-> NoHits, defer |-> FALSE]
    /\ strobe = FALSE
    /\ asserts = {}
    /\ stall = 0
    /\ left = design.runs

-------------------------------------------------------------------------------
(* One activation of a process *)

Goto(stages) == stack' = stages \o Tail(stack)

\* Who called for this activation: the stage below "run"
Caller == IF Head(stack) = "run" THEN stack[2] ELSE Head(stack)

\* in_edge_cont
Recording ==
    \/ Caller \in {"waiters", "preNba"}
    \/ Caller = "waitRun" /\ pass.mode = "cascade"

\* Whom the running process may fork: the child of a program's process is one too
Unborn == {p \in design.children : /\ wait[p].on = "unborn"
                                   /\ p \in design.programs <=> running \in design.programs}

Park(l, p) == [lists EXCEPT ![l] = Append(@, p)]

InItsRegion == running \notin design.programs \/ Caller = "reactive"

\* A program's process woken outside the Reactive region goes there
\* (run_scheduled_process)
SendToReactive ==
    /\ running \in design.programs
    /\ Caller # "reactive"
    /\ lists' = Park("reactive", running)
    /\ pass' = [pass EXCEPT !.moved = TRUE]
    /\ running' = 0
    /\ UNCHANGED <<design, time, queue, batch, stack, wait, sig, output>>

\* A process that has been activated too often at this time is put off: it is queued
\* for now again, and whoever runs the queue is asked to leave it
Defer ==
    /\ InItsRegion
    /\ Spent(running)
    /\ queue' = [queue EXCEPT ![time] = Append(@, running)]
    /\ pass' = [pass EXCEPT !.defer = TRUE]
    /\ asserts' = asserts \ {running}
    /\ running' = 0
    /\ UNCHANGED <<design, time, lists, batch, stack, wait, sig, strobe, stall, left>>

\* Every other activation counts
HitsAfter == [pass.hits EXCEPT ![running] = IF design.stallLimit > 0 THEN @ + 1 ELSE @]

\* A wait whose condition is still false parks again (park_condition_waiter)
WaitAgain ==
    /\ InItsRegion /\ ~Spent(running)
    /\ IsFalse(running)
    /\ lists' = Park("conds", running)
    /\ pass' = [pass EXCEPT !.hits = HitsAfter]
    /\ asserts' = asserts \ {running}
    /\ running' = 0
    /\ UNCHANGED <<design, time, queue, batch, stack, wait, sig, strobe, stall, left>>

\* The waits of the kind that a write of value v makes true
Met(on, v) == {p \in Procs : wait[p].on = on /\ wait[p].seen = v}

\* Mutant: a promoted wait stays in the list of parked ones
PromotedToo(ls, on, v) ==
    [ls EXCEPT !["ready"] = @ \o Only(ls["conds"], Met(on, v))]

\* check_condition_waiters_for_write: the waits that a write makes true are ready
Promoted(ls, on, v) ==
    [ls EXCEPT !["ready"] = @ \o Only(ls["conds"], Met(on, v)),
               !["conds"] = Only(@, Procs \ Met(on, v))]

\* The world of an activation: what its effect and then its parking change
World == [wait |-> wait, lists |-> lists, queue |-> queue, sig |-> sig]

\* The effect e of an activation.  A fork ... join_none queues the child now
After(e) ==
    CASE e = "write"   -> [World EXCEPT !.sig.x = 1 - @,
                             !.lists = IF design.interpreted
                                       THEN Promoted(@, "cond", 1 - sig.x) ELSE @]
      [] e = "set"     -> [World EXCEPT !.sig.y = 1 - @,
                             !.lists = IF design.interpreted
                                       THEN Promoted(@, "prop", 1 - sig.y) ELSE @]
      [] e = "nba"     -> [World EXCEPT !.sig.nba = 1 - sig.x]
      [] e = "trigger" -> [World EXCEPT !.sig.triggers = @ + 1]
      [] e = "fire"    -> [World EXCEPT !.sig.ev = EventAfter(@, 1)]
      [] e = "fork"    -> LET child == CHOOSE c \in Unborn : \A d \in Unborn : c <= d
                          IN  [World EXCEPT !.queue[time] = Append(@, child),
                                            !.wait[child].on = "run"]
      [] OTHER         -> World

\* A wait goes on: one that was parked, or one that is true at once ("met")
GoesOn(e) == wait[running].on \in {"cond", "prop"} \/ e = "met"

\* Every write of a property notes its name in STORE_WRITE_MASK, and so may the write of
\* another name ("other"), with which it shares its bits
PassAfter(e) ==
    [pass EXCEPT !.wrote = @ \/ e \in {"write", "fire"},
                 !.recorded = @ \/ (e = "write" /\ design.watched /\ Recording),
                 !.progress = @ \/ GoesOn(e),
                 !.advanced = @ \/ GoesOn(e),
                 !.noted = @ \/ e \in {"set", "other"},
                 !.hits = HitsAfter]

\* clocking_event_due_now: the clock of the clocking block has changed and the block
\* has not ticked
ClockingDue(w) == w.sig.ticked \notin {Unset, w.sig.x}

\* Process p parks in the world w: a wait only while its condition is false, @(cb) with those
\* whose clocking event fired if it is due, and @(nba) after a non-blocking
\* assignment of its own to a variable that is no signal
Parked(place, p, w) ==
    CASE place = "end"      -> [w EXCEPT !.wait[p].on = "gone"]
      [] place = "inactive" -> [w EXCEPT !.wait[p].on = "run",
                                  !.lists["inactive"] = Append(@, p)]
      [] place = "delay"    -> [w EXCEPT !.wait[p].on = "run",
                                  !.queue[time + 1] = Append(@, p)]
      [] place = "cond"     -> [w EXCEPT !.wait[p] = [on |-> "cond", seen |-> 1 - w.sig.x],
                                  !.lists["conds"] = Append(@, p)]
      [] place = "prop"     -> [w EXCEPT !.wait[p] = [on |-> "prop", seen |-> 1 - w.sig.y],
                                  !.lists["conds"] = Append(@, p)]
      [] place = "hop"      -> [w EXCEPT !.wait[p].on = "run",
                                  !.lists["hops"] = Append(@, p),
                                  !.sig.hops = @ \cup {p}]
      [] place = "cb" /\ ClockingDue(w) ->
            [w EXCEPT !.wait[p].on = "run", !.lists["clocking"] = Append(@, p)]
      [] OTHER -> [w EXCEPT !.wait[p] = [on |-> place, seen |-> IF place = "ev"
                                                               THEN w.sig.ev ELSE w.sig.x],
                            !.lists["events"] = Append(@, p)]

\* The activation itself: the pending reports of the process are dropped, it has
\* its effect, and it parks
Activate ==
    /\ InItsRegion /\ ~Spent(running)
    /\ ~IsFalse(running)
    /\ \E e \in IF left = 0 THEN {"none"} ELSE design.effects,
          place \in IF left = 0 THEN {"end"} ELSE design.places :
         /\ e = "fork" => Unborn # {}
         /\ place = "delay" => time < MaxTime
         /\ LET w == Parked(place, running, After(e))
            IN  /\ wait' = w.wait
                /\ lists' = w.lists
                /\ queue' = w.queue
                /\ sig' = w.sig
         /\ pass' = PassAfter(e)
         /\ strobe' = (strobe \/ e = "strobe")
         /\ asserts' = (asserts \ {running})
                         \cup (IF e = "assert" THEN {running} ELSE {})
         /\ left' = IF left = 0 THEN 0 ELSE left - 1
    /\ running' = 0
    /\ UNCHANGED <<design, time, batch, stack, stall>>

Run == running # 0 /\ (SendToReactive \/ Defer \/ WaitAgain \/ Activate)

\* The next of the batch runs
RunBatch ==
    /\ At("run")
    /\ IF batch = <<>>
       THEN /\ Goto(<<>>)
            /\ UNCHANGED <<running, batch>>
       ELSE /\ running' = Head(batch)
            /\ batch' = Tail(batch)
            /\ UNCHANGED stack
    /\ UNCHANGED <<design, time, queue, lists, wait, sig, pass, output>>

\* A stage takes the whole of list l, runs it and comes back with rest
TakeAll(l, rest) ==
    /\ batch' = lists[l]
    /\ lists' = [lists EXCEPT ![l] = <<>>]
    /\ Goto(<<"run">> \o rest)
    /\ UNCHANGED <<design, time, queue, running, wait, sig, output>>

Skip(stage) ==
    /\ Goto(stage)
    /\ UNCHANGED <<design, time, places, wait, sig, pass, output>>

-------------------------------------------------------------------------------
(* check_edges, drain_condition_waiters, drain_inactive_pre_nba, the cascade *)

\* The edge blocks first: whether one fires, and prev_val of what it saw
Edges ==
    /\ At("edges")
    /\ LET fires == design.watched /\ sig.x # sig.prev
       IN  /\ pass' = [pass EXCEPT !.fired = @ \/ fires, !.recorded = FALSE]
           /\ sig' = [sig EXCEPT !.prev = IF fires THEN sig.x ELSE @]
    /\ Goto(<<"waiters">>)
    /\ UNCHANGED <<design, time, places, wait, output>>

\* Then the waiters, again and again until none is triggered; those of a clocking
\* event are put aside.  What they wrote is looked at again (the rescan)
Waiters ==
    /\ At("waiters")
    /\ LET woken == Only(lists["events"], Triggered)
           clocked == {p \in Procs : wait[p].on = "cb"}
       IN  \/ /\ woken # <<>>
              /\ batch' = Only(woken, Procs \ clocked)
              /\ lists' = [lists EXCEPT
                    !["events"] = Only(@, Procs \ Triggered),
                    !["clocking"] = @ \o Only(woken, clocked)]
              /\ Goto(<<"run", "waiters">>)
              /\ UNCHANGED <<queue, running>>
           \/ /\ woken = <<>>
              /\ Goto(IF pass.recorded THEN <<"edges">> ELSE <<>>)
              /\ UNCHANGED places
    /\ UNCHANGED <<design, time, wait, sig, pass, output>>

\* drain_condition_waiters(pre_inactive, from_repass), for its four callers
WaitsAs(stage, mode) ==
    /\ At(stage)
    /\ pass' = [pass EXCEPT !.mode = mode]
    /\ Goto(IF mode = "cascade" /\ lists["ready"] = <<>> THEN <<>> ELSE <<"waitRound">>)
    /\ UNCHANGED <<design, time, places, wait, sig, output>>

WaitsStart == \/ WaitsAs("waitsPre", "pre") \/ WaitsAs("cascadeWaits", "cascade")
              \/ WaitsAs("waitsEnd", "end") \/ WaitsAs("waitsRepass", "repass")

\* Mutant: every round of a re-pass looks at every wait
WaitRoundAll ==
    /\ At("waitRound")
    /\ ~pass.defer
    /\ lists["conds"] # <<>> \/ lists["ready"] # <<>>
    /\ queue' = [queue EXCEPT ![time] = @ \o lists["ready"] \o lists["conds"]]
    /\ lists' = [lists EXCEPT !["ready"] = <<>>, !["conds"] = <<>>]
    /\ pass' = [pass EXCEPT !.progress = FALSE, !.noted = FALSE]
    /\ Goto(<<"waitRun", "waitTest">>)
    /\ UNCHANGED <<design, time, batch, running, wait, sig, output>>

\* Mutant: the rule of once per time holds for a gated wait too
KeptOnce(p) == \/ wait[p].on = "prop" /\ ~pass.noted
               \/ pass.mode = "repass" /\ p \in pass.rechecked

\* The parked waits that a round leaves parked: a gated one, which reads nothing but
\* properties and locals, until what it reads is noted as written; another one,
\* in a re-pass, when a re-pass at this time has looked at it
Kept(p) == IF wait[p].on = "prop" THEN ~pass.noted
                                  ELSE pass.mode = "repass" /\ p \in pass.rechecked

\* One round: the ready ones and those parked ones that are not kept are queued to look
\* at their condition
WaitRound ==
    /\ At("waitRound")
    /\ ~pass.defer
    /\ lists["conds"] # <<>> \/ lists["ready"] # <<>>
    /\ LET still == {p \in Procs : Kept(p)}
           wakes == Only(lists["conds"], Procs \ still)
       IN  /\ queue' = [queue EXCEPT ![time] = @ \o lists["ready"] \o wakes]
           /\ lists' = [lists EXCEPT !["ready"] = <<>>,
                           !["conds"] = Only(@, still)]
           /\ pass' = [pass EXCEPT !.progress = FALSE, !.noted = FALSE,
                 !.rechecked = IF pass.mode = "repass"
                               THEN @ \cup {wakes[i] : i \in DOMAIN wakes} ELSE @]
    /\ Goto(<<"waitRun", "waitTest">>)
    /\ UNCHANGED <<design, time, batch, running, wait, sig, output>>

WaitNone ==
    /\ At("waitRound")
    /\ pass.defer \/ (lists["conds"] = <<>> /\ lists["ready"] = <<>>)
    /\ Skip(<<>>)

\* Everything queued for now runs, whoever queued it, unless one is put off
WaitRun ==
    /\ At("waitRun")
    /\ IF pass.defer \/ queue[time] = <<>>
       THEN /\ Goto(<<>>)
            /\ UNCHANGED <<queue, running, pass>>
       ELSE /\ running' = Head(queue[time])
            /\ queue' = [queue EXCEPT ![time] = Tail(@)]
            /\ pass' = [pass EXCEPT !.moved = TRUE]
            /\ UNCHANGED stack
    /\ UNCHANGED <<design, time, lists, batch, wait, sig, output>>

\* apply_nba
Applied == [sig EXCEPT !.x = IF sig.nba = NoNba THEN @ ELSE sig.nba,
                       !.ev = EventAfter(@, sig.triggers),
                       !.nba = NoNba, !.triggers = 0, !.hops = {}]

\* After a round: outside the Active region the NBAs are committed; then another
\* round, unless a #0 waits before it or no wait went on
WaitTest ==
    /\ At("waitTest")
    /\ LET early == pass.mode \in {"pre", "cascade"}
           yields == early /\ lists["inactive"] # <<>>
           again == pass.progress \/ lists["ready"] # <<>>
       IN  /\ sig' = IF early THEN sig ELSE Applied
           /\ Goto(IF ~yields /\ again THEN <<"waitRound">> ELSE <<>>)
    /\ UNCHANGED <<design, time, places, wait, pass, output>>

\* drain_inactive_pre_nba: #0 continuations until none is left, then the rescan
PreNba ==
    /\ At("preNba")
    /\ \/ /\ lists["inactive"] # <<>>
          /\ TakeAll("inactive", <<"preNba">>)
          /\ UNCHANGED pass
       \/ /\ lists["inactive"] = <<>>
          /\ Skip(IF pass.recorded THEN <<"edges">> ELSE <<>>)

\* drain_edge_cascade: one round
Cascade ==
    /\ At("cascade")
    /\ Skip(<<"preNba", "cascadeWaits", "cascadeCommit">>)

CascadeCommit ==
    /\ At("cascadeCommit")
    /\ \/ /\ PendingData \/ lists["inactive"] # <<>>
          /\ sig' = [Applied EXCEPT !.prev = Snapshot]
          /\ pass' = [pass EXCEPT !.fired = FALSE]
          /\ Goto(<<"edges", "cascadeTest">>)
          /\ UNCHANGED <<design, time, places, wait, output>>
       \/ /\ ~PendingData /\ lists["inactive"] = <<>>
          /\ Skip(<<>>)

CascadeTest ==
    /\ At("cascadeTest")
    /\ Skip(IF pass.fired \/ PendingData THEN <<"cascade">> ELSE <<>>)

-------------------------------------------------------------------------------
(* The regions of run_one_tick *)

\* Everything queued for now, then the waits and the #0 continuations.  When a process
\* is put off the region is left as it is
Active ==
    /\ At("active")
    /\ IF pass.defer \/ queue[time] = <<>>
       THEN /\ Goto(IF pass.defer THEN <<>> ELSE <<"waitsPre", "inactive">>)
            /\ UNCHANGED <<queue, running>>
       ELSE /\ running' = Head(queue[time])
            /\ queue' = [queue EXCEPT ![time] = Tail(@)]
            /\ UNCHANGED stack
    /\ UNCHANGED <<design, time, lists, batch, wait, sig, pass, output>>

\* promote_inactive_to_active
Promote(rest) ==
    /\ queue' = [queue EXCEPT ![time] = @ \o lists["inactive"]]
    /\ lists' = [lists EXCEPT !["inactive"] = <<>>]
    /\ Goto(rest)
    /\ UNCHANGED <<design, time, batch, running, wait, sig, pass, output>>

\* Mutant: Active does not run again
InactiveOnce ==
    /\ At("inactive")
    /\ IF lists["inactive"] = <<>> THEN Skip(<<>>) ELSE Promote(<<"edges">>)

\* Once Active is empty the #0 continuations become active, and Active runs again
Inactive ==
    /\ At("inactive")
    /\ IF lists["inactive"] = <<>> THEN Skip(<<>>) ELSE Promote(<<"edges", "active">>)

Commit ==
    /\ At("commit")
    /\ sig' = Applied
    /\ Goto(<<>>)
    /\ UNCHANGED <<design, time, places, wait, pass, output>>

\* tick_clocking_blocks, and tick_late_epoch_start
Mark ==
    /\ At("mark")
    /\ sig' = [sig EXCEPT !.ticked = sig.x]
    /\ pass' = [pass EXCEPT !.moved = FALSE]
    /\ Goto(<<>>)
    /\ UNCHANGED <<design, time, places, wait, output>>

\* drain_deferred_clocking_conts: the continuations, until none is left
Clocking ==
    /\ At("clocking")
    /\ lists["clocking"] # <<>>
    /\ pass' = [pass EXCEPT !.wrote = FALSE, !.before = pass.noted]
    /\ Goto(<<"clockingRun">>)
    /\ UNCHANGED <<design, time, places, wait, sig, output>>

ClockingNone == At("clocking") /\ lists["clocking"] = <<>> /\ Skip(<<>>)

\* an edge pass if they wrote, and a late pass if they left any work
ClockingRun ==
    /\ At("clockingRun")
    /\ \/ /\ lists["clocking"] # <<>>
          /\ TakeAll("clocking", <<"clockingRun">>)
          /\ UNCHANGED pass
       \/ /\ lists["clocking"] = <<>>
          /\ Skip(IF pass.wrote THEN <<"edges", "cascade", "clockingEnd">>
                                ELSE <<"clockingEnd">>)

\* Mutant: no late pass for what the clocking continuations left
ClockingEndQuiet == At("clockingEnd") /\ Skip(<<>>)

ClockingEnd ==
    /\ At("clockingEnd")
    /\ pass' = [pass EXCEPT !.moved =
         \/ @ \/ pass.wrote \/ pass.noted # pass.before \/ Pending \/ queue[time] # <<>>
         \/ \E l \in {"ready", "hops", "reactive", "inactive"} : lists[l] # <<>>]
    /\ Goto(<<>>)
    /\ UNCHANGED <<design, time, places, wait, sig, output>>

\* drain_reactive_region
Reactive ==
    /\ At("reactive")
    /\ \/ /\ lists["reactive"] # <<>>
          /\ pass' = [pass EXCEPT !.moved = TRUE]
          /\ TakeAll("reactive", <<"reactive">>)
       \/ /\ lists["reactive"] = <<>>
          /\ Skip(<<>>)

\* drain_nba_region_waiters: not while Active or Inactive work remains
Hops ==
    /\ At("hops")
    /\ LET due == lists["hops"] # <<>> /\ queue[time] = <<>> /\ lists["inactive"] = <<>>
       IN  \/ /\ due
              /\ pass' = [pass EXCEPT !.moved = TRUE]
              /\ TakeAll("hops", <<>>)
           \/ /\ ~due
              /\ Skip(<<>>)

\* check_monitor, drain_pending_strobes, dump_write_changes
Postponed ==
    /\ At("postponed")
    /\ strobe' = FALSE
    /\ Goto(<<>>)
    /\ UNCHANGED <<design, time, places, wait, sig, pass, asserts, stall, left>>

\* The late regions again while they resume processes; the first of these passes is
\* skipped when a process was put off
Late ==
    /\ At("late")
    /\ pass' = [pass EXCEPT !.moved = FALSE]
    /\ Goto(IF pass.moved /\ (pass.defer => pass.mode = "repass") THEN LatePass ELSE <<>>)
    /\ UNCHANGED <<design, time, places, wait, sig, output>>

PromoteLast == At("promote") /\ Promote(<<>>)

-------------------------------------------------------------------------------
(* The main loop between two ticks *)

\* Nothing can happen any more, or only waiters are left that nothing will wake
Over == Timed = {} /\ (lists["events"] # <<>> \/ lists["reactive"] = <<>>)

\* A new tick; a tick in which a wait went on does not count for the stall limit
TickAt(t) ==
    /\ stack' = Tick
    /\ time' = t
    /\ sig' = [sig EXCEPT !.prev = Snapshot]
    /\ pass' = [pass EXCEPT !.advanced = FALSE, !.defer = FALSE,
                            !.hits = IF t = time THEN @ ELSE NoHits,
                            !.rechecked = IF t = time THEN @ ELSE {}]

\* ... or the limit is passed and nothing is scheduled ahead (abort_run)
Stop ==
    /\ \/ At("loop") /\ Over
       \/ At("loop") /\ SameSlot /\ StallLimitHit /\ Timed \ {time} = {}
       \/ At("spinner") /\ pass.defer /\ Timed \ {time} = {}
    /\ stack' = <<>>
    /\ UNCHANGED <<design, time, places, wait, sig, pass, output>>

\* The slot goes on
SameTime ==
    /\ At("loop")
    /\ ~Over /\ SameSlot /\ ~StallLimitHit
    /\ stall' = Stalls
    /\ Goto(<<"spinner">>)
    /\ UNCHANGED <<design, time, places, wait, sig, pass, strobe, asserts, left>>

\* try_break_zero_delay_livelock: what is stuck at this time moves to the next one, t
BreakTo(t) ==
    /\ t \in Timed \ {time}
    /\ \A u \in Timed \ {time} : t <= u
    /\ queue' = [queue EXCEPT ![time] = <<>>,
                   ![t] = @ \o queue[time] \o lists["inactive"]]
    /\ lists' = [lists EXCEPT !["inactive"] = <<>>]
    /\ stall' = 0
    /\ UNCHANGED <<design, batch, running, wait, strobe, asserts, left>>

\* Too many ticks in this slot
BreakLivelock ==
    /\ At("loop")
    /\ ~Over /\ SameSlot /\ StallLimitHit
    /\ \E t \in Times :
         /\ BreakTo(t)
         /\ time' = t
    /\ pass' = [pass EXCEPT !.hits = NoHits, !.rechecked = {}]
    /\ Goto(<<"spinner">>)
    /\ UNCHANGED sig

\* Then the next tick, or the time that it moves to when a process was put off
NextTick ==
    /\ At("spinner")
    /\ ~pass.defer
    /\ TickAt(time)
    /\ UNCHANGED <<design, places, wait, strobe, asserts, stall, left>>

BreakSpinner ==
    /\ At("spinner")
    /\ pass.defer
    /\ \E t \in Times : BreakTo(t) /\ TickAt(t)

\* mature_deferred_asserts; then the loop looks again
Mature ==
    /\ At("loop")
    /\ ~Over /\ ~SameSlot
    /\ asserts # {}
    /\ asserts' = {}
    /\ UNCHANGED <<design, time, places, stack, wait, sig, pass, strobe, stall, left>>

\* The clock moves
Advance ==
    /\ At("loop")
    /\ ~Over /\ ~SameSlot
    /\ asserts = {}
    /\ \E t \in Timed : (\A u \in Timed : t <= u) /\ TickAt(t)
    /\ stall' = 0
    /\ UNCHANGED <<design, places, wait, strobe, asserts, left>>

Finished == stack = <<>> /\ UNCHANGED slotVars

Next ==
    \/ Run \/ RunBatch
    \/ Edges \/ Waiters \/ WaitsStart \/ WaitRound \/ WaitNone \/ WaitRun \/ WaitTest
    \/ PreNba \/ Cascade \/ CascadeCommit \/ CascadeTest
    \/ Active \/ Inactive \/ Commit \/ Mark \/ Clocking \/ ClockingNone
    \/ ClockingRun \/ ClockingEnd \/ Reactive \/ Hops \/ Postponed \/ Late \/ PromoteLast
    \/ Stop \/ SameTime \/ BreakLivelock \/ NextTick \/ BreakSpinner \/ Mature \/ Advance
    \/ Finished

\* One thread runs the event loop
Spec == Init /\ [][Next]_slotVars /\ WF_slotVars(Next)

=============================================================================
