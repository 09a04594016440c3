---------------------------- MODULE ProcessControl ----------------------------
(***************************************************************************)
(* The life of SystemVerilog processes in the simulator: fork, join, wait  *)
(* fork, the disable statements, the methods of the class `process`, and   *)
(* the scheduler that runs one process at a time until it parks or ends    *)
(* (process_control.rs, processes.rs, statements.rs).                      *)
(*                                                                         *)
(* A process that waits is kept, as a continuation, in one of many lists;  *)
(* every operation has to find it there.  What a body does between two     *)
(* such operations is not modelled: the running process may do any of them *)
(* next.  The order of entries due at one time is TimingWheel's subject;   *)
(* here any entry that is due may be run next.                             *)
(***************************************************************************)
EXTENDS Integers, FiniteSets, FiniteSetsExt

CONSTANTS MaxPid,    \* bound: processes created during a run
          Roots,     \* the initial and always procedures, started at time 0
          MaxTime,   \* bound: the last simulation time
          Usages     \* sets of operations, one of which the design uses

ASSUME ProcessAssumption == /\ MaxPid \in Nat /\ MaxTime \in Nat
                            /\ Roots \in 1 .. MaxPid

Pids  == 1 .. MaxPid
NoPid == 0
Times == 0 .. MaxTime

(***************************************************************************)
(* The lists a waiting process is kept in, by the treatment they get:      *)
(*   event          event_waiters: `@` of a signal                         *)
(*   instance_event instance_event_waiters: `@` of an event of a class     *)
(*   condition      condition_waiters, ready_condition_waiters             *)
(*   inactive       inactive_queue: `#0`                                   *)
(*   nba_region     nba_region_waiters                                     *)
(*   sync_get       mailbox_get_waiters, semaphore_get_waiters             *)
(*   mailbox_put    mailbox_put_waiters                                    *)
(***************************************************************************)
Places == {"event", "instance_event", "condition", "inactive", "nba_region",
           "sync_get", "mailbox_put"}

\* Resumed by the event loop itself, in the pass that took them from the list.
InlinePlaces == {"event", "inactive", "nba_region"}
\* Resumed through the event queue, by whoever fires, writes or delivers.
QueuedPlaces == {"instance_event", "condition", "sync_get", "mailbox_put"}

\* Where kill() and `disable fork` look, and where `disable <name>` looks.
KillPlaces == Places \ {"mailbox_put"}
DisablePlaces == {"event", "instance_event", "sync_get"}
\* Where suspend() looks, in that order, after the event queue.
SuspendPlaces == <<"event", "condition", "inactive", "sync_get">>

JoinTypes == {"join", "join_any"}
NoDelay == -1      \* SuspendedProc.original_delay_expiry = None
Absent  == -2      \* no entry in suspended_proc_info

VARIABLES
    features,        \* the operations that this design uses
    time,            \* self.time
    nextPid,         \* the next process id; ids are never used again
    processParents,  \* child -> live parent, NoPid where the map has no key
    spawner,         \* history: child -> the process that forked it
    forkBlock,       \* fork_block_children of the named fork of each process
    killed, finished,               \* killed_pids, finished_pids
    suspendedPids, suspendedInfo,   \* suspended_pids, suspended_proc_info
    suspendCalled,   \* history: suspend() was called, and resume() not since
    eventQueue,      \* entries [pid, at]
    parked,          \* place -> processes kept there
    joinWaiters,     \* fork ... join, join_any and wait fork
    awaitWaiters,    \* process::await()
    woken,           \* taken from a list by the event loop, not run yet
    current,         \* the running process, or NoPid
    returned         \* whose activation just returned to the event loop

lists == <<eventQueue, parked, joinWaiters, awaitWaiters>>
status == <<killed, finished, suspendedPids, suspendedInfo, suspendCalled>>
tree == <<nextPid, processParents, spawner, forkBlock>>
running == <<woken, current, returned>>
vars == <<features, time, tree, status, lists, running>>

Entries == [pid : Pids, at : Times]
AwaitWaiters == [waiter : Pids, target : Pids]
JoinWaiters == [parent : Pids, children : SUBSET Pids, finished : SUBSET Pids,
                type : JoinTypes, waitFork : BOOLEAN]

TypeOK == /\ features \in Usages
          /\ time \in Times
          /\ nextPid \in 1 .. MaxPid + 1
          /\ processParents \in [Pids -> Pids \cup {NoPid}]
          /\ spawner \in [Pids -> Pids \cup {NoPid}]
          /\ forkBlock \in [Pids -> SUBSET Pids]
          /\ killed \in SUBSET Pids /\ finished \in SUBSET Pids
          /\ suspendedPids \in SUBSET Pids
          /\ suspendedInfo \in [Pids -> Times \cup {NoDelay, Absent}]
          /\ suspendCalled \in SUBSET Pids
          /\ eventQueue \in SUBSET Entries
          /\ parked \in [Places -> SUBSET Pids]
          /\ joinWaiters \in SUBSET JoinWaiters
          /\ awaitWaiters \in SUBSET AwaitWaiters
          /\ woken \in SUBSET Pids
          /\ current \in Pids \cup {NoPid}
          /\ returned \in Pids \cup {NoPid}

-----------------------------------------------------------------------------
(* Reading the state.                                                      *)

Created == 1 .. nextPid - 1
Terminated == killed \cup finished
Queued == {e.pid : e \in eventQueue}
DueNow == {e.pid : e \in {x \in eventQueue : x.at = time}}
Now(S) == {[pid |-> p, at |-> time] : p \in S}
Joining == {w.parent : w \in joinWaiters}
Awaiting == {w.waiter : w \in awaitWaiters}

ChildrenOf(p) == {c \in Pids : processParents[c] = p}

\* collect_fork_descendants: the least set that holds the children of root
\* and the children of its members.
Descendants(root) ==
    {c \in Pids : \A S \in SUBSET Pids :
                     /\ ChildrenOf(root) \subseteq S
                     /\ \A p \in S : ChildrenOf(p) \subseteq S
                     => c \in S}

\* is_pid_suspended: the process waits somewhere, so it has not finished.
\* Mutant: a list forgotten, as happened to each of them once.
SuspendedExceptGetters(p) ==
    \/ p \in suspendedPids \cup Queued \cup Joining \cup Awaiting
    \/ \E place \in Places \ {"sync_get"} : p \in parked[place]
IsPidSuspended(p) ==
    \/ p \in suspendedPids
    \/ p \in Queued
    \/ \E place \in Places : p \in parked[place]
    \/ p \in Joining
    \/ p \in Awaiting

-----------------------------------------------------------------------------
(* Parts shared by the operations.                                         *)

\* The activation of the running process returns to the event loop.
Leave == current' = NoPid /\ returned' = current /\ UNCHANGED woken

\* run_scheduled_process: a killed process does not run, its activation just
\* returns.  Every dispatch goes through here.
\* Mutant: without the check.
StartRunAnyway(p) == current' = p /\ UNCHANGED returned
StartRun(p) == IF p \in killed THEN returned' = p /\ UNCHANGED current
               ELSE current' = p /\ UNCHANGED returned

LoopIdle == current = NoPid /\ returned = NoPid /\ woken = {}

JoinMet(w) == \/ w.type = "join" /\ w.finished = w.children
              \/ w.type = "join_any" /\ (w.finished # {} \/ w.children = {})

\* release_killed_from_join_waiters: S no longer holds any waiter back.
Without(w, S) == [w EXCEPT !.children = @ \ S, !.finished = @ \ S]
Affected(S) == {w \in joinWaiters : w.children \cap S # {}}
\* Mutant: the killed are dropped and nobody looks at the rest.
ReleasedNone(S) == {}
Released(S) == {w \in Affected(S) : JoinMet(Without(w, S))}
JoinWaitersWithout(S) ==
    (joinWaiters \ Affected(S))
        \cup {Without(w, S) : w \in Affected(S) \ Released(S)}

\* wake_await_waiters, among the waiters W that are left.
\* Mutant: nobody is woken.
WokenNone(W, S) == {}
Woken(W, S) == {w \in W : w.target \in S}
Alive(W, dead) == {w.waiter : w \in W} \ dead

\* What kill(), `disable fork` and the other forms of `disable` share: the
\* processes S are marked, looked for in the places given, and removed from
\* the event queue; parents that waited for them go on.
Terminate(S, places, dropAwaits, wakeAwaits) ==
    LET left == IF dropAwaits THEN {w \in awaitWaiters : w.waiter \notin S}
                ELSE awaitWaiters
        up == IF wakeAwaits THEN Woken(left, S) ELSE {}
    IN /\ killed' = killed \cup S
       /\ processParents' =
              [p \in Pids |-> IF p \in S THEN NoPid ELSE processParents[p]]
       /\ parked' = [pl \in Places |-> IF pl \in places THEN parked[pl] \ S
                                       ELSE parked[pl]]
       /\ joinWaiters' = JoinWaitersWithout(S)
       /\ awaitWaiters' = left \ up
       /\ eventQueue' = {e \in eventQueue : e.pid \notin S}
                            \cup Now({w.parent : w \in Released(S)})
                            \cup Now(Alive(up, killed'))

-----------------------------------------------------------------------------
(* The end of an activation.                                               *)

\* child_finished, in its order: the completion is recorded in the join
\* waiters, those whose condition holds are taken out, and the children of the
\* finished process become children of its parent.
CompletedBy(c, w) == IF c \in w.children THEN [w EXCEPT !.finished = @ \cup {c}]
                                          ELSE w
Recorded(c) == {CompletedBy(c, w) : w \in joinWaiters}
Asked(c, W) == {w \in W : (w.waitFork \/ c \in w.children) /\ JoinMet(w)}
MetBy(c)     == Asked(c, Recorded(c))
LeftJoining(c) == Recorded(c) \ MetBy(c)
\* Mutant: the grandchildren are nobody's children.
ParentsOrphaned(c) == [processParents EXCEPT ![c] = NoPid]
ParentsAfter(c) ==
    [p \in Pids |-> IF p = c THEN NoPid
                    ELSE IF processParents[p] = c /\ processParents[c] # NoPid
                         THEN processParents[c] ELSE processParents[p]]

ChildFinished(c) ==
    LET up == Woken(awaitWaiters, {c})
    IN /\ finished' = finished \cup {c}
       /\ awaitWaiters' = awaitWaiters \ up
       /\ processParents' = ParentsAfter(c)
       /\ joinWaiters' = LeftJoining(c)
       /\ eventQueue' = eventQueue \cup Now(Alive(up, killed))
                                   \cup Now({w.parent : w \in MetBy(c)})

\* `if !is_pid_suspended(pid) { child_finished(pid) }`, after every run.
AfterRun ==
    /\ returned # NoPid
    /\ IF IsPidSuspended(returned)
       THEN UNCHANGED <<finished, awaitWaiters, processParents, joinWaiters, eventQueue>>
       ELSE ChildFinished(returned)
    /\ returned' = NoPid
    /\ UNCHANGED <<time, nextPid, spawner, forkBlock, killed, suspendedPids,
                   suspendedInfo, suspendCalled, parked, woken, current>>

-----------------------------------------------------------------------------
(* What the running process does.                                          *)

Runs == current # NoPid

End == Runs /\ Leave /\ UNCHANGED <<time, tree, status, lists>>

Delay(d) == /\ Runs
            /\ time + d <= MaxTime
            /\ eventQueue' = eventQueue \cup {[pid |-> current, at |-> time + d]}
            /\ Leave
            /\ UNCHANGED <<time, tree, status, parked, joinWaiters, awaitWaiters>>

Park(place) == /\ Runs
               /\ parked' = [parked EXCEPT ![place] = @ \cup {current}]
               /\ Leave
               /\ UNCHANGED <<time, tree, status, eventQueue, joinWaiters, awaitWaiters>>

\* fork of the next ids; `late` are children that are a delayed assignment.
Fork(n, type, late) ==
    /\ Runs
    /\ nextPid + n <= MaxPid + 1
    /\ LET new == nextPid .. nextPid + n - 1
       IN /\ nextPid' = nextPid + n
          /\ processParents' = [p \in Pids |-> IF p \in new THEN current
                                               ELSE processParents[p]]
          /\ spawner' = [p \in Pids |-> IF p \in new THEN current ELSE spawner[p]]
          /\ forkBlock' = [forkBlock EXCEPT ![current] = new]
          /\ late \subseteq new /\ (late # {} => time < MaxTime)
          /\ eventQueue' = eventQueue \cup Now(new \ late)
                               \cup {[pid |-> p, at |-> time + 1] : p \in late}
          /\ IF type = "join_none" \/ new = {}
             THEN UNCHANGED <<joinWaiters, running>>
             ELSE /\ joinWaiters' = joinWaiters \cup
                        {[parent |-> current, children |-> new, finished |-> {},
                          type |-> type, waitFork |-> FALSE]}
                  /\ Leave
    /\ UNCHANGED <<time, status, parked, awaitWaiters>>

\* `wait fork`: the immediate children, captured now.
WaitFork ==
    /\ Runs
    /\ ChildrenOf(current) # {}
    /\ joinWaiters' = joinWaiters \cup
           {[parent |-> current, children |-> ChildrenOf(current), finished |-> {},
             type |-> "join", waitFork |-> TRUE]}
    /\ Leave
    /\ UNCHANGED <<time, tree, status, eventQueue, parked, awaitWaiters>>

\* proc_await; a target that has terminated does not block.
Await(t) ==
    /\ Runs
    /\ t \in Created \ Terminated
    /\ awaitWaiters' = awaitWaiters \cup {[waiter |-> current, target |-> t]}
    /\ Leave
    /\ UNCHANGED <<time, tree, status, eventQueue, parked, joinWaiters>>

\* proc_kill.  The caller, if it is among them, goes on with its statements.
Kill(t) ==
    /\ Runs
    /\ t \in Created
    /\ LET S == {t} \cup Descendants(t)
       IN /\ Terminate(S, KillPlaces, TRUE, TRUE)
          /\ finished' = finished \ S
          /\ suspendedPids' = suspendedPids \ S
          /\ suspendedInfo' = [p \in Pids |-> IF p \in S THEN Absent
                                              ELSE suspendedInfo[p]]
    /\ UNCHANGED <<time, nextPid, spawner, forkBlock, suspendCalled, running>>

DisableFork ==
    /\ Runs
    /\ Terminate(Descendants(current), KillPlaces, TRUE, TRUE)
    /\ UNCHANGED <<time, nextPid, spawner, forkBlock, finished, suspendedPids,
                   suspendedInfo, suspendCalled, running>>

\* `disable` of the named fork of process f.  A caller among the terminated
\* unwinds to its end.
DisableForkBlock(f) ==
    /\ Runs
    /\ forkBlock[f] # {}
    /\ LET S == forkBlock[f] \cup UNION {Descendants(c) : c \in forkBlock[f]}
       IN /\ Terminate(S, DisablePlaces, TRUE, TRUE)
          /\ IF current \in S THEN Leave ELSE UNCHANGED running
    /\ UNCHANGED <<time, nextPid, spawner, forkBlock, finished, suspendedPids,
                   suspendedInfo, suspendCalled>>

\* `disable` of the label of another process's outermost block.
DisableLabel(q) ==
    /\ Runs
    /\ q \in Created \ {current}
    /\ Terminate({q}, DisablePlaces, TRUE, TRUE)
    /\ UNCHANGED <<time, nextPid, spawner, forkBlock, finished, suspendedPids,
                   suspendedInfo, suspendCalled, running>>

\* `disable` of a task that the processes S execute (active_task_pids).
DisableTask(S) ==
    /\ Runs
    /\ S # {}
    /\ S \subseteq (Created \ Terminated) \ {current}
    /\ \A p \in S : current \notin Descendants(p)
    /\ Terminate(S, DisablePlaces, FALSE, FALSE)
    /\ UNCHANGED <<time, nextPid, spawner, forkBlock, finished, suspendedPids,
                   suspendedInfo, suspendCalled, running>>

\* proc_suspend: takes the process from the first list it is found in.  Found
\* nowhere, it is left alone.
Suspend(t) ==
    /\ Runs
    /\ t \in Created \ (suspendedPids \cup Terminated \cup {current})
    /\ LET found == {i \in DOMAIN SuspendPlaces : t \in parked[SuspendPlaces[i]]}
           place == SuspendPlaces[Min(found)]
       IN \/ /\ t \in Queued
             /\ suspendedInfo' =
                    [suspendedInfo EXCEPT
                        ![t] = Min({e.at : e \in {x \in eventQueue : x.pid = t}})]
             /\ eventQueue' = {e \in eventQueue : e.pid # t}
             /\ suspendedPids' = suspendedPids \cup {t}
             /\ UNCHANGED parked
          \/ /\ t \notin Queued /\ found # {}
             /\ suspendedInfo' =
                    [suspendedInfo EXCEPT
                        ![t] = IF place = "inactive" THEN time ELSE NoDelay]
             /\ parked' = [parked EXCEPT ![place] = @ \ {t}]
             /\ suspendedPids' = suspendedPids \cup {t}
             /\ UNCHANGED eventQueue
          \/ /\ t \notin Queued /\ found = {}
             /\ UNCHANGED <<eventQueue, parked, suspendedPids, suspendedInfo>>
    /\ suspendCalled' = suspendCalled \cup {t}
    /\ UNCHANGED <<time, tree, killed, finished, joinWaiters, awaitWaiters, running>>

ResumeTime(t) == IF suspendedInfo[t] > time THEN suspendedInfo[t] ELSE time
ResumedEntry(t) == {[pid |-> t, at |-> ResumeTime(t)]}
\* Mutant: the record is kept.
InfoKept(t) == suspendedInfo
InfoWithout(t) == [suspendedInfo EXCEPT ![t] = Absent]

\* proc_resume
Resume(t) ==
    /\ Runs
    /\ suspendedInfo[t] # Absent
    /\ suspendedInfo' = InfoWithout(t)
    /\ suspendedPids' = suspendedPids \ {t}
    /\ suspendCalled' = suspendCalled \ {t}
    /\ eventQueue' = eventQueue \cup ResumedEntry(t)
    /\ UNCHANGED <<time, tree, killed, finished, parked, joinWaiters, awaitWaiters,
                   running>>

-----------------------------------------------------------------------------
(* The event loop.                                                         *)

\* The next entry that is due is popped and run.
Dispatch(p) == /\ LoopIdle
               /\ p \in DueNow
               /\ eventQueue' = eventQueue \ Now({p})
               /\ StartRun(p)
               /\ UNCHANGED <<time, tree, status, parked, joinWaiters, awaitWaiters, woken>>

\* A pass over one list takes the processes it resumes, then runs them.
TakeWoken(place, S) ==
    /\ LoopIdle
    /\ S # {} /\ S \subseteq parked[place]
    /\ place # "event" => S = parked[place]
    /\ place = "nba_region" => DueNow = {} /\ parked["inactive"] = {}
    /\ parked' = [parked EXCEPT ![place] = @ \ S]
    /\ woken' = S
    /\ UNCHANGED <<time, tree, status, eventQueue, joinWaiters, awaitWaiters,
                   current, returned>>

RunWoken(p) == /\ current = NoPid /\ returned = NoPid
               /\ p \in woken
               /\ woken' = woken \ {p}
               /\ StartRun(p)
               /\ UNCHANGED <<time, tree, status, lists>>

\* An event, a write, a message, a free place: through the event queue.
WakeQueued(place, p) ==
    /\ Runs \/ LoopIdle
    /\ p \in parked[place]
    /\ parked' = [parked EXCEPT ![place] = @ \ {p}]
    /\ eventQueue' = eventQueue \cup Now({p})
    /\ UNCHANGED <<time, tree, status, joinWaiters, awaitWaiters, running>>

\* promote_inactive_to_active
PromoteInactive ==
    /\ LoopIdle
    /\ parked["inactive"] # {}
    /\ eventQueue' = eventQueue \cup Now(parked["inactive"])
    /\ parked' = [parked EXCEPT !["inactive"] = {}]
    /\ UNCHANGED <<time, tree, status, joinWaiters, awaitWaiters, running>>

\* Nothing is left for this time; the clock moves to the next entry.
AdvanceTime ==
    /\ LoopIdle
    /\ eventQueue # {} /\ DueNow = {}
    /\ parked["inactive"] = {} /\ parked["nba_region"] = {}
    /\ time' = Min({e.at : e \in eventQueue})
    /\ UNCHANGED <<tree, status, lists, running>>

-----------------------------------------------------------------------------
Init == /\ features \in Usages
        /\ time = 0
        /\ nextPid = Roots + 1
        /\ processParents = [p \in Pids |-> NoPid]
        /\ spawner = [p \in Pids |-> NoPid]
        /\ forkBlock = [p \in Pids |-> {}]
        /\ killed = {} /\ finished = {}
        /\ suspendedPids = {}
        /\ suspendedInfo = [p \in Pids |-> Absent]
        /\ suspendCalled = {}
        /\ eventQueue = Now(1 .. Roots)
        /\ parked = [place \in Places |-> {}]
        /\ joinWaiters = {} /\ awaitWaiters = {}
        /\ woken = {} /\ current = NoPid /\ returned = NoPid

Uses(feature) == feature \in features
PlacesInUse == Places \cap features

Body == \/ End
        \/ Uses("delay") /\ Delay(1)
        \/ \E place \in PlacesInUse : Park(place)
        \/ \E n \in 0 .. MaxPid, type \in JoinTypes \cup {"join_none"} :
              \E late \in SUBSET Pids : (late # {} => Uses("delay")) /\ Fork(n, type, late)
        \/ WaitFork
        \/ Uses("await") /\ \E t \in Pids : Await(t)
        \/ Uses("kill") /\ \E t \in Pids : Kill(t)
        \/ Uses("disable_fork") /\ DisableFork
        \/ Uses("fork_label") /\ \E f \in Pids : DisableForkBlock(f)
        \/ Uses("label") /\ \E q \in Pids : DisableLabel(q)
        \/ Uses("task") /\ \E S \in SUBSET Pids : DisableTask(S)
        \/ Uses("suspend") /\ \E t \in Pids : Suspend(t) \/ Resume(t)

Loop == \/ AfterRun
        \/ \E p \in Pids : Dispatch(p) \/ RunWoken(p)
        \/ \E place \in InlinePlaces, S \in SUBSET Pids : TakeWoken(place, S)
        \/ \E place \in QueuedPlaces, p \in Pids : WakeQueued(place, p)
        \/ PromoteInactive \/ AdvanceTime

Next == (Body \/ Loop) /\ UNCHANGED features

Spec == Init /\ [][Next]_vars

-----------------------------------------------------------------------------
(* Properties.                                                             *)

\* Where the one continuation of a process is.
Homes(p) == {<<"queue", e.at>> : e \in {x \in eventQueue : x.pid = p}}
       \cup {<<"parked", place>> : place \in {x \in Places : p \in parked[x]}}
       \cup {<<"join", w>> : w \in {x \in joinWaiters : x.parent = p}}
       \cup {<<"await", w>> : w \in {x \in awaitWaiters : x.waiter = p}}
       \cup {<<"suspended", i>> : i \in {suspendedInfo[p]} \ {Absent}}
       \cup {<<"woken", p>> : x \in woken \cap {p}}
       \cup {<<"running", p>> : x \in {current} \cap {p}}

(***************************************************************************)
(* A process waits in one place at a time, and not while it runs: no       *)
(* interleaving of wakeups, kill, suspend and resume leaves a second copy  *)
(* of a continuation behind, which would run part of the body twice.       *)
(***************************************************************************)
OneContinuation == \A p \in Pids : Cardinality(Homes(p)) <= 1

(***************************************************************************)
(* A process counted as finished, whose context is dropped and whose join  *)
(* has been told, waits nowhere (the comments of is_pid_suspended list     *)
(* the lists that were once forgotten).                                    *)
(***************************************************************************)
FinishedIsDone == \A p \in finished \ killed : Homes(p) = {}

(***************************************************************************)
(* Conversely no process is lost: one that has neither terminated nor      *)
(* returned from its activation this very moment waits or runs somewhere.  *)
(***************************************************************************)
NoneLost == \A p \in Created \ (Terminated \cup {returned}) : Homes(p) # {}

(***************************************************************************)
(* Together: whatever kill, disable, suspend and resume find a process     *)
(* waiting for, it has one continuation as long as it lives.               *)
(***************************************************************************)
WaitsOnce == TypeOK /\ OneContinuation /\ NoneLost

(***************************************************************************)
(* A live process blocked in join, join_any or wait fork waits for a child *)
(* that can still end: termination of the last one by whatever means has   *)
(* resumed it ("without this a parent blocked in `join` would hang         *)
(* forever on a terminated child").                                        *)
(***************************************************************************)
NoStuckJoin ==
    \A w \in joinWaiters :
        IF w.type = "join" THEN \E c \in w.children : c \notin Terminated
        ELSE w.children # {} /\ w.children \cap Terminated = {}

(***************************************************************************)
(* await() blocks "until the target process terminates (FINISHED or        *)
(* KILLED)": no process awaits one that has.                               *)
(***************************************************************************)
NoStuckAwait == \A w \in awaitWaiters : w.target \notin Terminated

(***************************************************************************)
(* The tree that wait fork, disable fork and kill() walk: a live process   *)
(* hangs below its nearest ancestor that has not finished (or below the    *)
(* root of its tree), as long as no ancestor on the way was killed.        *)
(***************************************************************************)
Orphan == MaxPid + 1
NearestAncestor ==
    LET up[p \in Pids] ==
            LET a == spawner[p]
            IN IF a = NoPid THEN NoPid
               ELSE IF a \in killed THEN Orphan
               ELSE IF a \in finished /\ spawner[a] # NoPid THEN up[a]
               ELSE a
    IN up
TreeFollowsForks ==
    \A p \in Created \ Terminated :
        NearestAncestor[p] # Orphan => processParents[p] = NearestAncestor[p]

(***************************************************************************)
(* "A process terminated by `disable fork` must not run any remaining      *)
(* queued continuation": whoever is killed, in a list or in the middle of  *)
(* a pass, never starts to run again.                                      *)
(***************************************************************************)
KilledNeverStarts == [][\A p \in killed : current' = p => current = p]_vars

(***************************************************************************)
(* "All such processes shall be terminated before kill() returns": a       *)
(* killed process does nothing more than return.                           *)
(***************************************************************************)
KilledDoesNothing ==
    [][(current \in killed) => (current' = NoPid /\ UNCHANGED lists)]_vars

\* Everyone forked below p, through whatever became of those in between.
ForkedBelow(p) ==
    LET under[q \in Pids] == spawner[q] # NoPid /\ (spawner[q] = p \/ under[spawner[q]])
    IN {q \in Pids : under[q]}

(***************************************************************************)
(* `disable fork` terminates "all active descendant processes of the       *)
(* calling process (children AND their descendants)".                      *)
(***************************************************************************)
DisableForkTakesAll ==
    [][Runs /\ DisableFork => ForkedBelow(current) \subseteq Terminated']_vars

(***************************************************************************)
(* "The process will not run until `resume()`."                            *)
(***************************************************************************)
SuspendedDoesNotRun == current \notin suspendCalled

(***************************************************************************)
(* resume() of a process suspended in an event control, "event/condition:  *)
(* re-evaluate immediately": it is not simply run past its wait.           *)
(***************************************************************************)
ResumeReturnsToWait ==
    [][\A t \in Pids : suspendedInfo[t] = NoDelay /\ suspendedInfo'[t] = Absent
                          => t \notin Queued']_vars

(***************************************************************************)
(* `wait fork` "blocks until the IMMEDIATE child subprocesses of the       *)
(* calling process complete — and no further".                             *)
(***************************************************************************)
WaitForkImmediate ==
    \A w \in joinWaiters : w.waitFork => \A c \in w.children : spawner[c] = w.parent

(***************************************************************************)
(* "it wakes only when the parent has zero remaining descendants, so it    *)
(* also waits for grandchildren spawned *after* the `wait fork` executed". *)
(***************************************************************************)
WaitForkDescendants ==
    [][\A w \in joinWaiters :
          w.waitFork /\ w.parent \notin Joining' /\ w.parent \notin killed'
              => ForkedBelow(w.parent) \subseteq Terminated']_vars
=============================================================================
