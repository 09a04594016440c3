-------------------------- MODULE ProcessControlProofs --------------------------
(***************************************************************************)
(* Proofs about ProcessControl.tla, for any number of processes, any root  *)
(* procedures, any time bound and any mixture of operations.               *)
(***************************************************************************)
EXTENDS ProcessControl, FiniteSetTheorems, WellFoundedInduction, TLAPS

-----------------------------------------------------------------------------
\* A design uses the same operations from beginning to end.
LEMMA FeaturesFixed == Spec => [](features \in Usages)
<1>1. Init => features \in Usages
  BY DEF Init
<1>2. features \in Usages /\ [Next]_vars => (features \in Usages)'
  BY DEF Next, vars
<1> QED
  BY <1>1, <1>2, PTL DEF Spec

(***************************************************************************)
(* await() never blocks on a process that has terminated: proc_await does  *)
(* not park on one, and whoever terminates a process wakes those that      *)
(* await it.  `disable` of a task does not, so no design has both.         *)
(***************************************************************************)
THEOREM AwaitNeverStuck ==
  ASSUME \A u \in Usages : ~({"await", "task"} \subseteq u)
  PROVE  Spec => []NoStuckAwait
<1> DEFINE NobodyAwaits == "await" \notin features => awaitWaiters = {}
<1>1. Init => NoStuckAwait /\ NobodyAwaits
  BY DEF Init, NoStuckAwait
<1>2. NobodyAwaits /\ [Next]_vars => NobodyAwaits'
  <2> SUFFICES ASSUME NobodyAwaits, [Next]_vars PROVE NobodyAwaits'
    OBVIOUS
  <2> USE DEF lists, status
  <2>1. CASE "await" \in features
    BY <2>1 DEF Next, vars
  <2>2. CASE "await" \notin features /\ Body
    BY <2>2 DEF Next, vars, Body, Uses, End, Delay, Park, Fork, WaitFork, Kill,
       DisableFork, DisableForkBlock, DisableLabel, DisableTask, Suspend, Resume,
       Terminate, Woken
  <2>3. CASE "await" \notin features /\ Loop
    BY <2>3 DEF Next, vars, Loop, AfterRun, ChildFinished, Woken, Dispatch, RunWoken,
       TakeWoken, WakeQueued, PromoteInactive, AdvanceTime
  <2>4. CASE UNCHANGED vars
    BY <2>4 DEF vars
  <2> QED
    BY <2>1, <2>2, <2>3, <2>4 DEF Next
<1>3. features \in Usages /\ NobodyAwaits /\ NobodyAwaits' /\ NoStuckAwait /\ [Next]_vars
         => NoStuckAwait'
  <2> SUFFICES ASSUME features \in Usages, NobodyAwaits', NoStuckAwait, [Next]_vars
               PROVE  NoStuckAwait'
    OBVIOUS
  <2> USE DEF NoStuckAwait, Terminated
  \* The three forms of termination share Terminate, which wakes.
  <2>1. ASSUME NEW S, NEW places, Terminate(S, places, TRUE, TRUE),
               finished' \subseteq finished
        PROVE  NoStuckAwait'
    <3>1. /\ killed' = killed \cup S
          /\ \A w \in awaitWaiters' : w \in awaitWaiters /\ w.target \notin S
      BY <2>1 DEF Terminate, Woken
    <3> QED
      BY <2>1, <3>1
  <2>2. ASSUME NEW t \in Pids, Await(t) PROVE NoStuckAwait'
    BY <2>2 DEF Await, status
  <2>3. CASE AfterRun
    <3>1. CASE IsPidSuspended(returned)
      BY <2>3, <3>1 DEF AfterRun
    <3>2. CASE ChildFinished(returned)
      <4>1. /\ finished' = finished \cup {returned}
            /\ killed' = killed
            /\ \A w \in awaitWaiters' : w \in awaitWaiters /\ w.target # returned
        BY <2>3, <3>2 DEF AfterRun, ChildFinished, Woken
      <4> QED
        BY <4>1
    <3> QED
      BY <2>3, <3>1, <3>2 DEF AfterRun
  <2>4. ASSUME NEW t \in Pids, Kill(t) PROVE NoStuckAwait'
    <3> DEFINE S == {t} \cup Descendants(t)
    <3>1. Terminate(S, KillPlaces, TRUE, TRUE) /\ finished' = finished \ S
      BY <2>4 DEF Kill
    <3> HIDE DEF S
    <3> QED
      BY <2>1, <3>1
  <2>5. CASE DisableFork
    BY <2>1, <2>5 DEF DisableFork
  <2>6. ASSUME NEW f \in Pids, DisableForkBlock(f) PROVE NoStuckAwait'
    BY <2>1, <2>6 DEF DisableForkBlock
  <2>7. ASSUME NEW q \in Pids, DisableLabel(q) PROVE NoStuckAwait'
    BY <2>1, <2>7 DEF DisableLabel
  \* No other step touches who awaits or who has terminated.
  <2>8. ASSUME UNCHANGED <<awaitWaiters, killed, finished>> PROVE NoStuckAwait'
    BY <2>8
  <2>9. CASE Body /\ UNCHANGED features
    <3>1. CASE End \/ WaitFork \/ Delay(1)
      BY <2>8, <3>1 DEF End, WaitFork, Delay, lists, status
    <3>2. ASSUME NEW place \in PlacesInUse, Park(place) PROVE NoStuckAwait'
      BY <2>8, <3>2 DEF Park, status
    <3>3. ASSUME NEW n, NEW type, NEW late, Fork(n, type, late)
          PROVE  NoStuckAwait'
      BY <2>8, <3>3 DEF Fork, status
    <3>4. ASSUME NEW t \in Pids, Suspend(t) \/ Resume(t) PROVE NoStuckAwait'
      BY <2>8, <3>4 DEF Suspend, Resume
    <3>5. ASSUME NEW S, Uses("task"), DisableTask(S), UNCHANGED features
          PROVE  NoStuckAwait'
      <4>1. "await" \notin features'
        BY <3>5 DEF Uses
      <4> QED
        BY <4>1
    <3> QED
      BY <2>2, <2>4, <2>5, <2>6, <2>7, <2>9, <3>1, <3>2, <3>3, <3>4, <3>5
      DEF Body
  <2>10. CASE Loop
    <3>1. ASSUME NEW p \in Pids, Dispatch(p) \/ RunWoken(p) PROVE NoStuckAwait'
      BY <2>8, <3>1 DEF Dispatch, RunWoken, lists, status
    <3>2. ASSUME NEW place, NEW S, TakeWoken(place, S) PROVE NoStuckAwait'
      BY <2>8, <3>2 DEF TakeWoken, status
    <3>3. ASSUME NEW place, NEW p, WakeQueued(place, p) PROVE NoStuckAwait'
      BY <2>8, <3>3 DEF WakeQueued, status
    <3>4. CASE PromoteInactive \/ AdvanceTime
      BY <2>8, <3>4 DEF PromoteInactive, AdvanceTime, lists, status
    <3> QED
      BY <2>3, <2>10, <3>1, <3>2, <3>3, <3>4 DEF Loop
  <2>11. CASE UNCHANGED vars
    BY <2>8, <2>11 DEF vars, lists, status
  <2> QED
    BY <2>9, <2>10, <2>11 DEF Next
<1> QED
  BY <1>1, <1>2, <1>3, FeaturesFixed, PTL DEF Spec

-----------------------------------------------------------------------------
(***************************************************************************)
(* The inductive invariant behind NoStuckJoin.  A terminated child is      *)
(* recorded in every waiter that still lists it; the waiters that are left *)
(* do not have their condition met; and nothing in any list, nor in the    *)
(* tree, is a process that fork has yet to create, which a later fork      *)
(* would then take for its new child.                                      *)
(***************************************************************************)
TreeOK == /\ nextPid \in 1 .. MaxPid + 1
          /\ processParents \in [Pids -> Created \cup {NoPid}]
          /\ forkBlock \in [Pids -> SUBSET Created]
          /\ Terminated \subseteq Created
          /\ \A c \in Pids : processParents[c] # NoPid
                                => c \in Created \ Terminated

WaitingAreCreated ==
    /\ \A e \in eventQueue : e.pid \in Created
    /\ parked \in [Places -> SUBSET Created]
    /\ \A w \in awaitWaiters : w.waiter \in Created
    /\ suspendedInfo = [p \in Pids |-> suspendedInfo[p]]
    /\ \A p \in Pids : suspendedInfo[p] # Absent => p \in Created
    /\ woken \subseteq Created
    /\ current \in Created \cup {NoPid}
    /\ returned \in Created \cup {NoPid}

WaiterOK(w) == /\ w \in JoinWaiters
               /\ w.parent \in Created
               /\ w.finished \subseteq w.children
               /\ w.children \cap Terminated \subseteq w.finished
               /\ ~ JoinMet(w)

JoinsOK == \A w \in joinWaiters : WaiterOK(w)

IInv == TreeOK /\ WaitingAreCreated /\ JoinsOK

-----------------------------------------------------------------------------
\* A waiter whose condition is not met waits for someone alive.
LEMMA WaitersAreNotStuck == JoinsOK => NoStuckJoin
<1> SUFFICES ASSUME JoinsOK, NEW w \in joinWaiters
             PROVE  IF w.type = "join" THEN \E c \in w.children : c \notin Terminated
                    ELSE w.children # {} /\ w.children \cap Terminated = {}
  BY DEF NoStuckJoin
<1>1. WaiterOK(w) /\ w.type \in JoinTypes
  BY DEF JoinsOK, WaiterOK, JoinWaiters
<1> QED
  BY <1>1 DEF WaiterOK, JoinMet, JoinTypes

\* The descendants of a process exist: the processes that do are closed
\* under taking children.
LEMMA DescendantsAreCreated ==
  ASSUME TreeOK, NEW root \in Pids
  PROVE  Descendants(root) \subseteq Created
<1>1. Created \in SUBSET Pids
  BY ProcessAssumption DEF TreeOK, Created, Pids
<1>2. \A p \in Pids : ChildrenOf(p) \subseteq Created
  BY DEF TreeOK, ChildrenOf, Pids, NoPid
<1> QED
  BY <1>1, <1>2 DEF Descendants

\* Forgetting children that have terminated leaves a waiter in order, unless
\* its condition is met now.
LEMMA WithoutKeepsOrder ==
  ASSUME NEW w \in JoinWaiters, WaiterOK(w), NEW S, ~ JoinMet(Without(w, S))
  PROVE  /\ Without(w, S) \in JoinWaiters
         /\ Without(w, S).parent = w.parent
         /\ Without(w, S).finished \subseteq Without(w, S).children
         /\ Without(w, S).children \cap (Terminated \cup S)
              \subseteq Without(w, S).finished
<1>1. /\ Without(w, S).children = w.children \ S
      /\ Without(w, S).finished = w.finished \ S
      /\ Without(w, S).parent = w.parent
  BY DEF Without, JoinWaiters
<1>2. Without(w, S) \in JoinWaiters
  BY DEF Without, JoinWaiters
<1> QED
  BY <1>1, <1>2 DEF WaiterOK

\* What all the ways to terminate processes keep in order.
LEMMA TerminateKeeps ==
  ASSUME IInv, NEW S \in SUBSET Created, NEW places,
         NEW dropAwaits \in BOOLEAN, NEW wakeAwaits \in BOOLEAN,
         Terminate(S, places, dropAwaits, wakeAwaits),
         finished' = finished \/ finished' = finished \ S,
         nextPid' = nextPid, forkBlock' = forkBlock,
         suspendedInfo' = [p \in Pids |-> suspendedInfo'[p]],
         \A p \in Pids : suspendedInfo'[p] \in {suspendedInfo[p], Absent},
         woken' = woken, current' \in {current, NoPid},
         returned' \in {current, returned}
  PROVE  IInv'
<1> USE DEF IInv
<1>1. Created' = Created /\ Terminated' = Terminated \cup S
  BY DEF Created, Terminated, Terminate
<1>2. TreeOK'
  <2>1. processParents' = [p \in Pids |-> IF p \in S THEN NoPid
                                                  ELSE processParents[p]]
    BY DEF Terminate
  <2> QED
    BY <1>1, <2>1 DEF TreeOK
<1>3. JoinsOK'
  <2> SUFFICES ASSUME NEW w \in joinWaiters' PROVE WaiterOK(w)'
    BY DEF JoinsOK
  <2>1. w \in JoinWaitersWithout(S)
    BY DEF Terminate
  <2>2. CASE w \in joinWaiters \ Affected(S)
    BY <1>1, <2>2 DEF JoinsOK, WaiterOK, Affected, JoinMet
  <2>3. CASE w \in {Without(v, S) : v \in Affected(S) \ Released(S)}
    <3>1. PICK v \in Affected(S) \ Released(S) : w = Without(v, S)
      BY <2>3
    <3>2. /\ v \in JoinWaiters /\ WaiterOK(v)
          /\ ~ JoinMet(Without(v, S))
      BY <3>1 DEF Affected, Released, JoinsOK, WaiterOK
    <3>3. w.parent \in Created
      BY <3>1, <3>2, WithoutKeepsOrder DEF WaiterOK
    <3> QED
      BY <1>1, <3>1, <3>2, <3>3, WithoutKeepsOrder DEF WaiterOK, JoinMet
  <2> QED
    BY <2>1, <2>2, <2>3 DEF JoinWaitersWithout
<1>4. WaitingAreCreated'
  <2> USE DEF WaitingAreCreated
  <2>1. parked' \in [Places -> SUBSET Created]
    BY DEF Terminate
  <2>2. \A w \in awaitWaiters' : w \in awaitWaiters
    BY DEF Terminate
  <2>3. ASSUME NEW e \in eventQueue' PROVE e.pid \in Created
    <3>1. \/ e \in eventQueue
          \/ \E w \in joinWaiters : e.pid = w.parent
          \/ \E w \in awaitWaiters : e.pid = w.waiter
      BY <2>3 DEF Terminate, Now, Released, Affected, Alive, Woken
    <3> QED
      BY <3>1 DEF JoinsOK, WaiterOK
  <2> QED
    BY <1>1, <2>1, <2>2, <2>3
<1> QED
  BY <1>2, <1>3, <1>4

\* Steps that change neither the tree, nor who has terminated, nor the joins.
LEMMA ListsKeep ==
  ASSUME IInv, WaitingAreCreated',
         UNCHANGED <<nextPid, processParents, forkBlock, killed, finished,
                     joinWaiters>>
  PROVE  IInv'
BY DEF IInv, TreeOK, JoinsOK, WaiterOK, JoinMet, Created, Terminated

\* A new waiter with live children and nothing recorded is in order.
LEMMA NewWaiter ==
  ASSUME IInv, NEW w \in JoinWaiters, w.parent \in Created,
         w.children # {}, w.children \cap Terminated = {}, w.finished = {}
  PROVE  WaiterOK(w)
BY DEF WaiterOK, JoinMet

\* The end of an activation.
LEMMA ChildFinishedKeeps ==
  ASSUME IInv, NEW c \in Created, ChildFinished(c), returned' = NoPid,
         UNCHANGED <<nextPid, forkBlock, killed, suspendedInfo, parked, woken,
                     current>>
  PROVE  IInv'
<1> USE DEF IInv
<1>1. Created' = Created /\ Terminated' = Terminated \cup {c}
  BY DEF Created, Terminated, ChildFinished
<1>2. TreeOK'
  <2>1. processParents' = [p \in Pids |->
            IF p = c THEN NoPid
            ELSE IF processParents[p] = c /\ processParents[c] # NoPid
                 THEN processParents[c] ELSE processParents[p]]
    BY DEF ChildFinished, ParentsAfter
  <2>2. processParents' \in [Pids -> Created \cup {NoPid}]
    <3>1. c \in Pids
      BY ProcessAssumption DEF TreeOK, Pids, Created
    <3>2. \A p \in Pids : processParents[p] \in Created \cup {NoPid}
      BY DEF TreeOK
    <3> QED
      BY <2>1, <3>1, <3>2
  <2>3. ASSUME NEW p \in Pids, processParents'[p] # NoPid
        PROVE  p \in Created \ (Terminated \cup {c})
    <3>1. p # c /\ processParents[p] # NoPid
      BY <2>1, <2>3 DEF TreeOK, Created, NoPid
    <3> QED
      BY <3>1 DEF TreeOK
  <2> QED
    BY <1>1, <2>2, <2>3 DEF TreeOK
<1>3. \A v \in joinWaiters : /\ CompletedBy(c, v) \in JoinWaiters
                             /\ CompletedBy(c, v).parent = v.parent
                             /\ CompletedBy(c, v).children = v.children
                             /\ CompletedBy(c, v).finished =
                                   v.finished \cup (v.children \cap {c})
                             /\ CompletedBy(c, v).type = v.type
                             /\ CompletedBy(c, v).waitFork = v.waitFork
  BY DEF CompletedBy, JoinsOK, WaiterOK, JoinWaiters
<1>4. JoinsOK'
  <2> SUFFICES ASSUME NEW w \in joinWaiters' PROVE WaiterOK(w)'
    BY DEF JoinsOK
  <2>1. w \in Recorded(c) /\ w \notin MetBy(c)
    BY DEF ChildFinished, LeftJoining
  <2>2. PICK v \in joinWaiters : w = CompletedBy(c, v)
    BY <2>1 DEF Recorded
  <2>3. WaiterOK(v)
    BY DEF JoinsOK
  <2>4. ~ JoinMet(w)
    <3>1. CASE c \in v.children
      BY <1>3, <2>1, <2>2, <3>1 DEF MetBy, Asked
    <3>2. CASE c \notin v.children
      BY <2>2, <2>3, <3>2 DEF CompletedBy, WaiterOK
    <3> QED
      BY <3>1, <3>2
  <2> QED
    BY <1>1, <1>3, <2>2, <2>3, <2>4 DEF WaiterOK, JoinMet
<1>5. WaitingAreCreated'
  <2> USE DEF WaitingAreCreated
  <2>1. ASSUME NEW e \in eventQueue' PROVE e.pid \in Created
    <3>1. \/ e \in eventQueue
          \/ \E w \in Recorded(c) : e.pid = w.parent
          \/ \E w \in awaitWaiters : e.pid = w.waiter
      BY <2>1 DEF ChildFinished, Now, MetBy, Asked, Alive, Woken
    <3> QED
      BY <1>3, <3>1 DEF Recorded, JoinsOK, WaiterOK
  <2> QED
    BY <1>1, <2>1 DEF ChildFinished
<1> QED
  BY <1>2, <1>4, <1>5

-----------------------------------------------------------------------------
(***************************************************************************)
(* The lists, the tree and the join waiters stay in order.                 *)
(***************************************************************************)
LEMMA ListsInOrder == Spec => []IInv
<1>1. Init => IInv
  <2> SUFFICES ASSUME Init PROVE IInv
    OBVIOUS
  <2> USE ProcessAssumption DEF Init
  <2>1. TreeOK
    BY DEF TreeOK, Created, Terminated, Pids, NoPid
  <2>2. WaitingAreCreated
    BY DEF WaitingAreCreated, Created, Pids, NoPid, Now
  <2>3. JoinsOK
    BY DEF JoinsOK
  <2> QED
    BY <2>1, <2>2, <2>3 DEF IInv
<1>2. IInv /\ [Next]_vars => IInv'
  <2> SUFFICES ASSUME IInv, [Next]_vars PROVE IInv'
    OBVIOUS
  <2>0. /\ Created \subseteq Pids
        /\ NoPid \notin Pids
    BY ProcessAssumption DEF IInv, TreeOK, Created, Pids, NoPid
  <2> USE DEF status, tree, lists, running, Runs
  \* The running process waits or ends.
  <2>1. CASE End \/ Delay(1)
    <3>1. WaitingAreCreated'
      BY <2>1 DEF End, Delay, Leave, IInv, WaitingAreCreated, Created
    <3> QED
      BY <2>1, <3>1, ListsKeep DEF End, Delay
  <2>2. ASSUME NEW place \in Places, Park(place) PROVE IInv'
    <3>1. parked' \in [Places -> SUBSET Created]
      BY <2>2 DEF Park, IInv, WaitingAreCreated
    <3>2. WaitingAreCreated'
      BY <2>2, <3>1 DEF Park, Leave, IInv, WaitingAreCreated, Created
    <3> QED
      BY <2>2, <3>2, ListsKeep DEF Park
  <2>3. ASSUME NEW t \in Pids, Await(t) PROVE IInv'
    <3>1. WaitingAreCreated'
      BY <2>3 DEF Await, Leave, IInv, WaitingAreCreated, Created
    <3> QED
      BY <2>3, <3>1, ListsKeep DEF Await
  <2>4. CASE WaitFork
    <3> DEFINE w == [parent |-> current, children |-> ChildrenOf(current),
                     finished |-> {}, type |-> "join", waitFork |-> TRUE]
    <3>1. current \in Created
      BY <2>4 DEF WaitFork, IInv, WaitingAreCreated
    <3>2. w \in JoinWaiters
      BY <2>0, <3>1 DEF JoinWaiters, ChildrenOf, JoinTypes
    <3>3. ChildrenOf(current) \cap Terminated = {}
      BY <2>0, <3>1 DEF IInv, TreeOK, ChildrenOf
    <3>4. WaiterOK(w)
      BY <2>4, <3>1, <3>2, <3>3, NewWaiter DEF WaitFork
    <3>5. Created' = Created /\ Terminated' = Terminated
      BY <2>4 DEF WaitFork, Created, Terminated
    <3>6. JoinsOK'
      <4>1. \A v \in joinWaiters' : WaiterOK(v)
        BY <2>4, <3>4 DEF WaitFork, IInv, JoinsOK
      <4> QED
        BY <3>5, <4>1 DEF JoinsOK, WaiterOK, JoinMet
    <3>7. TreeOK'
      BY <2>4, <3>5 DEF WaitFork, IInv, TreeOK
    <3>8. WaitingAreCreated'
      BY <2>4, <3>5 DEF WaitFork, Leave, IInv, WaitingAreCreated
    <3> QED
      BY <3>6, <3>7, <3>8 DEF IInv
  \* It forks: the new processes are in no list and have not terminated.
  <2>5. ASSUME NEW n \in 0 .. MaxPid, NEW type \in JoinTypes \cup {"join_none"},
               NEW late \in SUBSET Pids, Fork(n, type, late)
        PROVE  IInv'
    <3> DEFINE new == nextPid .. nextPid + n - 1
               w == [parent |-> current, children |-> new, finished |-> {},
                     type |-> type, waitFork |-> FALSE]
    <3>1. /\ nextPid' = nextPid + n /\ nextPid + n <= MaxPid + 1
          /\ nextPid \in 1 .. MaxPid + 1 /\ n \in Nat
      BY <2>5, ProcessAssumption DEF Fork, IInv, TreeOK
    <3>2. /\ Created \subseteq Created' /\ new \subseteq Created'
          /\ new \subseteq Pids /\ Created \cap new = {}
      <4>1. /\ Created' = 1 .. nextPid + n - 1
            /\ \A i \in new : i \in Int /\ nextPid <= i /\ i <= nextPid + n - 1
        BY <3>1 DEF Created
      <4>2. \A i \in Created : i \in Int /\ 1 <= i /\ i < nextPid
        BY <3>1 DEF Created
      <4>3. \A i \in Created : i \in Created' /\ i \notin new
        BY <3>1, <4>1, <4>2
      <4>4. \A i \in new : i \in Created' /\ i \in Pids
        BY <3>1, <4>1, ProcessAssumption DEF Pids
      <4> QED
        BY <4>3, <4>4
    <3>3. Terminated' = Terminated
      BY <2>5 DEF Fork, Terminated
    <3>4. current \in Created
      BY <2>5 DEF Fork, IInv, WaitingAreCreated
    <3> HIDE DEF new
    <3>5. TreeOK'
      <4>1. processParents' = [p \in Pids |-> IF p \in new THEN current
                                               ELSE processParents[p]]
        BY <2>5 DEF Fork, new
      <4>2. /\ processParents' \in [Pids -> Created' \cup {NoPid}]
            /\ \A c \in Pids : processParents'[c] # NoPid
                                  => c \in Created' \ Terminated'
        BY <3>2, <3>3, <3>4, <4>1 DEF IInv, TreeOK
      <4>3. forkBlock' \in [Pids -> SUBSET Created']
        <5>1. forkBlock' = [forkBlock EXCEPT ![current] = new]
          BY <2>5 DEF Fork, new
        <5> QED
          BY <3>2, <5>1 DEF IInv, TreeOK
      <4>4. nextPid' \in 1 .. MaxPid + 1
        BY <3>1, ProcessAssumption
      <4> QED
        BY <3>2, <3>3, <4>2, <4>3, <4>4 DEF IInv, TreeOK
    <3>6. JoinsOK'
      <4>1. ASSUME NEW v \in joinWaiters', v # w PROVE v \in joinWaiters
        BY <2>5, <4>1 DEF Fork, new
      <4>2. ASSUME w \in joinWaiters', w \notin joinWaiters PROVE WaiterOK(w)
        <5>1. type # "join_none" /\ new # {}
          BY <2>5, <4>2 DEF Fork, new
        <5>2. w \in JoinWaiters
          BY <2>0, <3>2, <3>4, <5>1 DEF JoinWaiters
        <5>3. new \cap Terminated = {}
          BY <3>2 DEF IInv, TreeOK
        <5> QED
          BY <3>4, <5>1, <5>2, <5>3, NewWaiter
      <4>3. \A v \in joinWaiters' : WaiterOK(v)
        BY <4>1, <4>2 DEF IInv, JoinsOK
      <4> QED
        BY <3>2, <3>3, <4>3 DEF JoinsOK, WaiterOK, JoinMet
    <3>7. WaitingAreCreated'
      <4>1. ASSUME NEW e \in eventQueue' PROVE e.pid \in Created'
        <5>1. \/ e \in eventQueue
              \/ e.pid \in new
          BY <2>5, <4>1 DEF Fork, Now, new
        <5> QED
          BY <3>2, <5>1 DEF IInv, WaitingAreCreated
      <4>2. /\ woken' = woken
            /\ \/ current' = current /\ returned' = returned
               \/ current' = NoPid /\ returned' = current
        BY <2>5 DEF Fork, Leave
      <4>3. parked' = parked /\ awaitWaiters' = awaitWaiters
            /\ suspendedInfo' = suspendedInfo
        BY <2>5 DEF Fork
      <4>4. parked' \in [Places -> SUBSET Created']
        BY <3>2, <4>3 DEF IInv, WaitingAreCreated
      <4> QED
        BY <3>2, <4>1, <4>2, <4>3, <4>4 DEF IInv, WaitingAreCreated
    <3> QED
      BY <3>5, <3>6, <3>7 DEF IInv
  \* It terminates processes that exist.
  <2>6. ASSUME NEW t \in Pids, Kill(t) PROVE IInv'
    <3> DEFINE S == {t} \cup Descendants(t)
    <3>1. S \in SUBSET Created
      BY <2>6, DescendantsAreCreated DEF Kill, IInv
    <3>2. /\ Terminate(S, KillPlaces, TRUE, TRUE)
          /\ finished' = finished \ S
          /\ suspendedInfo' = [p \in Pids |-> IF p \in S THEN Absent
                                              ELSE suspendedInfo[p]]
      BY <2>6 DEF Kill
    <3> HIDE DEF S
    <3> QED
      BY <2>6, <3>1, <3>2, TerminateKeeps DEF Kill
  <2>7. CASE DisableFork
    <3>1. Descendants(current) \in SUBSET Created
      BY <2>0, <2>7, DescendantsAreCreated DEF DisableFork, IInv, WaitingAreCreated
    <3> QED
      BY <2>7, <3>1, TerminateKeeps DEF DisableFork, IInv, WaitingAreCreated
  <2>8. ASSUME NEW f \in Pids, DisableForkBlock(f) PROVE IInv'
    <3> DEFINE S == forkBlock[f] \cup UNION {Descendants(c) : c \in forkBlock[f]}
    <3>1. forkBlock[f] \subseteq Created
      BY DEF IInv, TreeOK
    <3>2. S \in SUBSET Created
      BY <2>0, <3>1, DescendantsAreCreated DEF IInv
    <3>3. /\ Terminate(S, DisablePlaces, TRUE, TRUE)
          /\ woken' = woken
          /\ current' \in {current, NoPid} /\ returned' \in {current, returned}
      BY <2>8 DEF DisableForkBlock, Leave
    <3> HIDE DEF S
    <3> QED
      BY <2>8, <3>2, <3>3, TerminateKeeps
      DEF DisableForkBlock, IInv, WaitingAreCreated
  <2>9. ASSUME NEW q \in Pids, DisableLabel(q) PROVE IInv'
    <3>1. {q} \in SUBSET Created
      BY <2>9 DEF DisableLabel
    <3> QED
      BY <2>9, <3>1, TerminateKeeps DEF DisableLabel, IInv, WaitingAreCreated
  <2>10. ASSUME NEW S \in SUBSET Pids, DisableTask(S) PROVE IInv'
    <3>1. S \in SUBSET Created
      BY <2>10 DEF DisableTask
    <3> QED
      BY <2>10, <3>1, TerminateKeeps DEF DisableTask, IInv, WaitingAreCreated
  \* It suspends or resumes one.
  <2>11. ASSUME NEW t \in Pids, Suspend(t) PROVE IInv'
    <3>1. /\ t \in Created
          /\ \A e \in eventQueue' : e \in eventQueue
          /\ parked' \in [Places -> SUBSET Created]
          /\ suspendedInfo' = [p \in Pids |-> suspendedInfo'[p]]
          /\ \A p \in Pids \ {t} : suspendedInfo'[p] = suspendedInfo[p]
      BY <2>11 DEF Suspend, IInv, WaitingAreCreated
    <3>2. WaitingAreCreated'
      BY <2>11, <3>1 DEF Suspend, IInv, WaitingAreCreated, Created
    <3> QED
      BY <2>11, <3>2, ListsKeep DEF Suspend
  <2>12. ASSUME NEW t \in Pids, Resume(t) PROVE IInv'
    <3>1. /\ t \in Created
          /\ suspendedInfo' = [suspendedInfo EXCEPT ![t] = Absent]
          /\ \A e \in eventQueue' : e \in eventQueue \/ e.pid = t
      BY <2>12 DEF Resume, InfoWithout, ResumedEntry, IInv, WaitingAreCreated
    <3>2. WaitingAreCreated'
      BY <2>12, <3>1 DEF Resume, IInv, WaitingAreCreated, Created
    <3> QED
      BY <2>12, <3>2, ListsKeep DEF Resume
  \* The event loop.
  <2>13. CASE AfterRun
    <3>1. CASE IsPidSuspended(returned)
      <4>1. WaitingAreCreated'
        BY <2>13, <3>1 DEF AfterRun, IInv, WaitingAreCreated, Created
      <4> QED
        BY <2>13, <3>1, <4>1, ListsKeep DEF AfterRun
    <3>2. CASE ChildFinished(returned)
      <4>1. returned \in Created
        BY <2>13 DEF AfterRun, IInv, WaitingAreCreated
      <4> QED
        BY <2>13, <3>2, <4>1, ChildFinishedKeeps DEF AfterRun
    <3> QED
      BY <2>13, <3>1, <3>2 DEF AfterRun
  <2>14. ASSUME NEW p \in Pids, Dispatch(p) \/ RunWoken(p) PROVE IInv'
    <3>1. p \in Created
      BY <2>14 DEF Dispatch, RunWoken, DueNow, IInv, WaitingAreCreated
    <3>2. WaitingAreCreated'
      BY <2>14, <3>1 DEF Dispatch, RunWoken, StartRun, IInv, WaitingAreCreated,
                         Created
    <3> QED
      BY <2>14, <3>2, ListsKeep DEF Dispatch, RunWoken
  <2>15. ASSUME NEW place \in Places, NEW S \in SUBSET Pids, TakeWoken(place, S)
         PROVE  IInv'
    <3>1. /\ S \subseteq Created
          /\ parked' \in [Places -> SUBSET Created]
      BY <2>15 DEF TakeWoken, IInv, WaitingAreCreated
    <3>2. WaitingAreCreated'
      BY <2>15, <3>1 DEF TakeWoken, IInv, WaitingAreCreated, Created
    <3> QED
      BY <2>15, <3>2, ListsKeep DEF TakeWoken
  <2>16. ASSUME NEW place \in Places, NEW p \in Pids, WakeQueued(place, p)
         PROVE  IInv'
    <3>1. /\ p \in Created
          /\ parked' \in [Places -> SUBSET Created]
          /\ \A e \in eventQueue' : e \in eventQueue \/ e.pid = p
      BY <2>16 DEF WakeQueued, Now, IInv, WaitingAreCreated
    <3>2. WaitingAreCreated'
      BY <2>16, <3>1 DEF WakeQueued, IInv, WaitingAreCreated, Created
    <3> QED
      BY <2>16, <3>2, ListsKeep DEF WakeQueued
  <2>17. CASE PromoteInactive
    <3>1. /\ parked' \in [Places -> SUBSET Created]
          /\ \A e \in eventQueue' : e \in eventQueue \/ e.pid \in Created
      BY <2>17 DEF PromoteInactive, Now, IInv, WaitingAreCreated, Places
    <3>2. WaitingAreCreated'
      BY <2>17, <3>1 DEF PromoteInactive, IInv, WaitingAreCreated, Created
    <3> QED
      BY <2>17, <3>2, ListsKeep DEF PromoteInactive
  <2>18. CASE AdvanceTime \/ UNCHANGED vars
    <3>1. WaitingAreCreated'
      BY <2>18 DEF AdvanceTime, vars, IInv, WaitingAreCreated, Created
    <3> QED
      BY <2>18, <3>1, ListsKeep DEF AdvanceTime, vars
  <2>19. CASE Body
    <3>1. PlacesInUse \subseteq Places
      BY DEF PlacesInUse
    <3> QED
      BY <2>1, <2>2, <2>3, <2>4, <2>5, <2>6, <2>7, <2>8, <2>9, <2>10, <2>11,
         <2>12, <2>19, <3>1 DEF Body
  <2>20. CASE Loop
    <3>1. InlinePlaces \subseteq Places /\ QueuedPlaces \subseteq Places
      BY DEF InlinePlaces, QueuedPlaces, Places
    <3> QED
      BY <2>13, <2>14, <2>15, <2>16, <2>17, <2>18, <2>20, <3>1 DEF Loop
  <2> QED
    BY <2>18, <2>19, <2>20 DEF Next
<1> QED
  BY <1>1, <1>2, PTL DEF Spec

(***************************************************************************)
(* A parent blocked in join, join_any or wait fork waits for a child that  *)
(* can still end, whatever terminated the others: the end of their bodies, *)
(* kill(), disable fork, or the disabling of a fork, a block or a task     *)
(* ("a parent blocked in `join` would hang forever on a terminated child", *)
(* process_control.rs).                                                    *)
(***************************************************************************)
THEOREM JoinsNeverStuck == Spec => []NoStuckJoin
<1>1. IInv => NoStuckJoin
  BY WaitersAreNotStuck DEF IInv
<1> QED
  BY <1>1, ListsInOrder, PTL

-----------------------------------------------------------------------------
(***************************************************************************)
(* A process waits in one place as long as it lives, and in none once it   *)
(* has finished.                                                           *)
(***************************************************************************)

(***************************************************************************)
(* The processes that have a continuation, by what keeps it: the event     *)
(* queue, one of the lists, a join, an await, suspend(), a pass of the     *)
(* event loop that has not run it yet, or the processor.                   *)
(***************************************************************************)
Listed    == UNION {parked[place] : place \in Places}
Suspended == {p \in Pids : suspendedInfo[p] # Absent}
Running   == {current} \ {NoPid}
Somewhere == Queued \cup Listed \cup Joining \cup Awaiting \cup Suspended
                    \cup woken \cup Running

\* No process is kept by two of these.
Exclusive ==
    /\ Queued \cap (Listed \cup Joining \cup Awaiting \cup Suspended \cup woken
                           \cup Running) = {}
    /\ Listed \cap (Joining \cup Awaiting \cup Suspended \cup woken \cup Running) = {}
    /\ Joining \cap (Awaiting \cup Suspended \cup woken \cup Running) = {}
    /\ Awaiting \cap (Suspended \cup woken \cup Running) = {}
    /\ Suspended \cap (woken \cup Running) = {}
    /\ woken \cap Running = {}

\* None is there twice.
OnceInQueue == \A e, f \in eventQueue : e.pid = f.pid => e = f
OnceListed  == \A a, b \in Places : a # b => parked[a] \cap parked[b] = {}
OnceJoining == \A v, w \in joinWaiters : v.parent = w.parent => v = w
OnceAwaiting == \A v, w \in awaitWaiters : v.waiter = w.waiter => v = w

\* One process has the processor, or has just returned from it, and it was taken
\* from the pass; suspended_pids and suspended_proc_info agree.
Turns == /\ current = NoPid \/ returned = NoPid
         /\ returned \notin woken
         /\ suspendedPids = Suspended

\* Whoever has not ended is somewhere; whoever has finished is nowhere.
LiveIsSomewhere == Created \ (Terminated \cup {returned}) \subseteq Somewhere
FinishedIsNowhere == (finished \ killed) \cap Somewhere = {}

HInv == /\ Exclusive
        /\ OnceInQueue /\ OnceListed /\ OnceJoining /\ OnceAwaiting
        /\ Turns
        /\ LiveIsSomewhere /\ FinishedIsNowhere

-----------------------------------------------------------------------------
(* What is kept, read from the lists.                                       *)

\* Everyone who is somewhere has been created.
LEMMA SomewhereIsCreated ==
  ASSUME IInv
  PROVE  /\ Queued \subseteq Created /\ Listed \subseteq Created
         /\ Joining \subseteq Created /\ Awaiting \subseteq Created
         /\ Suspended \subseteq Created /\ woken \subseteq Created
         /\ Running \subseteq Created /\ Created \subseteq Pids
         /\ NoPid \notin Pids
<1> USE DEF IInv, WaitingAreCreated
<1>1. Queued \subseteq Created /\ Awaiting \subseteq Created
  BY DEF Queued, Awaiting
<1>2. Listed \subseteq Created
  BY DEF Listed
<1>3. Joining \subseteq Created
  BY DEF Joining, JoinsOK, WaiterOK
<1>4. Suspended \subseteq Created /\ Running \subseteq Created
  BY DEF Suspended, Running
<1>5. Created \subseteq Pids /\ NoPid \notin Pids
  BY ProcessAssumption DEF TreeOK, Created, Pids, NoPid
<1> QED
  BY <1>1, <1>2, <1>3, <1>4, <1>5

\* A step of the running process that leaves it in no list or in one.
LEMMA RunningLeaves ==
  ASSUME HInv, IInv, Runs, Leave, NEW C, C \in {{}, {current}},
         \/ Queued' = Queued \cup C /\ UNCHANGED <<Listed, Joining, Awaiting>>
         \/ Listed' = Listed \cup C /\ UNCHANGED <<Queued, Joining, Awaiting>>
         \/ Joining' = Joining \cup C /\ UNCHANGED <<Queued, Listed, Awaiting>>
         \/ Awaiting' = Awaiting \cup C /\ UNCHANGED <<Queued, Listed, Joining>>,
         UNCHANGED <<status, nextPid>>
  PROVE  Exclusive' /\ Turns' /\ LiveIsSomewhere' /\ FinishedIsNowhere'
<1> USE DEF HInv
<1>1. /\ Running = {current} /\ Running' = {} /\ woken' = woken
      /\ current' = NoPid /\ returned' = current
      /\ Suspended' = Suspended /\ suspendedPids' = suspendedPids
      /\ Created' = Created /\ Terminated' = Terminated
      /\ finished' = finished /\ killed' = killed
  BY DEF Runs, Leave, Running, Suspended, Created, Terminated, status
<1>2. returned = NoPid /\ NoPid \notin Created
  BY SomewhereIsCreated DEF Turns, Runs
<1>3. Exclusive'
  BY <1>1 DEF Exclusive
<1>4. Turns'
  BY <1>1 DEF Turns, Exclusive
<1>5. LiveIsSomewhere' /\ FinishedIsNowhere'
  BY <1>1, <1>2 DEF LiveIsSomewhere, FinishedIsNowhere, Somewhere
<1> QED
  BY <1>3, <1>4, <1>5

-----------------------------------------------------------------------------
(* What the running process does.                                           *)

LEMMA DelayKeeps ==
  ASSUME HInv, IInv, NEW d, Delay(d)
  PROVE  HInv'
<1> DEFINE entry == [pid |-> current, at |-> time + d]
<1>1. /\ eventQueue' = eventQueue \cup {entry} /\ entry.pid = current
      /\ Runs /\ Leave /\ UNCHANGED <<status, nextPid, parked, joinWaiters, awaitWaiters>>
  BY DEF Delay, tree
<1> HIDE DEF entry
<1>2. /\ Queued' = Queued \cup {current}
      /\ UNCHANGED <<Listed, Joining, Awaiting>>
  BY <1>1 DEF Queued, Listed, Joining, Awaiting
<1>3. current \notin Queued
  BY <1>1 DEF HInv, Exclusive, Running, Runs
<1>4. OnceInQueue'
  <2>1. \A e \in eventQueue : e.pid # current
    BY <1>3 DEF Queued
  <2> QED
    BY <1>1, <2>1 DEF HInv, OnceInQueue
<1>5. OnceListed' /\ OnceJoining' /\ OnceAwaiting'
  BY <1>1 DEF HInv, OnceListed, OnceJoining, OnceAwaiting
<1> QED
  BY <1>1, <1>2, <1>4, <1>5, RunningLeaves DEF HInv

LEMMA EndKeeps ==
  ASSUME HInv, IInv, End
  PROVE  HInv'
<1>1. Runs /\ Leave /\ UNCHANGED <<status, nextPid, lists>>
  BY DEF End, tree
<1>2. /\ Queued' = Queued \cup {}
      /\ UNCHANGED <<Listed, Joining, Awaiting>>
  BY <1>1 DEF Queued, Listed, Joining, Awaiting, lists
<1>3. OnceInQueue' /\ OnceListed' /\ OnceJoining' /\ OnceAwaiting'
  BY <1>1 DEF HInv, OnceInQueue, OnceListed, OnceJoining, OnceAwaiting, lists
<1> QED
  BY <1>1, <1>2, <1>3, RunningLeaves DEF HInv

LEMMA ParkKeeps ==
  ASSUME HInv, IInv, NEW place \in Places, Park(place)
  PROVE  HInv'
<1>1. /\ parked' = [parked EXCEPT ![place] = @ \cup {current}]
      /\ Runs /\ Leave
      /\ UNCHANGED <<status, nextPid, eventQueue, joinWaiters, awaitWaiters>>
  BY DEF Park, tree
<1>2. \A a \in Places : parked'[a] = IF a = place THEN parked[a] \cup {current}
                                                 ELSE parked[a]
  BY <1>1 DEF IInv, WaitingAreCreated
<1>3. /\ Listed' = Listed \cup {current}
      /\ UNCHANGED <<Queued, Joining, Awaiting>>
  BY <1>1, <1>2 DEF Queued, Listed, Joining, Awaiting
<1>4. current \notin Listed
  BY <1>1 DEF HInv, Exclusive, Running, Runs
<1>5. OnceListed'
  <2>1. \A a \in Places : current \notin parked[a]
    BY <1>4 DEF Listed
  <2>2. \A a, b \in Places : a # b => parked[a] \cap parked[b] = {}
    BY DEF HInv, OnceListed
  <2>3. ASSUME NEW a \in Places, NEW b \in Places, a # b
        PROVE  parked'[a] \cap parked'[b] = {}
    BY <1>2, <2>1, <2>2, <2>3
  <2> QED
    BY <2>3 DEF OnceListed
<1>6. OnceInQueue' /\ OnceJoining' /\ OnceAwaiting'
  BY <1>1 DEF HInv, OnceInQueue, OnceJoining, OnceAwaiting
<1> QED
  BY <1>1, <1>3, <1>5, <1>6, RunningLeaves DEF HInv

LEMMA WaitForkKeeps ==
  ASSUME HInv, IInv, WaitFork
  PROVE  HInv'
<1> DEFINE w == [parent |-> current, children |-> ChildrenOf(current),
                 finished |-> {}, type |-> "join", waitFork |-> TRUE]
<1>1. /\ joinWaiters' = joinWaiters \cup {w} /\ w.parent = current
      /\ Runs /\ Leave
      /\ UNCHANGED <<status, nextPid, eventQueue, parked, awaitWaiters>>
  BY DEF WaitFork, tree
<1> HIDE DEF w
<1>2. /\ Joining' = Joining \cup {current}
      /\ UNCHANGED <<Queued, Listed, Awaiting>>
  BY <1>1 DEF Queued, Listed, Joining, Awaiting
<1>3. \A v \in joinWaiters : v.parent # current
  BY <1>1 DEF HInv, Exclusive, Running, Runs, Joining
<1>4. OnceJoining'
  BY <1>1, <1>3 DEF HInv, OnceJoining
<1>5. OnceInQueue' /\ OnceListed' /\ OnceAwaiting'
  BY <1>1 DEF HInv, OnceInQueue, OnceListed, OnceAwaiting
<1> QED
  BY <1>1, <1>2, <1>4, <1>5, RunningLeaves DEF HInv

LEMMA AwaitKeeps ==
  ASSUME HInv, IInv, NEW t, Await(t)
  PROVE  HInv'
<1> DEFINE w == [waiter |-> current, target |-> t]
<1>1. /\ awaitWaiters' = awaitWaiters \cup {w} /\ w.waiter = current
      /\ Runs /\ Leave
      /\ UNCHANGED <<status, nextPid, eventQueue, parked, joinWaiters>>
  BY DEF Await, tree
<1> HIDE DEF w
<1>2. /\ Awaiting' = Awaiting \cup {current}
      /\ UNCHANGED <<Queued, Listed, Joining>>
  BY <1>1 DEF Queued, Listed, Joining, Awaiting
<1>3. \A v \in awaitWaiters : v.waiter # current
  BY <1>1 DEF HInv, Exclusive, Running, Runs, Awaiting
<1>4. OnceAwaiting'
  BY <1>1, <1>3 DEF HInv, OnceAwaiting
<1>5. OnceInQueue' /\ OnceListed' /\ OnceJoining'
  BY <1>1 DEF HInv, OnceInQueue, OnceListed, OnceJoining
<1> QED
  BY <1>1, <1>2, <1>4, <1>5, RunningLeaves DEF HInv

\* fork: the new processes are nowhere yet.
LEMMA ForkKeeps ==
  ASSUME HInv, IInv, NEW n \in Nat, NEW type, NEW late, Fork(n, type, late)
  PROVE  HInv'
<1> DEFINE new == nextPid .. nextPid + n - 1
           w == [parent |-> current, children |-> new, finished |-> {},
                 type |-> type, waitFork |-> FALSE]
           J == IF type = "join_none" \/ new = {} THEN {} ELSE {current}
<1>1. /\ Created \cap new = {} /\ Created' = Created \cup new
      /\ new \cap (Terminated \cup {NoPid}) = {}
  <2>1. /\ nextPid \in 1 .. MaxPid + 1 /\ nextPid' = nextPid + n
        /\ Terminated \subseteq Created
    BY ProcessAssumption DEF Fork, IInv, TreeOK
  <2>2. \A i : i \in Created <=> i \in Int /\ 1 <= i /\ i < nextPid
    BY <2>1, ProcessAssumption DEF Created
  <2>3. \A i : i \in Created' <=> i \in Int /\ 1 <= i /\ i < nextPid + n
    BY <2>1, ProcessAssumption DEF Created
  <2>4. \A i : i \in new <=> i \in Int /\ nextPid <= i /\ i < nextPid + n
    BY <2>1, ProcessAssumption
  <2>5. nextPid \in Int /\ 1 <= nextPid /\ NoPid = 0
    BY <2>1, ProcessAssumption DEF NoPid
  <2> HIDE DEF new
  <2>6. Created \cap new = {} /\ NoPid \notin new
    BY <2>2, <2>4, <2>5
  <2>7. Created' = Created \cup new
    BY <2>2, <2>3, <2>4, <2>5
  <2> QED
    BY <2>1, <2>6, <2>7
<1>2. /\ Runs /\ late \subseteq new
      /\ eventQueue' = eventQueue \cup Now(new \ late)
                            \cup {[pid |-> p, at |-> time + 1] : p \in late}
      /\ UNCHANGED <<status, parked, awaitWaiters>>
      /\ \/ J = {} /\ UNCHANGED <<joinWaiters, running>>
         \/ J = {current} /\ joinWaiters' = joinWaiters \cup {w} /\ Leave
      /\ w.parent = current
  BY DEF Fork
<1> HIDE DEF new, w, J
<1>3. /\ Queued' = Queued \cup new /\ Joining' = Joining \cup J
      /\ UNCHANGED <<Listed, Awaiting, Suspended>>
  <2>1. Queued' = Queued \cup new
    <3>1. /\ \A e \in eventQueue' : e \in eventQueue \/ e.pid \in new
          /\ \A e \in eventQueue : e \in eventQueue'
      BY <1>2 DEF Now
    <3>2. ASSUME NEW p \in new PROVE \E e \in eventQueue' : e.pid = p
      <4>1. CASE p \in late
        <5>1. [pid |-> p, at |-> time + 1] \in eventQueue'
          BY <1>2, <4>1
        <5> QED
          BY <5>1
      <4>2. CASE p \notin late
        <5>1. [pid |-> p, at |-> time] \in eventQueue'
          BY <1>2, <3>2, <4>2 DEF Now
        <5> QED
          BY <5>1
      <4> QED
        BY <4>1, <4>2
    <3> QED
      BY <3>1, <3>2 DEF Queued
  <2>2. Joining' = Joining \cup J
    BY <1>2 DEF Joining
  <2> QED
    BY <1>2, <2>1, <2>2 DEF Listed, Awaiting, Suspended, status
<1>4. /\ Running = {current} /\ Running' = Running \ J
      /\ returned = NoPid /\ returned' \in J \cup {NoPid}
      /\ woken' = woken /\ suspendedPids' = suspendedPids
      /\ J \in {{}, {current}} /\ (J = {} => returned' = NoPid /\ current' = current)
      /\ (J # {} => returned' = current /\ current' = NoPid)
  BY <1>2 DEF Running, Runs, Leave, HInv, Turns, running, status
<1>5. Exclusive'
  BY <1>1, <1>3, <1>4, SomewhereIsCreated DEF HInv, Exclusive
<1>6. Turns'
  BY <1>3, <1>4, SomewhereIsCreated DEF HInv, Turns, Exclusive
<1>7. Terminated' = Terminated /\ finished' = finished /\ killed' = killed
  BY <1>2 DEF Terminated, status
<1>8. LiveIsSomewhere'
  <2>1. Somewhere \cup new \subseteq Somewhere' \cup (J \cap {returned'})
    BY <1>3, <1>4 DEF Somewhere
  <2> QED
    BY <1>1, <1>4, <1>7, <2>1, SomewhereIsCreated DEF HInv, LiveIsSomewhere
<1>9. FinishedIsNowhere'
  BY <1>1, <1>3, <1>4, <1>7 DEF HInv, FinishedIsNowhere, Somewhere, Terminated
<1>10. OnceInQueue'
  <2>1. \A e \in eventQueue : e.pid \notin new
    BY <1>1, SomewhereIsCreated DEF Queued
  <2> QED
    BY <1>2, <2>1 DEF HInv, OnceInQueue, Now
<1>11. OnceJoining'
  <2>1. \A v \in joinWaiters : v.parent # current
    BY <1>2 DEF HInv, Exclusive, Running, Runs, Joining
  <2> QED
    BY <1>2, <2>1 DEF HInv, OnceJoining
<1>12. OnceListed' /\ OnceAwaiting'
  BY <1>2 DEF HInv, OnceListed, OnceAwaiting
<1> QED
  BY <1>5, <1>6, <1>8, <1>9, <1>10, <1>11, <1>12 DEF HInv

-----------------------------------------------------------------------------
(* Termination.                                                             *)

\* Of the parents that a termination releases, none keeps a join waiter.
LEMMA ReleasedLeave ==
  ASSUME HInv, IInv, NEW S
  PROVE  LET left == JoinWaitersWithout(S)
             up   == {w.parent : w \in Released(S)}
         IN  /\ up \subseteq Joining
             /\ {w.parent : w \in left} = Joining \ up
             /\ \A v, w \in left : v.parent = w.parent => v = w
<1> DEFINE left == JoinWaitersWithout(S)
           up   == {w.parent : w \in Released(S)}
<1>1. /\ Released(S) \subseteq Affected(S) /\ Affected(S) \subseteq joinWaiters
      /\ \A v \in joinWaiters : Without(v, S).parent = v.parent
      /\ \A v, w \in joinWaiters : v.parent = w.parent => v = w
  BY DEF Released, Affected, Without, IInv, JoinsOK, WaiterOK, JoinWaiters,
         HInv, OnceJoining
<1>2. up \subseteq Joining
  BY <1>1 DEF Joining
\* What is left comes from one waiter each, which is not released.
<1>3. ASSUME NEW w \in left
      PROVE  \E v \in joinWaiters \ Released(S) :
                /\ w.parent = v.parent
                /\ w = IF v \in Affected(S) THEN Without(v, S) ELSE v
  BY <1>1, <1>3 DEF JoinWaitersWithout
<1>4. ASSUME NEW v \in joinWaiters \ Released(S)
      PROVE  \E w \in left : w.parent = v.parent
  <2>1. CASE v \in Affected(S)
    <3>1. Without(v, S) \in left
      BY <1>4, <2>1 DEF JoinWaitersWithout
    <3> QED
      BY <1>1, <3>1
  <2>2. CASE v \notin Affected(S)
    <3>1. v \in left
      BY <1>4, <2>2 DEF JoinWaitersWithout
    <3> QED
      BY <3>1
  <2> QED
    BY <2>1, <2>2
<1> HIDE DEF left
<1>5. ASSUME NEW v \in left, NEW w \in left, v.parent = w.parent PROVE v = w
  <2>1. PICK x \in joinWaiters \ Released(S) :
           /\ v.parent = x.parent
           /\ v = IF x \in Affected(S) THEN Without(x, S) ELSE x
    BY <1>3
  <2>2. PICK y \in joinWaiters \ Released(S) :
           /\ w.parent = y.parent
           /\ w = IF y \in Affected(S) THEN Without(y, S) ELSE y
    BY <1>3
  <2>3. x = y
    BY <1>1, <1>5, <2>1, <2>2
  <2> QED
    BY <2>1, <2>2, <2>3
<1>6. {w.parent : w \in left} = Joining \ up
  <2>1. ASSUME NEW w \in left PROVE w.parent \in Joining \ up
    <3>1. PICK v \in joinWaiters \ Released(S) : w.parent = v.parent
      BY <1>3
    <3> QED
      BY <1>1, <3>1 DEF Joining
  <2>2. ASSUME NEW p \in Joining \ up PROVE \E w \in left : w.parent = p
    <3>1. PICK v \in joinWaiters : v.parent = p
      BY DEF Joining
    <3>2. v \notin Released(S)
      BY <2>2, <3>1
    <3> QED
      BY <1>4, <3>1, <3>2
  <2> QED
    BY <2>1, <2>2
<1> QED
  BY <1>2, <1>5, <1>6 DEF left

\* The processes that await a terminated one, when they are woken.
LEMMA WokenLeave ==
  ASSUME HInv, NEW W \in SUBSET awaitWaiters, NEW up \in SUBSET W
  PROVE  {w.waiter : w \in W \ up} = {w.waiter : w \in W} \ {w.waiter : w \in up}
<1>1. \A v, w \in W : v.waiter = w.waiter => v = w
  BY DEF HInv, OnceAwaiting
<1> QED
  BY <1>1

LEMMA TerminateMoves ==
  ASSUME HInv, IInv, NEW S, NEW places, NEW dropAwaits, NEW wakeAwaits,
         Terminate(S, places, dropAwaits, wakeAwaits)
  PROVE  /\ OnceInQueue' /\ OnceListed' /\ OnceJoining' /\ OnceAwaiting'
         /\ Listed' \subseteq Listed /\ Listed \ S \subseteq Listed'
         /\ \E R \in SUBSET Joining, W \in SUBSET Awaiting :
               /\ Joining' = Joining \ R
               /\ Awaiting' \subseteq Awaiting \ W
               /\ Awaiting \ (S \cup W) \subseteq Awaiting'
               /\ Queued' \subseteq (Queued \ S) \cup R \cup W
               /\ (Queued \ S) \cup R \cup (W \ (killed \cup S)) \subseteq Queued'
<1> DEFINE left == IF dropAwaits THEN {w \in awaitWaiters : w.waiter \notin S}
                   ELSE awaitWaiters
           up == IF wakeAwaits THEN Woken(left, S) ELSE {}
           R  == {w.parent : w \in Released(S)}
           U  == {w.waiter : w \in up}
           A  == U \ (killed \cup S)
<1>1. /\ joinWaiters' = JoinWaitersWithout(S)
      /\ awaitWaiters' = left \ up
      /\ eventQueue' = {e \in eventQueue : e.pid \notin S} \cup Now(R) \cup Now(A)
      /\ parked' = [pl \in Places |-> IF pl \in places THEN parked[pl] \ S
                                      ELSE parked[pl]]
  BY DEF Terminate, Alive
<1>2. /\ left \subseteq awaitWaiters /\ up \subseteq left
      /\ \A w \in awaitWaiters : w.waiter \notin S => w \in left
  BY DEF Woken
<1>3. U \subseteq Awaiting /\ A \subseteq U
  BY <1>2 DEF Awaiting
<1>4. /\ R \subseteq Joining /\ Joining' = Joining \ R /\ OnceJoining'
  BY <1>1, ReleasedLeave DEF Joining, OnceJoining
<1> HIDE DEF left, up, R, A
<1>5. Awaiting' = {w.waiter : w \in left} \ U
  BY <1>1, <1>2, WokenLeave DEF Awaiting
<1>6. /\ Awaiting' \subseteq Awaiting \ U
      /\ Awaiting \ (S \cup U) \subseteq Awaiting'
  <2>1. {w.waiter : w \in left} \subseteq Awaiting
    BY <1>2 DEF Awaiting
  <2>2. Awaiting \ S \subseteq {w.waiter : w \in left}
    BY <1>2 DEF Awaiting
  <2> HIDE DEF U
  <2> QED
    BY <1>5, <2>1, <2>2
<1>7. OnceAwaiting'
  BY <1>1, <1>2 DEF HInv, OnceAwaiting
<1> HIDE DEF U
<1>8. Queued' = (Queued \ S) \cup R \cup A
  <2>1. /\ \A e \in eventQueue' : \/ e \in eventQueue /\ e.pid \notin S
                                  \/ e.pid \in R \cup A
        /\ \A e \in eventQueue : e.pid \notin S => e \in eventQueue'
    BY <1>1 DEF Now
  <2>2. ASSUME NEW p \in R \cup A PROVE \E e \in eventQueue' : e.pid = p
    <3>1. [pid |-> p, at |-> time] \in eventQueue'
      BY <1>1, <2>2 DEF Now
    <3> QED
      BY <3>1
  <2> QED
    BY <2>1, <2>2 DEF Queued
<1>9. OnceInQueue'
  <2>1. (R \cup A) \cap Queued = {}
    BY <1>3, <1>4 DEF HInv, Exclusive
  <2>2. \A e \in eventQueue : e.pid \notin R \cup A
    BY <2>1 DEF Queued
  <2> QED
    BY <1>1, <2>2 DEF HInv, OnceInQueue, Now
<1>10. OnceListed' /\ Listed' \subseteq Listed /\ Listed \ S \subseteq Listed'
  <2>1. \A a \in Places : parked'[a] \subseteq parked[a] /\ parked[a] \ S \subseteq parked'[a]
    BY <1>1
  <2> QED
    BY <2>1 DEF HInv, OnceListed, Listed
<1>11. Queued' \subseteq (Queued \ S) \cup R \cup U
       /\ (Queued \ S) \cup R \cup (U \ (killed \cup S)) \subseteq Queued'
  BY <1>3, <1>8 DEF A
<1> QED
  BY <1>3, <1>4, <1>6, <1>7, <1>9, <1>10, <1>11

\* What all the ways to terminate processes do.
LEMMA TerminateLeavesOne ==
  ASSUME HInv, IInv, NEW S \in SUBSET Created, NEW places, NEW dropAwaits,
         NEW wakeAwaits, Terminate(S, places, dropAwaits, wakeAwaits),
         finished' = finished \/ finished' = finished \ S,
         nextPid' = nextPid, woken' = woken,
         \/ current' = current /\ returned' = returned
         \/ current \in S /\ current' = NoPid /\ returned' = current,
         Suspended' \subseteq Suspended, Suspended \ S \subseteq Suspended',
         suspendedPids' = Suspended'
  PROVE  HInv'
<1>1. PICK R \in SUBSET Joining, W \in SUBSET Awaiting :
         /\ Joining' = Joining \ R
         /\ Awaiting' \subseteq Awaiting \ W
         /\ Awaiting \ (S \cup W) \subseteq Awaiting'
         /\ Queued' \subseteq (Queued \ S) \cup R \cup W
         /\ (Queued \ S) \cup R \cup (W \ (killed \cup S)) \subseteq Queued'
  BY TerminateMoves
<1>2. /\ OnceInQueue' /\ OnceListed' /\ OnceJoining' /\ OnceAwaiting'
      /\ Listed' \subseteq Listed /\ Listed \ S \subseteq Listed'
  BY TerminateMoves
<1>3. Created' = Created /\ killed' = killed \cup S /\ Terminated' = Terminated \cup S
  BY DEF Created, Terminated, Terminate
<1>4. /\ NoPid \notin Created /\ woken \subseteq Created
      /\ Running' \subseteq Running /\ Running \ S \subseteq Running'
  BY SomewhereIsCreated DEF Running
<1>5. Exclusive'
  BY <1>1, <1>2, <1>4 DEF HInv, Exclusive
<1>6. Turns'
  <2>1. CASE current' = current /\ returned' = returned
    BY <2>1 DEF HInv, Turns
  <2>2. CASE current \in S /\ current' = NoPid /\ returned' = current
    <3>1. current \in Running
      BY <1>4, <2>2 DEF Running
    <3> QED
      BY <2>2, <3>1 DEF HInv, Turns, Exclusive
  <2> QED
    BY <2>1, <2>2
<1>7. /\ Somewhere' \subseteq Somewhere
      /\ Somewhere \ (S \cup killed) \subseteq Somewhere'
  BY <1>1, <1>2, <1>4 DEF Somewhere
<1>8. FinishedIsNowhere'
  BY <1>3, <1>7 DEF HInv, FinishedIsNowhere
<1>9. LiveIsSomewhere'
  <2>1. ASSUME NEW p \in Created, p \notin Terminated', p # returned'
        PROVE  p \in Somewhere'
    <3>1. p \notin Terminated /\ p \notin S /\ p \notin killed
      BY <1>3, <2>1 DEF Terminated
    <3>2. p # returned
      <4>1. CASE current \in S
        BY <1>4, <2>1, <4>1 DEF HInv, Turns
      <4> QED
        BY <2>1, <4>1
    <3> QED
      BY <1>7, <2>1, <3>1, <3>2 DEF HInv, LiveIsSomewhere
  <2> QED
    BY <1>3, <2>1 DEF LiveIsSomewhere
<1> QED
  BY <1>2, <1>5, <1>6, <1>8, <1>9 DEF HInv

LEMMA KillKeeps ==
  ASSUME HInv, IInv, NEW t \in Pids, Kill(t)
  PROVE  HInv'
<1> DEFINE S == {t} \cup Descendants(t)
<1>1. S \in SUBSET Created
  BY DescendantsAreCreated DEF Kill, IInv
<1>2. /\ Terminate(S, KillPlaces, TRUE, TRUE)
      /\ finished' = finished \ S
      /\ suspendedPids' = suspendedPids \ S
      /\ suspendedInfo' = [p \in Pids |-> IF p \in S THEN Absent
                                          ELSE suspendedInfo[p]]
      /\ UNCHANGED <<nextPid, woken, current, returned>>
  BY DEF Kill, running
<1> HIDE DEF S
<1>3. Suspended' = Suspended \ S
  BY <1>2 DEF Suspended
<1>4. suspendedPids' = Suspended'
  BY <1>2, <1>3 DEF HInv, Turns
<1> QED
  BY <1>1, <1>2, <1>3, <1>4, TerminateLeavesOne

\* The disable statements leave the records of suspend().
LEMMA DisableKeeps ==
  ASSUME HInv, IInv, NEW S \in SUBSET Created, NEW places, NEW dropAwaits,
         NEW wakeAwaits, Terminate(S, places, dropAwaits, wakeAwaits),
         UNCHANGED <<nextPid, finished, suspendedPids, suspendedInfo, woken>>,
         \/ current' = current /\ returned' = returned
         \/ current \in S /\ current' = NoPid /\ returned' = current
  PROVE  HInv'
<1>1. Suspended' = Suspended /\ suspendedPids' = Suspended'
  BY DEF Suspended, HInv, Turns
<1> QED
  BY <1>1, TerminateLeavesOne

LEMMA DisableForkKeeps ==
  ASSUME HInv, IInv, DisableFork
  PROVE  HInv'
<1>1. current \in Pids
  BY SomewhereIsCreated DEF DisableFork, Runs, IInv, WaitingAreCreated
<1>2. Descendants(current) \in SUBSET Created
  BY <1>1, DescendantsAreCreated DEF IInv
<1> QED
  BY <1>2, DisableKeeps DEF DisableFork, running

LEMMA DisableForkBlockKeeps ==
  ASSUME HInv, IInv, NEW f \in Pids, DisableForkBlock(f)
  PROVE  HInv'
<1> DEFINE S == forkBlock[f] \cup UNION {Descendants(c) : c \in forkBlock[f]}
<1>1. forkBlock[f] \subseteq Created /\ Created \subseteq Pids
  BY SomewhereIsCreated DEF IInv, TreeOK
<1>2. S \in SUBSET Created
  BY <1>1, DescendantsAreCreated DEF IInv
<1>3. /\ Terminate(S, DisablePlaces, TRUE, TRUE)
      /\ UNCHANGED <<nextPid, finished, suspendedPids, suspendedInfo, woken>>
      /\ \/ current' = current /\ returned' = returned
         \/ current \in S /\ current' = NoPid /\ returned' = current
  BY DEF DisableForkBlock, Leave, running
<1> HIDE DEF S
<1> QED
  BY <1>2, <1>3, DisableKeeps

LEMMA DisableLabelKeeps ==
  ASSUME HInv, IInv, NEW q \in Pids, DisableLabel(q)
  PROVE  HInv'
<1>1. {q} \in SUBSET Created
  BY DEF DisableLabel
<1> QED
  BY <1>1, DisableKeeps DEF DisableLabel, running

LEMMA DisableTaskKeeps ==
  ASSUME HInv, IInv, NEW S, DisableTask(S)
  PROVE  HInv'
<1>1. S \in SUBSET Created
  BY DEF DisableTask
<1> QED
  BY <1>1, DisableKeeps DEF DisableTask, running

-----------------------------------------------------------------------------
(* suspend() and resume(), and the event loop.                              *)

\* The least of one number.
LEMMA MinOfOne ==
  ASSUME NEW n \in Int
  PROVE  Min({n}) = n
BY DEF Min

\* Processes go from one place to another and nobody ends or runs.
LEMMA OnlyMoves ==
  ASSUME HInv, IInv, Exclusive', OnceInQueue', OnceListed', OnceJoining',
         OnceAwaiting', Somewhere' = Somewhere, suspendedPids' = Suspended',
         woken' \subseteq Created,
         current' = current, returned' = returned, returned = NoPid \/ woken' = woken,
         UNCHANGED <<nextPid, killed, finished>>
  PROVE  HInv'
<1>1. Turns'
  BY SomewhereIsCreated DEF HInv, Turns
<1>2. LiveIsSomewhere' /\ FinishedIsNowhere'
  BY DEF HInv, LiveIsSomewhere, FinishedIsNowhere, Created, Terminated
<1> QED
  BY <1>1, <1>2 DEF HInv

\* Where suspend() finds a process: it is in one list, so in the first it is
\* found in.
LEMMA SuspendPlace ==
  ASSUME HInv, IInv, NEW t \in Pids,
         {i \in DOMAIN SuspendPlaces : t \in parked[SuspendPlaces[i]]} # {}
  PROVE  LET place == SuspendPlaces[Min({i \in DOMAIN SuspendPlaces :
                                          t \in parked[SuspendPlaces[i]]})]
         IN  place \in Places /\ t \in parked[place]
<1> DEFINE found == {i \in DOMAIN SuspendPlaces : t \in parked[SuspendPlaces[i]]}
<1>1. /\ DOMAIN SuspendPlaces = 1 .. 4
      /\ \A i \in 1 .. 4 : SuspendPlaces[i] \in Places
      /\ \A i, j \in 1 .. 4 : i # j => SuspendPlaces[i] # SuspendPlaces[j]
  BY DEF SuspendPlaces, Places
<1>2. PICK i \in 1 .. 4 : t \in parked[SuspendPlaces[i]]
  BY <1>1
<1>3. \A j \in 1 .. 4 : t \in parked[SuspendPlaces[j]] => j = i
  BY <1>1, <1>2 DEF HInv, OnceListed
<1>4. found = {i}
  BY <1>1, <1>2, <1>3
<1>5. Min(found) = i
  BY <1>4, MinOfOne
<1> HIDE DEF found
<1> QED
  BY <1>1, <1>2, <1>5 DEF found

\* One process leaves one list.
LEMMA LeavesList ==
  ASSUME HInv, IInv, NEW place \in Places, NEW S \in SUBSET parked[place],
         parked' = [parked EXCEPT ![place] = @ \ S]
  PROVE  OnceListed' /\ Listed' = Listed \ S
<1>1. \A a \in Places : parked'[a] = IF a = place THEN parked[a] \ S ELSE parked[a]
  BY DEF IInv, WaitingAreCreated
<1>2. \A a \in Places : a # place => parked[a] \cap S = {}
  BY DEF HInv, OnceListed
<1>3. \A a \in Places : parked'[a] = parked[a] \ S
  BY <1>1, <1>2
<1>4. OnceListed'
  BY <1>3 DEF HInv, OnceListed
<1> QED
  BY <1>3, <1>4 DEF Listed

\* One process leaves the event queue.
LEMMA LeavesQueue ==
  ASSUME HInv, NEW p, eventQueue' = {e \in eventQueue : e.pid # p}
  PROVE  OnceInQueue' /\ Queued' = Queued \ {p}
BY DEF HInv, OnceInQueue, Queued

\* Processes that are in no list enter the event queue, once each.
LEMMA EntersQueue ==
  ASSUME HInv, NEW E, eventQueue' = eventQueue \cup E,
         \A e \in E : e.pid \notin Queued,
         \A e, f \in E : e.pid = f.pid => e = f
  PROVE  OnceInQueue' /\ Queued' = Queued \cup {e.pid : e \in E}
<1>1. \A e \in eventQueue : e.pid \in Queued
  BY DEF Queued
<1> QED
  BY <1>1 DEF HInv, OnceInQueue, Queued

LEMMA SuspendKeeps ==
  ASSUME TypeOK, HInv, IInv, NEW t \in Pids, Suspend(t)
  PROVE  HInv' /\ suspendedInfo' \in [Pids -> Times \cup {NoDelay, Absent}]
<1> DEFINE found == {i \in DOMAIN SuspendPlaces : t \in parked[SuspendPlaces[i]]}
           place == SuspendPlaces[Min(found)]
           ats   == {e.at : e \in {x \in eventQueue : x.pid = t}}
<1>1. /\ t \notin Suspended
      /\ UNCHANGED <<nextPid, killed, finished, joinWaiters, awaitWaiters,
                     woken, current, returned>>
  BY DEF Suspend, HInv, Turns, tree, running
<1>2. /\ Joining' = Joining /\ Awaiting' = Awaiting /\ Running' = Running
      /\ OnceJoining' /\ OnceAwaiting' /\ woken' \subseteq Created
  BY <1>1, SomewhereIsCreated
  DEF Joining, Awaiting, Running, HInv, OnceJoining, OnceAwaiting
\* A record is made, and the process is suspended.
<1>3. ASSUME NEW d \in Times \cup {NoDelay},
             suspendedInfo' = [suspendedInfo EXCEPT ![t] = d]
      PROVE  /\ Suspended' = Suspended \cup {t}
             /\ suspendedInfo' \in [Pids -> Times \cup {NoDelay, Absent}]
  <2>1. d # Absent
    BY ProcessAssumption DEF Times, NoDelay, Absent
  <2> QED
    BY <1>3, <2>1 DEF Suspended, TypeOK
<1>4. CASE t \in Queued
  <2>1. /\ suspendedInfo' = [suspendedInfo EXCEPT ![t] = Min(ats)]
        /\ eventQueue' = {e \in eventQueue : e.pid # t}
        /\ suspendedPids' = suspendedPids \cup {t}
        /\ parked' = parked
    BY <1>4 DEF Suspend
  <2>2. Min(ats) \in Times
    <3>1. PICK e \in eventQueue : e.pid = t
      BY <1>4 DEF Queued
    <3>2. ats = {e.at} /\ e.at \in Times
      BY <3>1 DEF HInv, OnceInQueue, TypeOK, Entries
    <3>3. e.at \in Int
      BY <3>2 DEF Times
    <3> QED
      BY <3>2, <3>3, MinOfOne
  <2> HIDE DEF ats
  <2>3. /\ Suspended' = Suspended \cup {t}
        /\ suspendedInfo' \in [Pids -> Times \cup {NoDelay, Absent}]
    BY <1>3, <2>1, <2>2
  <2>4. OnceInQueue' /\ Queued' = Queued \ {t}
    BY <2>1, LeavesQueue
  <2>5. OnceListed' /\ Listed' = Listed
    BY <2>1 DEF HInv, OnceListed, Listed
  <2>6. Exclusive' /\ Somewhere' = Somewhere
    BY <1>1, <1>2, <1>4, <2>3, <2>4, <2>5 DEF HInv, Exclusive, Somewhere
  <2>7. suspendedPids' = Suspended'
    BY <2>1, <2>3 DEF HInv, Turns
  <2> QED
    BY <1>1, <1>2, <2>3, <2>4, <2>5, <2>6, <2>7, OnlyMoves
<1>5. CASE t \notin Queued /\ found # {}
  <2>1. /\ suspendedInfo' = [suspendedInfo EXCEPT
                                ![t] = IF place = "inactive" THEN time ELSE NoDelay]
        /\ parked' = [parked EXCEPT ![place] = @ \ {t}]
        /\ suspendedPids' = suspendedPids \cup {t}
        /\ eventQueue' = eventQueue
    BY <1>5 DEF Suspend
  <2>2. place \in Places /\ t \in parked[place]
    BY <1>5, SuspendPlace
  <2> HIDE DEF place
  <2>3. /\ Suspended' = Suspended \cup {t}
        /\ suspendedInfo' \in [Pids -> Times \cup {NoDelay, Absent}]
    <3>1. (IF place = "inactive" THEN time ELSE NoDelay) \in Times \cup {NoDelay}
      BY DEF TypeOK
    <3> QED
      BY <1>3, <2>1, <3>1
  <2>4. OnceListed' /\ Listed' = Listed \ {t} /\ t \in Listed
    <3>1. {t} \in SUBSET parked[place]
      BY <2>2
    <3>2. OnceListed' /\ Listed' = Listed \ {t}
      BY <2>1, <2>2, <3>1, LeavesList
    <3> QED
      BY <2>2, <3>2 DEF Listed
  <2>5. OnceInQueue' /\ Queued' = Queued
    BY <2>1 DEF HInv, OnceInQueue, Queued
  <2>6. Exclusive' /\ Somewhere' = Somewhere
    BY <1>1, <1>2, <2>3, <2>4, <2>5 DEF HInv, Exclusive, Somewhere
  <2>7. suspendedPids' = Suspended'
    BY <2>1, <2>3 DEF HInv, Turns
  <2> QED
    BY <1>1, <1>2, <2>3, <2>4, <2>5, <2>6, <2>7, OnlyMoves
<1>6. CASE t \notin Queued /\ found = {}
  <2>1. UNCHANGED <<eventQueue, parked, suspendedPids, suspendedInfo>>
    BY <1>6 DEF Suspend
  <2>2. /\ OnceInQueue' /\ Queued' = Queued
        /\ OnceListed' /\ Listed' = Listed
        /\ Suspended' = Suspended /\ suspendedPids' = Suspended'
        /\ suspendedInfo' \in [Pids -> Times \cup {NoDelay, Absent}]
    BY <2>1 DEF HInv, OnceInQueue, Queued, OnceListed, Listed, Suspended, Turns, TypeOK
  <2>3. Exclusive' /\ Somewhere' = Somewhere
    BY <1>1, <1>2, <2>2 DEF HInv, Exclusive, Somewhere
  <2> QED
    BY <1>1, <1>2, <2>2, <2>3, OnlyMoves
<1> QED
  BY <1>4, <1>5, <1>6

LEMMA ResumeKeeps ==
  ASSUME HInv, IInv, NEW t \in Pids, Resume(t)
  PROVE  HInv'
<1> DEFINE entry == [pid |-> t, at |-> ResumeTime(t)]
<1>1. /\ t \in Suspended
      /\ suspendedInfo' = [suspendedInfo EXCEPT ![t] = Absent]
      /\ suspendedPids' = suspendedPids \ {t}
      /\ eventQueue' = eventQueue \cup {entry} /\ entry.pid = t
      /\ UNCHANGED <<nextPid, killed, finished, parked, joinWaiters, awaitWaiters,
                     woken, current, returned>>
  BY DEF Resume, InfoWithout, ResumedEntry, Suspended, tree, running
<1> HIDE DEF entry
<1>2. Suspended' = Suspended \ {t}
  BY <1>1 DEF Suspended, IInv, WaitingAreCreated
<1>3. t \notin Queued
  BY <1>1 DEF HInv, Exclusive
<1>4. OnceInQueue' /\ Queued' = Queued \cup {t}
  <2>1. \A e \in {entry} : e.pid \notin Queued
    BY <1>1, <1>3
  <2>2. {e.pid : e \in {entry}} = {t}
    BY <1>1
  <2> QED
    BY <1>1, <2>1, <2>2, EntersQueue
<1>5. /\ OnceListed' /\ OnceJoining' /\ OnceAwaiting'
      /\ UNCHANGED <<Listed, Joining, Awaiting, Running>>
      /\ woken' \subseteq Created
  BY <1>1, SomewhereIsCreated DEF HInv, OnceListed, OnceJoining, OnceAwaiting,
     Listed, Joining, Awaiting, Running
<1>6. Exclusive' /\ Somewhere' = Somewhere
  BY <1>1, <1>2, <1>4, <1>5 DEF HInv, Exclusive, Somewhere
<1>7. suspendedPids' = Suspended'
  BY <1>1, <1>2 DEF HInv, Turns
<1> QED
  BY <1>1, <1>4, <1>5, <1>6, <1>7, OnlyMoves

\* StartRun: the process taken runs, or was killed and its activation returns.
LEMMA StartRunKeeps ==
  ASSUME HInv, IInv, NEW p \in Created, StartRun(p),
         current = NoPid, returned = NoPid, p \notin woken',
         woken' \subseteq woken,
         \/ p \in Queued /\ Queued' = Queued \ {p} /\ woken' = woken
         \/ p \in woken /\ Queued' = Queued /\ woken' = woken \ {p},
         UNCHANGED <<status, nextPid, parked, joinWaiters, awaitWaiters>>,
         OnceInQueue'
  PROVE  HInv'
<1>1. /\ UNCHANGED <<Listed, Joining, Awaiting, Suspended, Created, Terminated>>
      /\ UNCHANGED <<killed, finished, suspendedPids>>
      /\ OnceListed' /\ OnceJoining' /\ OnceAwaiting'
  BY DEF Listed, Joining, Awaiting, Suspended, Created, Terminated, status, HInv,
     OnceListed, OnceJoining, OnceAwaiting
<1>2. NoPid \notin Created /\ woken \subseteq Created
  BY SomewhereIsCreated
<1>3. Running = {}
  BY DEF Running
<1>4. /\ Running' \in SUBSET {p}
      /\ \/ p \in killed /\ Running' = {} /\ current' = NoPid /\ returned' = p
         \/ Running' = {p} /\ current' = p /\ returned' = NoPid
  BY <1>2 DEF StartRun, Running
<1>5. Exclusive'
  BY <1>1, <1>3, <1>4 DEF HInv, Exclusive
<1>6. Turns'
  BY <1>1, <1>2, <1>4 DEF HInv, Turns
<1>7. /\ Somewhere' \subseteq Somewhere
      /\ Somewhere \ killed \subseteq Somewhere'
  BY <1>1, <1>3, <1>4 DEF Somewhere
<1>8. FinishedIsNowhere'
  BY <1>1, <1>7 DEF HInv, FinishedIsNowhere
<1>9. LiveIsSomewhere'
  <2>1. \A x \in Created \ (Terminated \cup {returned'}) : x \in Somewhere /\ x \notin killed
    BY <1>2 DEF HInv, LiveIsSomewhere, Terminated
  <2> QED
    BY <1>1, <1>7, <2>1 DEF LiveIsSomewhere
<1> QED
  BY <1>1, <1>5, <1>6, <1>8, <1>9 DEF HInv

LEMMA DispatchKeeps ==
  ASSUME TypeOK, HInv, IInv, NEW p \in Pids, Dispatch(p)
  PROVE  HInv'
<1>1. PICK e \in eventQueue : e.pid = p /\ e.at = time
  BY DEF Dispatch, DueNow
<1>2. /\ current = NoPid /\ returned = NoPid /\ woken = {} /\ StartRun(p)
      /\ eventQueue' = eventQueue \ Now({p})
      /\ UNCHANGED <<status, nextPid, parked, joinWaiters, awaitWaiters, woken>>
  BY DEF Dispatch, LoopIdle, tree
<1>3. Now({p}) = {e}
  <2>1. e = [pid |-> p, at |-> time]
    BY <1>1 DEF TypeOK, Entries
  <2> QED
    BY <2>1 DEF Now
<1>4. eventQueue' = {f \in eventQueue : f.pid # p}
  BY <1>1, <1>2, <1>3 DEF HInv, OnceInQueue
<1>5. OnceInQueue' /\ Queued' = Queued \ {p} /\ p \in Queued
  <2>1. OnceInQueue' /\ Queued' = Queued \ {p}
    BY <1>4, LeavesQueue
  <2> QED
    BY <1>1, <2>1 DEF Queued
<1>6. p \in Created
  BY <1>5, SomewhereIsCreated
<1> QED
  BY <1>2, <1>5, <1>6, StartRunKeeps

LEMMA RunWokenKeeps ==
  ASSUME HInv, IInv, NEW p \in Pids, RunWoken(p)
  PROVE  HInv'
<1>1. /\ current = NoPid /\ returned = NoPid /\ StartRun(p)
      /\ p \in woken /\ woken' = woken \ {p}
      /\ UNCHANGED <<status, nextPid, eventQueue, parked, joinWaiters, awaitWaiters>>
  BY DEF RunWoken, tree, lists
<1>2. OnceInQueue' /\ Queued' = Queued
  BY <1>1 DEF HInv, OnceInQueue, Queued
<1>3. p \in Created
  BY <1>1, SomewhereIsCreated
<1> QED
  BY <1>1, <1>2, <1>3, StartRunKeeps

LEMMA TakeWokenKeeps ==
  ASSUME HInv, IInv, NEW place \in Places, NEW S, TakeWoken(place, S)
  PROVE  HInv'
<1>1. /\ current = NoPid /\ returned = NoPid /\ woken = {} /\ woken' = S
      /\ S \in SUBSET parked[place]
      /\ parked' = [parked EXCEPT ![place] = @ \ S]
      /\ UNCHANGED <<status, nextPid, killed, finished, eventQueue, joinWaiters,
                     awaitWaiters, current, returned>>
  BY DEF TakeWoken, LoopIdle, tree, status
<1>2. OnceListed' /\ Listed' = Listed \ S
  BY <1>1, LeavesList
<1>3. S \subseteq Listed
  BY <1>1 DEF Listed
<1>4. /\ OnceInQueue' /\ OnceJoining' /\ OnceAwaiting'
      /\ UNCHANGED <<Queued, Joining, Awaiting, Suspended, Running>>
      /\ suspendedPids' = Suspended'
  BY <1>1 DEF HInv, OnceInQueue, OnceJoining, OnceAwaiting, Queued, Joining,
     Awaiting, Suspended, Running, Turns, status
<1>5. Exclusive' /\ Somewhere' = Somewhere
  BY <1>1, <1>2, <1>3, <1>4 DEF HInv, Exclusive, Somewhere
<1>6. woken' \subseteq Created
  BY <1>1, <1>3, SomewhereIsCreated
<1> QED
  BY <1>1, <1>2, <1>4, <1>5, <1>6, OnlyMoves

\* Processes of a list go to the end of the queue of this time.
LEMMA ListToQueue ==
  ASSUME HInv, IInv, NEW place \in Places, NEW S \in SUBSET parked[place],
         parked' = [parked EXCEPT ![place] = @ \ S],
         eventQueue' = eventQueue \cup Now(S),
         UNCHANGED <<status, nextPid, joinWaiters, awaitWaiters, running>>
  PROVE  HInv'
<1>1. OnceListed' /\ Listed' = Listed \ S
  BY LeavesList
<1>2. S \subseteq Listed
  BY DEF Listed
<1>3. OnceInQueue' /\ Queued' = Queued \cup S
  <2>1. S \cap Queued = {}
    BY <1>2 DEF HInv, Exclusive
  <2>2. /\ \A e \in Now(S) : e.pid \notin Queued
        /\ \A e, f \in Now(S) : e.pid = f.pid => e = f
    BY <2>1 DEF Now
  <2>3. {e.pid : e \in Now(S)} = S
    <3>1. \A e \in Now(S) : e.pid \in S
      BY DEF Now
    <3>2. ASSUME NEW p \in S PROVE \E e \in Now(S) : e.pid = p
      <4>1. [pid |-> p, at |-> time] \in Now(S)
        BY <3>2 DEF Now
      <4> QED
        BY <4>1
    <3> QED
      BY <3>1, <3>2
  <2> QED
    BY <2>2, <2>3, EntersQueue
<1>4. /\ OnceJoining' /\ OnceAwaiting' /\ woken' \subseteq Created
      /\ UNCHANGED <<Joining, Awaiting, Suspended, Running>>
      /\ suspendedPids' = Suspended'
  BY SomewhereIsCreated DEF HInv, OnceJoining, OnceAwaiting, Joining, Awaiting,
     Suspended, Running, Turns, status, running
<1>5. Exclusive' /\ Somewhere' = Somewhere
  BY <1>1, <1>2, <1>3, <1>4 DEF HInv, Exclusive, Somewhere, running
<1> QED
  BY <1>1, <1>3, <1>4, <1>5, OnlyMoves DEF status, running

LEMMA WakeQueuedKeeps ==
  ASSUME HInv, IInv, NEW place \in Places, NEW p, WakeQueued(place, p)
  PROVE  HInv'
<1>1. {p} \in SUBSET parked[place]
  BY DEF WakeQueued
<1> QED
  BY <1>1, ListToQueue DEF WakeQueued, tree

LEMMA PromoteInactiveKeeps ==
  ASSUME HInv, IInv, PromoteInactive
  PROVE  HInv'
<1> DEFINE S == parked["inactive"]
<1>1. "inactive" \in Places /\ S \in SUBSET parked["inactive"]
  BY DEF Places
<1>2. parked' = [parked EXCEPT !["inactive"] = @ \ S]
  BY DEF PromoteInactive
<1>3. /\ eventQueue' = eventQueue \cup Now(S)
      /\ UNCHANGED <<status, nextPid, joinWaiters, awaitWaiters, running>>
  BY DEF PromoteInactive, tree
<1> HIDE DEF S
<1> QED
  BY <1>1, <1>2, <1>3, ListToQueue

\* A step that moves nobody.
LEMMA NobodyMoves ==
  ASSUME HInv, IInv, UNCHANGED <<status, nextPid, lists, running>>
  PROVE  HInv'
<1>1. /\ OnceInQueue' /\ OnceListed' /\ OnceJoining' /\ OnceAwaiting'
      /\ UNCHANGED <<Queued, Listed, Joining, Awaiting, Suspended, Running>>
      /\ woken' \subseteq Created
      /\ suspendedPids' = Suspended'
  BY SomewhereIsCreated DEF HInv, OnceInQueue, OnceListed, OnceJoining,
     OnceAwaiting, Queued, Listed, Joining, Awaiting, Suspended, Running, Turns,
     status, lists, running
<1>2. Exclusive' /\ Somewhere' = Somewhere
  BY <1>1 DEF HInv, Exclusive, Somewhere, running
<1> QED
  BY <1>1, <1>2, OnlyMoves DEF status, running

\* The end of an activation: who waits goes on waiting, who does not has finished.
LEMMA IsPidSuspendedMeans ==
  ASSUME HInv, NEW p
  PROVE  IsPidSuspended(p) <=>
             p \in Suspended \cup Queued \cup Listed \cup Joining \cup Awaiting
BY DEF IsPidSuspended, HInv, Turns, Listed

\* child_finished: the parents whose condition is met keep no join waiter.
LEMMA MetLeave ==
  ASSUME HInv, IInv, NEW c
  PROVE  LET left == LeftJoining(c)
             up   == {w.parent : w \in MetBy(c)}
         IN  /\ up \subseteq Joining
             /\ {w.parent : w \in left} = Joining \ up
             /\ \A v, w \in left : v.parent = w.parent => v = w
<1> DEFINE left == LeftJoining(c)
           up   == {w.parent : w \in MetBy(c)}
<1>1. \A v \in joinWaiters : CompletedBy(c, v).parent = v.parent
  BY DEF CompletedBy, IInv, JoinsOK, WaiterOK, JoinWaiters
<1>2. \A v, w \in joinWaiters : v.parent = w.parent => v = w
  BY DEF HInv, OnceJoining
<1>3. \A w \in Recorded(c) : \E v \in joinWaiters :
         w = CompletedBy(c, v) /\ w.parent = v.parent
  BY <1>1 DEF Recorded
<1>4. \A v \in joinWaiters : CompletedBy(c, v) \in Recorded(c)
  BY DEF Recorded
<1>5. {w.parent : w \in Recorded(c)} = Joining
  BY <1>1, <1>3, <1>4 DEF Joining
<1>6. \A v, w \in Recorded(c) : v.parent = w.parent => v = w
  BY <1>2, <1>3
<1>7. MetBy(c) \subseteq Recorded(c) /\ left = Recorded(c) \ MetBy(c)
  BY DEF MetBy, Asked, LeftJoining
<1> HIDE DEF left
<1>8. up \subseteq Joining
  BY <1>5, <1>7
<1>9. {w.parent : w \in left} = Joining \ up
  BY <1>5, <1>6, <1>7
<1>10. \A v, w \in left : v.parent = w.parent => v = w
  BY <1>6, <1>7
<1> QED
  BY <1>8, <1>9, <1>10 DEF left

LEMMA FinishKeeps ==
  ASSUME HInv, IInv, NEW c \in Created, c = returned, ChildFinished(c),
         ~ IsPidSuspended(c), returned' = NoPid,
         UNCHANGED <<nextPid, killed, suspendedPids, suspendedInfo, parked, woken,
                     current>>
  PROVE  HInv'
<1> DEFINE up == Woken(awaitWaiters, {c})
           R  == {w.parent : w \in MetBy(c)}
           U  == {w.waiter : w \in up}
           A  == U \ killed
<1>1. /\ finished' = finished \cup {c}
      /\ awaitWaiters' = awaitWaiters \ up /\ up \in SUBSET awaitWaiters
      /\ joinWaiters' = LeftJoining(c)
      /\ eventQueue' = eventQueue \cup Now(A) \cup Now(R)
  BY DEF ChildFinished, Alive, Woken
<1>2. /\ U \subseteq Awaiting /\ A \subseteq U
      /\ Awaiting' = Awaiting \ U /\ OnceAwaiting'
  <2>1. {w.waiter : w \in awaitWaiters \ up} = Awaiting \ U
    BY <1>1, WokenLeave DEF Awaiting
  <2> HIDE DEF up
  <2>2. U \subseteq Awaiting
    BY <1>1 DEF Awaiting
  <2>3. OnceAwaiting'
    BY <1>1 DEF HInv, OnceAwaiting
  <2> QED
    BY <1>1, <2>1, <2>2, <2>3 DEF Awaiting
<1>3. R \subseteq Joining /\ Joining' = Joining \ R /\ OnceJoining'
  BY <1>1, MetLeave DEF Joining, OnceJoining
<1> HIDE DEF up, R, U, A
<1>4. OnceInQueue' /\ Queued' = Queued \cup R \cup A
  <2> DEFINE E == Now(R \cup A)
  <2>1. eventQueue' = eventQueue \cup E
    BY <1>1 DEF Now
  <2>2. (R \cup A) \cap Queued = {}
    BY <1>2, <1>3 DEF HInv, Exclusive
  <2>3. /\ \A e \in E : e.pid \notin Queued
        /\ \A e, f \in E : e.pid = f.pid => e = f
    BY <2>2 DEF Now
  <2>4. {e.pid : e \in E} = R \cup A
    <3>1. \A e \in E : e.pid \in R \cup A
      BY DEF Now
    <3>2. ASSUME NEW p \in R \cup A PROVE \E e \in E : e.pid = p
      <4>1. [pid |-> p, at |-> time] \in E
        BY <3>2 DEF Now
      <4> QED
        BY <4>1
    <3> HIDE DEF E
    <3> QED
      BY <3>1, <3>2
  <2> HIDE DEF E
  <2> QED
    BY <2>1, <2>3, <2>4, EntersQueue
<1>5. /\ OnceListed' /\ UNCHANGED <<Listed, Suspended, Running, Created>>
      /\ Terminated' = Terminated \cup {c}
  BY <1>1 DEF HInv, OnceListed, Listed, Suspended, Running, Created, Terminated
<1>6. c \notin Somewhere
  <2>1. c \notin Suspended \cup Queued \cup Listed \cup Joining \cup Awaiting
    BY IsPidSuspendedMeans
  <2>2. c # NoPid
    BY SomewhereIsCreated
  <2>3. c \notin woken /\ c \notin Running
    BY <2>2 DEF HInv, Turns, Running
  <2> QED
    BY <2>1, <2>3 DEF Somewhere
<1>7. Exclusive'
  BY <1>2, <1>3, <1>4, <1>5 DEF HInv, Exclusive
<1>8. Turns'
  BY <1>5, SomewhereIsCreated DEF HInv, Turns
<1>9. /\ Somewhere' \subseteq Somewhere
      /\ Somewhere \ killed \subseteq Somewhere'
  BY <1>2, <1>3, <1>4, <1>5 DEF Somewhere, A
<1>10. FinishedIsNowhere'
  BY <1>1, <1>6, <1>9 DEF HInv, FinishedIsNowhere
<1>11. LiveIsSomewhere'
  <2>1. \A x \in Created \ (Terminated \cup {c}) : x \in Somewhere /\ x \notin killed
    BY DEF HInv, LiveIsSomewhere, Terminated
  <2> QED
    BY <1>5, <1>9, <2>1 DEF LiveIsSomewhere
<1> QED
  BY <1>2, <1>3, <1>4, <1>5, <1>7, <1>8, <1>10, <1>11 DEF HInv

LEMMA AfterRunKeeps ==
  ASSUME HInv, IInv, AfterRun
  PROVE  HInv'
<1>1. /\ returned # NoPid /\ returned' = NoPid
      /\ UNCHANGED <<nextPid, killed, suspendedPids, suspendedInfo, parked, woken,
                     current>>
  BY DEF AfterRun
<1>2. returned \in Created
  BY <1>1 DEF IInv, WaitingAreCreated
<1>3. CASE IsPidSuspended(returned)
  <2>1. UNCHANGED <<finished, awaitWaiters, joinWaiters, eventQueue>>
    BY <1>3 DEF AfterRun
  <2>2. /\ OnceInQueue' /\ OnceListed' /\ OnceJoining' /\ OnceAwaiting'
        /\ UNCHANGED <<Queued, Listed, Joining, Awaiting, Suspended, Running,
                       Created, Terminated>>
    BY <1>1, <2>1 DEF HInv, OnceInQueue, OnceListed, OnceJoining, OnceAwaiting,
       Queued, Listed, Joining, Awaiting, Suspended, Running, Created, Terminated
  <2>3. Exclusive' /\ Somewhere' = Somewhere
    BY <1>1, <2>2 DEF HInv, Exclusive, Somewhere
  <2>4. Turns'
    BY <1>1, <2>2, SomewhereIsCreated DEF HInv, Turns
  <2>5. returned \in Somewhere
    BY <1>3, IsPidSuspendedMeans DEF Somewhere
  <2>6. LiveIsSomewhere' /\ FinishedIsNowhere'
    BY <1>1, <2>1, <2>2, <2>3, <2>5 DEF HInv, LiveIsSomewhere, FinishedIsNowhere
  <2> QED
    BY <2>2, <2>3, <2>4, <2>6 DEF HInv
<1>4. CASE ~ IsPidSuspended(returned)
  BY <1>1, <1>2, <1>4, FinishKeeps DEF AfterRun
<1> QED
  BY <1>3, <1>4

-----------------------------------------------------------------------------
(* The types that neither invariant gives.                                  *)

TypesLeft == /\ time \in Times
             /\ spawner \in [Pids -> Pids \cup {NoPid}]
             /\ suspendedInfo \in [Pids -> Times \cup {NoDelay, Absent}]
             /\ suspendCalled \in SUBSET Pids
             /\ eventQueue \in SUBSET Entries
             /\ awaitWaiters \in SUBSET AwaitWaiters

LEMMA TypesFollow ==
  ASSUME IInv, HInv, TypesLeft, features \in Usages
  PROVE  TypeOK
<1>1. Created \subseteq Pids /\ Suspended \subseteq Pids
  BY SomewhereIsCreated DEF Suspended
<1>2. /\ nextPid \in 1 .. MaxPid + 1
      /\ processParents \in [Pids -> Pids \cup {NoPid}]
      /\ forkBlock \in [Pids -> SUBSET Pids]
      /\ killed \in SUBSET Pids /\ finished \in SUBSET Pids
  BY <1>1 DEF IInv, TreeOK, Terminated
<1>3. /\ parked \in [Places -> SUBSET Pids]
      /\ woken \in SUBSET Pids
      /\ current \in Pids \cup {NoPid} /\ returned \in Pids \cup {NoPid}
  BY <1>1 DEF IInv, WaitingAreCreated
<1>4. suspendedPids \in SUBSET Pids
  BY <1>1 DEF HInv, Turns
<1>5. joinWaiters \in SUBSET JoinWaiters
  BY DEF IInv, JoinsOK, WaiterOK
<1> QED
  BY <1>2, <1>3, <1>4, <1>5 DEF TypesLeft, TypeOK

\* A set of numbers that is not empty has a least one.
LEMMA MinExists ==
  ASSUME NEW T \in SUBSET Nat, T # {}
  PROVE  Min(T) \in T
<1>1. IsWellFoundedOn(OpToRel(<, Nat), Nat)
  BY NatLessThanWellFounded
<1>2. PICK x \in T : \A y \in T : <<y, x>> \notin OpToRel(<, Nat)
  BY <1>1, WFMin
<1>3. \A y \in T : x =< y
  <2> TAKE y \in T
  <2>1. x \in Nat /\ y \in Nat
    OBVIOUS
  <2>2. ~ (y < x)
    BY <1>2, <2>1 DEF OpToRel
  <2> QED
    BY <2>1, <2>2
<1> QED
  BY <1>3 DEF Min

\* Entries for now, of processes that there are.
LEMMA NowIsTyped ==
  ASSUME TypesLeft, NEW S \in SUBSET Pids
  PROVE  Now(S) \in SUBSET Entries
BY DEF TypesLeft, Now, Entries

LEMMA TerminateIsTyped ==
  ASSUME TypesLeft, IInv, HInv, NEW S, NEW places, NEW dropAwaits, NEW wakeAwaits,
         Terminate(S, places, dropAwaits, wakeAwaits)
  PROVE  /\ eventQueue' \in SUBSET Entries
         /\ awaitWaiters' \in SUBSET AwaitWaiters
<1>1. /\ {w.parent : w \in Released(S)} \in SUBSET Pids
      /\ \A W \in SUBSET awaitWaiters : Alive(W, killed') \in SUBSET Pids
  <2>1. \A w \in joinWaiters : w.parent \in Pids
    BY SomewhereIsCreated DEF Joining
  <2>2. \A w \in awaitWaiters : w.waiter \in Pids
    BY SomewhereIsCreated DEF Awaiting
  <2> QED
    BY <2>1, <2>2 DEF Released, Affected, Alive
<1>2. PICK W \in SUBSET awaitWaiters :
         /\ awaitWaiters' \subseteq awaitWaiters
         /\ eventQueue' = {e \in eventQueue : e.pid \notin S}
                              \cup Now({w.parent : w \in Released(S)})
                              \cup Now(Alive(W, killed'))
  <2> DEFINE left == IF dropAwaits THEN {w \in awaitWaiters : w.waiter \notin S}
                     ELSE awaitWaiters
             up == IF wakeAwaits THEN Woken(left, S) ELSE {}
  <2>1. up \in SUBSET awaitWaiters /\ left \ up \subseteq awaitWaiters
    BY DEF Woken
  <2>2. /\ awaitWaiters' = left \ up
        /\ eventQueue' = {e \in eventQueue : e.pid \notin S}
                             \cup Now({w.parent : w \in Released(S)})
                             \cup Now(Alive(up, killed'))
    BY DEF Terminate
  <2> HIDE DEF left, up
  <2> QED
    BY <2>1, <2>2
<1>3. Now({w.parent : w \in Released(S)}) \cup Now(Alive(W, killed')) \in SUBSET Entries
  BY <1>1, NowIsTyped
<1> QED
  BY <1>2, <1>3 DEF TypesLeft

LEMMA AdvanceIsTyped ==
  ASSUME TypesLeft, AdvanceTime
  PROVE  time' \in Times
<1> DEFINE T == {e.at : e \in eventQueue}
<1>1. T # {} /\ T \subseteq Times /\ T \in SUBSET Nat
  BY ProcessAssumption DEF AdvanceTime, TypesLeft, Entries, Times
<1>2. time' = Min(T)
  BY DEF AdvanceTime
<1> HIDE DEF T
<1> QED
  BY <1>1, <1>2, MinExists

LEMMA AfterRunIsTyped ==
  ASSUME TypesLeft, IInv, HInv, AfterRun
  PROVE  TypesLeft'
<1>1. UNCHANGED <<time, spawner, suspendedInfo, suspendCalled>>
  BY DEF AfterRun
<1>2. CASE IsPidSuspended(returned)
  BY <1>1, <1>2 DEF AfterRun, TypesLeft
<1>3. CASE ChildFinished(returned)
  <2>1. {w.parent : w \in MetBy(returned)} \in SUBSET Pids
    BY MetLeave, SomewhereIsCreated
  <2>2. Alive(Woken(awaitWaiters, {returned}), killed) \in SUBSET Pids
    BY SomewhereIsCreated DEF Alive, Woken, Awaiting
  <2>3. /\ awaitWaiters' \subseteq awaitWaiters
        /\ eventQueue' = eventQueue
              \cup Now(Alive(Woken(awaitWaiters, {returned}), killed))
              \cup Now({w.parent : w \in MetBy(returned)})
    BY <1>3 DEF ChildFinished
  <2>4. eventQueue' \in SUBSET Entries
    BY <2>1, <2>2, <2>3, NowIsTyped DEF TypesLeft
  <2> QED
    BY <1>1, <2>3, <2>4 DEF TypesLeft
<1> QED
  BY <1>2, <1>3 DEF AfterRun

LEMMA TypesLeftKept ==
  ASSUME IInv, HInv, TypesLeft, features \in Usages, [Next]_vars
  PROVE  TypesLeft'
<1> USE DEF tree, status, lists, running
<1>0. /\ TypeOK /\ Created \subseteq Pids
      /\ Runs => current \in Pids
      /\ \A place \in Places : parked[place] \in SUBSET Pids
  <2>1. TypeOK /\ Created \subseteq Pids
    BY TypesFollow, SomewhereIsCreated
  <2> QED
    BY <2>1 DEF TypeOK, Runs
<1>1. CASE End \/ WaitFork \/ \E place \in PlacesInUse : Park(place)
  BY <1>1 DEF End, WaitFork, Park, TypesLeft
<1>2. CASE Delay(1)
  <2> DEFINE e == [pid |-> current, at |-> time + 1]
  <2>1. time + 1 \in Times
    BY <1>2, ProcessAssumption DEF Delay, TypesLeft, Times
  <2>2. e \in Entries
    BY <1>0, <1>2, <2>1 DEF Delay, Entries
  <2> QED
    BY <1>2, <2>2 DEF Delay, TypesLeft
<1>3. ASSUME NEW n \in 0 .. MaxPid, NEW type \in JoinTypes \cup {"join_none"},
             NEW late \in SUBSET Pids, Fork(n, type, late)
      PROVE  TypesLeft'
  <2> DEFINE new == nextPid .. nextPid + n - 1
  <2>1. /\ spawner' = [p \in Pids |-> IF p \in new THEN current ELSE spawner[p]]
        /\ late \subseteq new /\ (late # {} => time < MaxTime)
        /\ eventQueue' = eventQueue \cup Now(new \ late)
                              \cup {[pid |-> p, at |-> time + 1] : p \in late}
        /\ current \in Pids
    BY <1>0, <1>3 DEF Fork
  <2>2. new \subseteq Pids
    <3>1. nextPid \in 1 .. MaxPid + 1 /\ nextPid + n <= MaxPid + 1
      BY <1>0, <1>3 DEF TypeOK, Fork
    <3> QED
      BY <3>1, ProcessAssumption DEF Pids
  <2> HIDE DEF new
  <2>3. spawner' \in [Pids -> Pids \cup {NoPid}]
    BY <2>1 DEF TypesLeft
  <2>4. Now(new \ late) \in SUBSET Entries
    BY <2>2, NowIsTyped
  <2>5. late # {} => time + 1 \in Times
    BY <2>1, ProcessAssumption DEF TypesLeft, Times
  <2>6. {[pid |-> p, at |-> time + 1] : p \in late} \in SUBSET Entries
    BY <2>1, <2>2, <2>5 DEF Entries
  <2> QED
    BY <1>3, <2>1, <2>3, <2>4, <2>6 DEF Fork, TypesLeft
<1>4. ASSUME NEW t \in Pids, Await(t) PROVE TypesLeft'
  <2>1. [waiter |-> current, target |-> t] \in AwaitWaiters
    BY <1>0, <1>4 DEF Await, AwaitWaiters
  <2> QED
    BY <1>4, <2>1 DEF Await, TypesLeft
<1>5. ASSUME NEW t \in Pids, Kill(t) PROVE TypesLeft'
  <2>1. eventQueue' \in SUBSET Entries /\ awaitWaiters' \in SUBSET AwaitWaiters
    BY <1>5, TerminateIsTyped DEF Kill
  <2>2. suspendedInfo' \in [Pids -> Times \cup {NoDelay, Absent}]
    <3> DEFINE S == {t} \cup Descendants(t)
    <3>1. suspendedInfo' = [p \in Pids |-> IF p \in S THEN Absent
                                           ELSE suspendedInfo[p]]
      BY <1>5 DEF Kill
    <3> HIDE DEF S
    <3> QED
      BY <3>1 DEF TypesLeft
  <2> QED
    BY <1>5, <2>1, <2>2 DEF Kill, TypesLeft
<1>6. ASSUME NEW S, NEW wakes, Terminate(S, DisablePlaces, wakes, wakes)
                            \/ Terminate(S, KillPlaces, wakes, wakes),
             UNCHANGED <<time, spawner, suspendedInfo, suspendCalled>>
      PROVE  TypesLeft'
  <2>1. eventQueue' \in SUBSET Entries /\ awaitWaiters' \in SUBSET AwaitWaiters
    BY <1>6, TerminateIsTyped
  <2> QED
    BY <1>6, <2>1 DEF TypesLeft
<1>7. CASE DisableFork
  BY <1>6, <1>7 DEF DisableFork
<1>8. ASSUME NEW f \in Pids, DisableForkBlock(f) PROVE TypesLeft'
  BY <1>6, <1>8 DEF DisableForkBlock
<1>9. ASSUME NEW q \in Pids, DisableLabel(q) PROVE TypesLeft'
  BY <1>6, <1>9 DEF DisableLabel
<1>10. ASSUME NEW S \in SUBSET Pids, DisableTask(S) PROVE TypesLeft'
  BY <1>6, <1>10 DEF DisableTask
<1>11. ASSUME NEW t \in Pids, Suspend(t) PROVE TypesLeft'
  <2>1. suspendedInfo' \in [Pids -> Times \cup {NoDelay, Absent}]
    BY <1>0, <1>11, SuspendKeeps
  <2>2. /\ \A e \in eventQueue' : e \in eventQueue
        /\ suspendCalled' = suspendCalled \cup {t}
        /\ UNCHANGED <<time, spawner, awaitWaiters>>
    BY <1>11 DEF Suspend
  <2> QED
    BY <2>1, <2>2 DEF TypesLeft
<1>12. ASSUME NEW t \in Pids, Resume(t) PROVE TypesLeft'
  <2>1. ResumeTime(t) \in Times
    <3>1. time \in Times /\ suspendedInfo[t] \in Times \cup {NoDelay, Absent}
      BY DEF TypesLeft
    <3> QED
      BY <3>1, ProcessAssumption DEF ResumeTime, Times, NoDelay, Absent
  <2>2. [pid |-> t, at |-> ResumeTime(t)] \in Entries
    BY <2>1 DEF Entries
  <2>3. /\ eventQueue' = eventQueue \cup {[pid |-> t, at |-> ResumeTime(t)]}
        /\ suspendedInfo' = [suspendedInfo EXCEPT ![t] = Absent]
        /\ suspendCalled' = suspendCalled \ {t}
        /\ UNCHANGED <<time, spawner, awaitWaiters>>
    BY <1>12 DEF Resume, ResumedEntry, InfoWithout
  <2> QED
    BY <2>2, <2>3 DEF TypesLeft
<1>13. CASE Body
  BY <1>1, <1>2, <1>3, <1>4, <1>5, <1>7, <1>8, <1>9, <1>10, <1>11, <1>12, <1>13
  DEF Body
<1>14. ASSUME NEW p \in Pids, Dispatch(p) \/ RunWoken(p) PROVE TypesLeft'
  BY <1>14 DEF Dispatch, RunWoken, TypesLeft
<1>15. ASSUME NEW place, NEW S, TakeWoken(place, S) PROVE TypesLeft'
  BY <1>15 DEF TakeWoken, TypesLeft
<1>16. ASSUME NEW place, NEW p \in Pids, WakeQueued(place, p) PROVE TypesLeft'
  <2>1. Now({p}) \in SUBSET Entries
    BY NowIsTyped
  <2> QED
    BY <1>16, <2>1 DEF WakeQueued, TypesLeft
<1>17. CASE PromoteInactive
  <2>1. Now(parked["inactive"]) \in SUBSET Entries
    BY <1>0, NowIsTyped DEF Places
  <2> QED
    BY <1>17, <2>1 DEF PromoteInactive, TypesLeft
<1>18. CASE AdvanceTime
  <2>1. time' \in Times
    BY <1>18, AdvanceIsTyped
  <2> QED
    BY <1>18, <2>1 DEF AdvanceTime, TypesLeft
<1>19. CASE Loop
  BY <1>14, <1>15, <1>16, <1>17, <1>18, <1>19, AfterRunIsTyped DEF Loop
<1>20. CASE UNCHANGED vars
  BY <1>20 DEF vars, TypesLeft
<1> QED
  BY <1>13, <1>19, <1>20 DEF Next

LEMMA HomesKept ==
  ASSUME IInv, HInv, TypesLeft, features \in Usages, [Next]_vars
  PROVE  HInv'
<1>0. TypeOK
  BY TypesFollow
<1>1. CASE Body
  <2>1. PlacesInUse \subseteq Places /\ 0 .. MaxPid \subseteq Nat
    BY DEF PlacesInUse
  <2> QED
    BY <1>0, <1>1, <2>1, EndKeeps, DelayKeeps, ParkKeeps, ForkKeeps, WaitForkKeeps,
       AwaitKeeps, KillKeeps, DisableForkKeeps, DisableForkBlockKeeps,
       DisableLabelKeeps, DisableTaskKeeps, SuspendKeeps, ResumeKeeps DEF Body
<1>2. CASE Loop
  <2>1. InlinePlaces \subseteq Places /\ QueuedPlaces \subseteq Places
    BY DEF InlinePlaces, QueuedPlaces, Places
  <2>2. CASE AdvanceTime
    BY <2>2, NobodyMoves DEF AdvanceTime, tree
  <2> QED
    BY <1>0, <1>2, <2>1, <2>2, AfterRunKeeps, DispatchKeeps, RunWokenKeeps,
       TakeWokenKeeps, WakeQueuedKeeps, PromoteInactiveKeeps DEF Loop
<1>3. CASE UNCHANGED vars
  BY <1>3, NobodyMoves DEF vars, tree
<1> QED
  BY <1>1, <1>2, <1>3 DEF Next

LEMMA HomesAtStart ==
  ASSUME Init
  PROVE  HInv /\ TypesLeft
<1> USE ProcessAssumption DEF Init
<1>1. /\ Listed = {} /\ Joining = {} /\ Awaiting = {} /\ Suspended = {}
      /\ Running = {} /\ woken = {} /\ current = NoPid /\ returned = NoPid
  BY DEF Listed, Joining, Awaiting, Suspended, Running
<1>2. Queued = 1 .. Roots
  <2>1. ASSUME NEW p \in 1 .. Roots PROVE \E e \in eventQueue : e.pid = p
    <3>1. [pid |-> p, at |-> time] \in eventQueue
      BY DEF Now
    <3> QED
      BY <3>1
  <2>2. \A e \in eventQueue : e.pid \in 1 .. Roots
    BY DEF Now
  <2> QED
    BY <2>1, <2>2 DEF Queued
<1>3. Exclusive /\ OnceListed /\ OnceJoining /\ OnceAwaiting
  BY <1>1 DEF Exclusive, OnceListed, OnceJoining, OnceAwaiting
<1>4. OnceInQueue
  BY DEF OnceInQueue, Now
<1>5. Turns
  BY <1>1 DEF Turns
<1>6. LiveIsSomewhere /\ FinishedIsNowhere
  <2>1. Created = 1 .. Roots
    BY DEF Created, Pids
  <2> QED
    BY <1>2, <2>1 DEF LiveIsSomewhere, FinishedIsNowhere, Somewhere
<1>7. TypesLeft
  BY DEF TypesLeft, Times, Pids, Entries, Now
<1> QED
  BY <1>3, <1>4, <1>5, <1>6, <1>7 DEF HInv

-----------------------------------------------------------------------------
(* From where the processes are to the homes that the properties speak of.  *)

LEMMA HomesMeans ==
  ASSUME IInv, NEW p \in Pids
  PROVE  Homes(p) = {} <=> p \notin Somewhere
<1>1. p # NoPid
  BY SomewhereIsCreated
<1>2. ASSUME p \in Somewhere PROVE Homes(p) # {}
  <2>1. CASE p \in Queued
    <3>1. PICK e \in eventQueue : e.pid = p
      BY <2>1 DEF Queued
    <3>2. <<"queue", e.at>> \in Homes(p)
      BY <3>1 DEF Homes
    <3> QED
      BY <3>2
  <2>2. CASE p \in Listed
    <3>1. PICK place \in Places : p \in parked[place]
      BY <2>2 DEF Listed
    <3>2. <<"parked", place>> \in Homes(p)
      BY <3>1 DEF Homes
    <3> QED
      BY <3>2
  <2>3. CASE p \in Joining
    <3>1. PICK w \in joinWaiters : w.parent = p
      BY <2>3 DEF Joining
    <3>2. <<"join", w>> \in Homes(p)
      BY <3>1 DEF Homes
    <3> QED
      BY <3>2
  <2>4. CASE p \in Awaiting
    <3>1. PICK w \in awaitWaiters : w.waiter = p
      BY <2>4 DEF Awaiting
    <3>2. <<"await", w>> \in Homes(p)
      BY <3>1 DEF Homes
    <3> QED
      BY <3>2
  <2>5. CASE p \in Suspended
    <3>1. <<"suspended", suspendedInfo[p]>> \in Homes(p)
      BY <2>5 DEF Homes, Suspended
    <3> QED
      BY <3>1
  <2>6. CASE p \in woken \/ p \in Running
    <3>1. <<"woken", p>> \in Homes(p) \/ <<"running", p>> \in Homes(p)
      BY <2>6 DEF Homes, Running
    <3> QED
      BY <3>1
  <2> QED
    BY <1>2, <2>1, <2>2, <2>3, <2>4, <2>5, <2>6 DEF Somewhere
<1>3. ASSUME p \notin Somewhere PROVE Homes(p) = {}
  <2>1. /\ \A e \in eventQueue : e.pid # p
        /\ \A place \in Places : p \notin parked[place]
        /\ \A w \in joinWaiters : w.parent # p
        /\ \A w \in awaitWaiters : w.waiter # p
        /\ suspendedInfo[p] = Absent /\ p \notin woken /\ p # current
    BY <1>1, <1>3 DEF Somewhere, Queued, Listed, Joining, Awaiting, Suspended, Running
  <2> QED
    BY <2>1 DEF Homes
<1> QED
  BY <1>2, <1>3
LEMMA HomesOnce ==
  ASSUME IInv, HInv, NEW p \in Pids
  PROVE  Cardinality(Homes(p)) <= 1
<1> DEFINE Q == {<<"queue", e.at>> : e \in {x \in eventQueue : x.pid = p}}
           L == {<<"parked", place>> : place \in {x \in Places : p \in parked[x]}}
           J == {<<"join", w>> : w \in {x \in joinWaiters : x.parent = p}}
           A == {<<"await", w>> : w \in {x \in awaitWaiters : x.waiter = p}}
           U == {<<"suspended", i>> : i \in {suspendedInfo[p]} \ {Absent}}
           W == {<<"woken", p>> : x \in woken \cap {p}}
           R == {<<"running", p>> : x \in {current} \cap {p}}
           AtMostOne(S) == \A x, y \in S : x = y
\* In each kind of place once,
<1>1. AtMostOne(Q)
  BY DEF HInv, OnceInQueue
<1>2. AtMostOne(L)
  <2>1. \A a, b \in Places : p \in parked[a] /\ p \in parked[b] => a = b
    BY DEF HInv, OnceListed
  <2> QED
    BY <2>1
<1>3. AtMostOne(J)
  BY DEF HInv, OnceJoining
<1>4. AtMostOne(A)
  BY DEF HInv, OnceAwaiting
<1>5. AtMostOne(U) /\ AtMostOne(W) /\ AtMostOne(R)
  OBVIOUS
\* and in one kind of place only.
<1>6. /\ Q # {} => p \in Queued
      /\ L # {} => p \in Listed
      /\ J # {} => p \in Joining
      /\ A # {} => p \in Awaiting
      /\ U # {} => p \in Suspended
      /\ W # {} => p \in woken
  BY DEF Queued, Listed, Joining, Awaiting, Suspended
<1>7. R # {} => p \in Running
  BY SomewhereIsCreated DEF Running
<1>8. Homes(p) = Q \cup L \cup J \cup A \cup U \cup W \cup R
  BY DEF Homes
<1> HIDE DEF Q, L, J, A, U, W, R
<1>9. AtMostOne(Homes(p))
  BY <1>1, <1>2, <1>3, <1>4, <1>5, <1>6, <1>7, <1>8 DEF HInv, Exclusive
<1>10. Homes(p) = {} \/ \E x : Homes(p) = {x}
  BY <1>9
<1> QED
  BY <1>10, FS_EmptySet, FS_Singleton

LEMMA HomesInOrder == Spec => [](IInv /\ HInv /\ TypesLeft /\ features \in Usages)
<1>1. Init => HInv /\ TypesLeft
  BY HomesAtStart
<1>2. IInv /\ HInv /\ TypesLeft /\ features \in Usages /\ [Next]_vars
         => HInv' /\ TypesLeft'
  BY HomesKept, TypesLeftKept
<1> QED
  BY <1>1, <1>2, ListsInOrder, FeaturesFixed, PTL DEF Spec

(***************************************************************************)
(* A process has one continuation as long as it lives, and it is never     *)
(* lost: whatever interleaving of wakeups, kill(), the disable statements, *)
(* suspend() and resume() (process_control.rs, statements.rs), each of     *)
(* which searches some of the lists only, no body runs twice from one      *)
(* point and none is forgotten.                                            *)
(***************************************************************************)
THEOREM ProcessWaitsOnce == Spec => []WaitsOnce
<1>1. IInv /\ HInv /\ TypesLeft /\ features \in Usages => WaitsOnce
  <2> SUFFICES ASSUME IInv, HInv, TypesLeft, features \in Usages PROVE WaitsOnce
    OBVIOUS
  <2>1. TypeOK
    BY TypesFollow
  <2>2. OneContinuation
    BY HomesOnce DEF OneContinuation
  <2>3. NoneLost
    BY SomewhereIsCreated, HomesMeans DEF NoneLost, HInv, LiveIsSomewhere
  <2> QED
    BY <2>1, <2>2, <2>3 DEF WaitsOnce
<1> QED
  BY <1>1, HomesInOrder, PTL

(***************************************************************************)
(* What is_pid_suspended is for (process_control.rs): a process counted as *)
(* finished, whose joining parent went on, is in no list whatever.         *)
(***************************************************************************)
THEOREM FinishedWaitsNowhere == Spec => []FinishedIsDone
<1>1. IInv /\ HInv => FinishedIsDone
  <2> SUFFICES ASSUME IInv, HInv, NEW p \in finished \ killed PROVE Homes(p) = {}
    BY DEF FinishedIsDone
  <2>1. p \in Pids
    BY SomewhereIsCreated DEF IInv, TreeOK, Terminated
  <2>2. p \notin Somewhere
    BY DEF HInv, FinishedIsNowhere
  <2> QED
    BY <2>1, <2>2, HomesMeans
<1> QED
  BY <1>1, HomesInOrder, PTL

(***************************************************************************)
(* A killed process never starts to run again, although kill() and disable *)
(* leave it in the lists they do not search and in the pass that already   *)
(* took it: every dispatch goes through run_scheduled_process, which looks *)
(* at killed_pids.                                                         *)
(***************************************************************************)
THEOREM KilledStaysDown == Spec => KilledNeverStarts
<1>1. IInv /\ [Next]_vars => [\A p \in killed : current' = p => current = p]_vars
  <2> SUFFICES ASSUME IInv, Next
               PROVE  \A p \in killed : current' = p => current = p
    OBVIOUS
  <2> USE DEF running, tree, status, lists
  <2>1. NoPid \notin killed
    BY SomewhereIsCreated DEF IInv, TreeOK, Terminated
  <2>2. CASE Body
    <3>1. current' \in {current, NoPid}
      BY <2>2 DEF Body, Leave, End, Delay, Park, Fork, WaitFork, Await, Kill, DisableFork,
                  DisableForkBlock, DisableLabel, DisableTask, Suspend, Resume
    <3> QED
      BY <2>1, <3>1
  <2>3. ASSUME NEW p \in Pids, Dispatch(p) \/ RunWoken(p)
        PROVE  current' = current \/ current' \notin killed
    BY <2>3 DEF Dispatch, RunWoken, StartRun
  <2>4. CASE Loop
    BY <2>3, <2>4 DEF Loop, AfterRun, TakeWoken, WakeQueued, PromoteInactive, AdvanceTime
  <2> QED
    BY <2>2, <2>4 DEF Next
<1> QED
  BY <1>1, ListsInOrder, PTL DEF Spec, KilledNeverStarts

-----------------------------------------------------------------------------
(***************************************************************************)
(* The tree.  NearestAncestor is a recursive function over the forks: it   *)
(* exists because a process is forked by one with a smaller number, and    *)
(* what a step does to it is shown by induction on the number.             *)
(***************************************************************************)

\* Induction over a set of numbers, from the well-foundedness of <.
LEMMA SetInduction ==
  ASSUME NEW T, 0 \in T, \A k \in Nat : k \in T => k + 1 \in T
  PROVE  Nat \subseteq T
<1> DEFINE U == Nat \ T
<1>1. SUFFICES ASSUME U # {} PROVE FALSE
  OBVIOUS
<1>2. U \in SUBSET Nat
  OBVIOUS
<1> HIDE DEF U
<1>3. PICK x \in U : \A y \in U : <<y, x>> \notin OpToRel(<, Nat)
  BY <1>1, <1>2, NatLessThanWellFounded, WFMin
<1> USE DEF U
<1>4. x # 0 /\ x - 1 \in Nat
  OBVIOUS
<1>5. <<x - 1, x>> \in OpToRel(<, Nat)
  BY <1>4 DEF OpToRel
<1>6. x - 1 \notin U
  BY <1>3, <1>5
<1> QED
  BY <1>4, <1>6

\* Each process is forked by one with a smaller number (NoPid is 0).
Upward(sp) == sp \in [Pids -> Pids \cup {NoPid}] /\ \A p \in Pids : sp[p] < p

\* Where p hangs, by the forks sp, the killed K and the finished F, when u says
\* where those before it hang.
Above(sp, K, F, u, p) ==
    IF sp[p] = NoPid THEN NoPid
    ELSE IF sp[p] \in K THEN Orphan
    ELSE IF sp[p] \in F /\ sp[sp[p]] # NoPid THEN u[sp[p]]
    ELSE sp[p]

LEMMA AboveExists ==
  ASSUME NEW sp, Upward(sp), NEW K, NEW F
  PROVE  \E u : u = [p \in Pids |-> Above(sp, K, F, u, p)]
<1> USE ProcessAssumption
<1> DEFINE Hung(u, k) == [p \in 1 .. k |-> Above(sp, K, F, u, p)]
           T == {k \in Nat : k > MaxPid \/ \E u : u = Hung(u, k)}
<1>1. 0 \in T
  <2> DEFINE u == [p \in 1 .. 0 |-> 0]
  <2>1. u = Hung(u, 0)
    OBVIOUS
  <2> QED
    BY <2>1
<1>2. ASSUME NEW k \in Nat, k \in T PROVE k + 1 \in T
  <2>1. CASE k + 1 > MaxPid
    BY <2>1
  <2>2. CASE k + 1 <= MaxPid
    <3>1. PICK u : u = Hung(u, k)
      BY <1>2, <2>2
    <3> DEFINE v == [p \in 1 .. k + 1 |-> IF p \in 1 .. k THEN u[p]
                                          ELSE Above(sp, K, F, u, k + 1)]
    <3>2. ASSUME NEW p \in 1 .. k + 1 PROVE v[p] = Above(sp, K, F, v, p)
      <4>1. p \in Pids /\ (sp[p] = NoPid \/ sp[p] \in 1 .. k)
        BY <2>2 DEF Upward, Pids, NoPid
      <4>2. sp[p] \in 1 .. k => v[sp[p]] = u[sp[p]]
        BY <4>1
      <4>3. Above(sp, K, F, v, p) = Above(sp, K, F, u, p)
        <5> HIDE DEF v
        <5> QED
          BY <4>1, <4>2 DEF Above
      <4>4. CASE p \in 1 .. k
        <5>1. u[p] = Above(sp, K, F, u, p)
          BY <3>1, <4>4, Zenon
        <5>2. v[p] = u[p]
          BY <4>4
        <5> QED
          BY <4>3, <5>1, <5>2
      <4>5. CASE p = k + 1
        BY <4>3, <4>5
      <4> QED
        BY <4>4, <4>5
    <3>3. v = Hung(v, k + 1)
      <4>1. Hung(v, k + 1) = [p \in 1 .. k + 1 |-> v[p]]
        BY <3>2, Zenon
      <4> QED
        BY <4>1
    <3>4. \E w : w = Hung(w, k + 1)
      <4> HIDE DEF v, Hung
      <4> QED
        BY <3>3, Zenon
    <3>5. k + 1 \in Nat
      OBVIOUS
    <3> QED
      <4> HIDE DEF v, Hung
      <4> QED
        BY <3>4, <3>5, Zenon DEF T
  <2> QED
    BY <2>1, <2>2
<1>3. MaxPid \in T
  <2>1. Nat \subseteq T
    <3> HIDE DEF T
    <3> QED
      BY <1>1, <1>2, SetInduction
  <2> QED
    BY <2>1
<1>4. PICK u : u = Hung(u, MaxPid)
  BY <1>3
<1>5. Hung(u, MaxPid) = [p \in Pids |-> Above(sp, K, F, u, p)]
  BY Zenon DEF Pids
<1> QED
  <2> HIDE DEF Hung
  <2> QED
    BY <1>4, <1>5, Zenon

TheAncestors(sp, K, F) == CHOOSE u : u = [p \in Pids |-> Above(sp, K, F, u, p)]

LEMMA AncestorsAre ==
  ASSUME NEW sp, Upward(sp), NEW K, NEW F, NEW p \in Pids
  PROVE  TheAncestors(sp, K, F)[p] = Above(sp, K, F, TheAncestors(sp, K, F), p)
<1> DEFINE u == TheAncestors(sp, K, F)
<1>1. u = [q \in Pids |-> Above(sp, K, F, u, q)]
  BY AboveExists, Zenon DEF TheAncestors
<1> HIDE DEF u
<1>2. u[p] = Above(sp, K, F, u, p)
  BY <1>1, Zenon
<1> QED
  BY <1>2 DEF u

LEMMA NearestAncestorIs ==
  /\ NearestAncestor = TheAncestors(spawner, killed, finished)
  /\ NearestAncestor' = TheAncestors(spawner', killed', finished')
  BY Zenon DEF NearestAncestor, TheAncestors, Above

\* What holds of a process when it holds of those before it holds of all.
LEMMA PidInduction ==
  ASSUME NEW T, \A p \in Pids : (\A q \in Pids : q < p => q \in T) => p \in T
  PROVE  Pids \subseteq T
<1> USE ProcessAssumption
<1> DEFINE U == {k \in Nat : \A q \in Pids : q <= k => q \in T}
<1>1. 0 \in U
  BY DEF Pids
<1>2. ASSUME NEW k \in Nat, k \in U PROVE k + 1 \in U
  <2> SUFFICES ASSUME NEW q \in Pids, q <= k + 1 PROVE q \in T
    OBVIOUS
  <2>1. CASE q <= k
    BY <1>2, <2>1
  <2>2. CASE q = k + 1
    <3>1. \A r \in Pids : r < q => r <= k
      BY <2>2 DEF Pids
    <3> QED
      BY <1>2, <3>1
  <2> QED
    BY <2>1, <2>2 DEF Pids
<1>3. MaxPid \in U
  <2>1. Nat \subseteq U
    <3> HIDE DEF U
    <3> QED
      BY <1>1, <1>2, SetInduction
  <2> QED
    BY <2>1
<1> QED
  BY <1>3 DEF Pids

LEMMA PidsAre ==
  /\ NoPid = 0 /\ Orphan \notin Pids /\ NoPid # Orphan /\ NoPid \notin Pids
  /\ \A p \in Pids : p \in Nat /\ p > 0
  BY ProcessAssumption DEF Pids, NoPid, Orphan

\* The spawner of p, when it has one, is before it.
LEMMA UpwardIs ==
  ASSUME NEW sp, Upward(sp), NEW p \in Pids
  PROVE  sp[p] = NoPid \/ (sp[p] \in Pids /\ sp[p] < p)
  BY DEF Upward

\* A process hangs below one before it that was not killed.
LEMMA HangsBelow ==
  ASSUME NEW sp, Upward(sp), NEW K, NEW F
  PROVE  \A p \in Pids :
            LET u == TheAncestors(sp, K, F)
            IN /\ u[p] = NoPid <=> sp[p] = NoPid
               /\ u[p] \in {NoPid, Orphan} \/ (u[p] \in Pids \ K /\ u[p] < p)
<1> DEFINE u == TheAncestors(sp, K, F)
           T == {p \in Pids : /\ u[p] = NoPid <=> sp[p] = NoPid
                              /\ \/ u[p] \in {NoPid, Orphan}
                                 \/ u[p] \in Pids \ K /\ u[p] < p}
<1>1. \A p \in Pids : u[p] = Above(sp, K, F, u, p)
  BY AncestorsAre
<1> HIDE DEF u
<1>2. ASSUME NEW p \in Pids, \A q \in Pids : q < p => q \in T
      PROVE  p \in T
  <2>1. u[p] = Above(sp, K, F, u, p)
    BY <1>1
  <2>2. sp[p] = NoPid \/ (sp[p] \in Pids /\ sp[p] < p)
    BY UpwardIs
  <2>3. CASE sp[p] \in Pids /\ sp[p] \notin K /\ sp[p] \in F /\ sp[sp[p]] # NoPid
    <3>1. u[p] = u[sp[p]] /\ sp[p] \in T /\ sp[p] # NoPid
      BY <1>2, <2>1, <2>2, <2>3, PidsAre DEF Above
    <3>2. u[sp[p]] < sp[p] /\ u[sp[p]] \in Pids => u[sp[p]] < p
      BY <2>2, <2>3, PidsAre
    <3> QED
      BY <2>3, <3>1, <3>2
  <2>4. CASE ~ (sp[p] \in Pids /\ sp[p] \notin K /\ sp[p] \in F /\ sp[sp[p]] # NoPid)
    BY <2>1, <2>2, <2>4, PidsAre DEF Above
  <2> QED
    BY <2>3, <2>4
<1>3. Pids \subseteq T
  <2> HIDE DEF T
  <2> QED
    BY <1>2, PidInduction
<1> QED
  BY <1>3 DEF u

\* c finishes: whoever hangs below it hangs where it hung, unless it is a root.
LEMMA AfterFinish ==
  ASSUME NEW sp, Upward(sp), NEW K, NEW F, NEW c \in Pids, c \notin F
  PROVE  \A p \in Pids :
            LET u == TheAncestors(sp, K, F)
                v == TheAncestors(sp, K, F \cup {c})
            IN v[p] = IF u[p] = c /\ sp[c] # NoPid THEN u[c] ELSE u[p]
<1> DEFINE u == TheAncestors(sp, K, F)
           v == TheAncestors(sp, K, F \cup {c})
           T == {p \in Pids : v[p] = IF u[p] = c /\ sp[c] # NoPid THEN u[c] ELSE u[p]}
<1>1. \A p \in Pids : u[p] = Above(sp, K, F, u, p)
  BY AncestorsAre
<1>2. \A p \in Pids : v[p] = Above(sp, K, F \cup {c}, v, p)
  BY AncestorsAre
<1>3. u[c] # c
  <2>1. u[c] \in {NoPid, Orphan} \/ (u[c] \in Pids \ K /\ u[c] < c)
    BY HangsBelow
  <2> HIDE DEF u
  <2> QED
    BY <2>1, PidsAre
<1> HIDE DEF u, v
<1>4. ASSUME NEW p \in Pids, \A q \in Pids : q < p => q \in T
      PROVE  p \in T
  <2>1. u[p] = Above(sp, K, F, u, p) /\ v[p] = Above(sp, K, F \cup {c}, v, p)
    BY <1>1, <1>2
  <2>2. sp[p] = NoPid \/ (sp[p] \in Pids /\ sp[p] < p)
    BY UpwardIs
  <2>3. CASE sp[p] = NoPid \/ sp[p] \in K
    BY <2>1, <2>3, PidsAre DEF Above
  <2>4. CASE sp[p] # NoPid /\ sp[p] \notin K
    <3>1. sp[p] \in Pids /\ sp[p] \in T
      BY <1>4, <2>2, <2>4
    <3>2. CASE sp[p] = c
      BY <1>3, <2>1, <2>4, <3>1, <3>2 DEF Above
    <3>3. CASE sp[p] # c
      BY <2>1, <2>4, <3>1, <3>3 DEF Above
    <3> QED
      BY <3>2, <3>3
  <2> QED
    BY <2>3, <2>4
<1>5. Pids \subseteq T
  <2> HIDE DEF T
  <2> QED
    BY <1>4, PidInduction
<1> QED
  BY <1>5 DEF u, v

\* More are killed: whoever still hangs below a live one hangs where it did.
LEMMA AfterKill ==
  ASSUME NEW sp, Upward(sp), NEW K, NEW F, NEW K2, NEW F2,
         K \subseteq K2, F2 \ K2 = F \ K2
  PROVE  \A p \in Pids :
            LET u == TheAncestors(sp, K, F)
                v == TheAncestors(sp, K2, F2)
            IN v[p] \in {u[p], Orphan}
<1> DEFINE u == TheAncestors(sp, K, F)
           v == TheAncestors(sp, K2, F2)
           T == {p \in Pids : v[p] \in {u[p], Orphan}}
<1>1. \A p \in Pids : u[p] = Above(sp, K, F, u, p)
  BY AncestorsAre
<1>2. \A p \in Pids : v[p] = Above(sp, K2, F2, v, p)
  BY AncestorsAre
<1> HIDE DEF u, v
<1>4. ASSUME NEW p \in Pids, \A q \in Pids : q < p => q \in T
      PROVE  p \in T
  <2>1. u[p] = Above(sp, K, F, u, p) /\ v[p] = Above(sp, K2, F2, v, p)
    BY <1>1, <1>2
  <2>2. sp[p] = NoPid \/ (sp[p] \in Pids /\ sp[p] \in T)
    BY <1>4, UpwardIs
  <2>3. sp[p] \notin K2 => (sp[p] \in F2 <=> sp[p] \in F) /\ sp[p] \notin K
    OBVIOUS
  <2> QED
    BY <2>1, <2>2, <2>3 DEF Above
<1>5. Pids \subseteq T
  <2> HIDE DEF T
  <2> QED
    BY <1>4, PidInduction
<1> QED
  BY <1>5 DEF u, v

\* A fork leaves those before it where they hang.
LEMMA AfterFork ==
  ASSUME NEW sp, Upward(sp), NEW K, NEW F, NEW sp2, Upward(sp2), NEW n \in Nat,
         \A p \in Pids : p < n => sp2[p] = sp[p]
  PROVE  \A p \in Pids :
            p < n => TheAncestors(sp2, K, F)[p] = TheAncestors(sp, K, F)[p]
<1> DEFINE u == TheAncestors(sp, K, F)
           v == TheAncestors(sp2, K, F)
           T == {p \in Pids : p < n => v[p] = u[p]}
<1>1. \A p \in Pids : u[p] = Above(sp, K, F, u, p)
  BY AncestorsAre
<1>2. \A p \in Pids : v[p] = Above(sp2, K, F, v, p)
  BY AncestorsAre
<1> HIDE DEF u, v
<1>4. ASSUME NEW p \in Pids, \A q \in Pids : q < p => q \in T
      PROVE  p \in T
  <2> SUFFICES ASSUME p < n PROVE v[p] = u[p]
    OBVIOUS
  <2>1. u[p] = Above(sp, K, F, u, p) /\ v[p] = Above(sp2, K, F, v, p)
    BY <1>1, <1>2
  <2>2. sp[p] = NoPid \/ (sp[p] \in Pids /\ sp[p] < p /\ sp[p] < n)
    BY UpwardIs, PidsAre
  <2>3. sp2[p] = sp[p] /\ (sp[p] # NoPid => sp2[sp[p]] = sp[sp[p]] /\ v[sp[p]] = u[sp[p]])
    BY <1>4, <2>2
  <2> QED
    BY <2>1, <2>3 DEF Above
<1>5. Pids \subseteq T
  <2> HIDE DEF T
  <2> QED
    BY <1>4, PidInduction
<1> QED
  BY <1>5 DEF u, v

-----------------------------------------------------------------------------
(* The steps.                                                               *)

\* Forks go upward, the map follows them, and what just returned did not end
\* before, unless it was killed.
TreeInv == /\ Upward(spawner)
           /\ TreeFollowsForks
           /\ returned \notin finished \ killed

\* Who runs has not finished, unless it was killed.
LEMMA RunningHasNotFinished ==
  ASSUME IInv, HInv
  PROVE  current \notin finished \ killed
<1>1. CASE current = NoPid
  BY <1>1, SomewhereIsCreated DEF IInv, TreeOK, Terminated
<1>2. CASE current # NoPid
  BY <1>2 DEF HInv, FinishedIsNowhere, Somewhere, Running
<1> QED
  BY <1>1, <1>2

\* A step that neither forks nor ends a process.
LEMMA TreeKept ==
  ASSUME TreeInv, UNCHANGED <<tree, killed, finished>>,
         returned' \notin finished \ killed
  PROVE  TreeInv'
<1>1. NearestAncestor' = NearestAncestor
  BY NearestAncestorIs DEF tree
<1>2. TreeFollowsForks'
  BY <1>1 DEF TreeInv, TreeFollowsForks, tree, Created, Terminated
<1> QED
  BY <1>2 DEF TreeInv, tree, Upward

\* kill() and the disable statements.
LEMMA TreeAfterTerminate ==
  ASSUME IInv, HInv, TreeInv, NEW S, NEW places, NEW drops, NEW wakes,
         Terminate(S, places, drops, wakes), UNCHANGED <<nextPid, spawner>>,
         finished' \ killed' = finished \ killed',
         returned' \in {returned, current}
  PROVE  TreeInv'
<1>1. /\ killed' = killed \cup S
      /\ processParents' = [p \in Pids |-> IF p \in S THEN NoPid ELSE processParents[p]]
  BY DEF Terminate
<1>2. returned' \notin finished' \ killed'
  BY <1>1, RunningHasNotFinished DEF TreeInv
<1>3. ASSUME NEW p \in Created' \ Terminated', NearestAncestor'[p] # Orphan
      PROVE  processParents'[p] = NearestAncestor'[p]
  <2>1. p \in Created \ Terminated /\ p \in Pids /\ p \notin S
    BY <1>1, <1>3, SomewhereIsCreated DEF Created, Terminated
  <2>2. NearestAncestor'[p] \in {NearestAncestor[p], Orphan}
    <3>1. Upward(spawner) /\ killed \subseteq killed'
      BY <1>1 DEF TreeInv
    <3>2. TheAncestors(spawner, killed', finished')[p]
             \in {TheAncestors(spawner, killed, finished)[p], Orphan}
      BY <2>1, <3>1, AfterKill
    <3> QED
      BY <3>2, NearestAncestorIs
  <2>3. processParents[p] = NearestAncestor[p]
    BY <1>3, <2>1, <2>2 DEF TreeInv, TreeFollowsForks
  <2> QED
    BY <1>1, <1>3, <2>1, <2>2, <2>3
<1>4. TreeFollowsForks'
  BY <1>3 DEF TreeFollowsForks, Orphan
<1> QED
  BY <1>2, <1>4 DEF TreeInv, Upward

\* A fork: the new processes hang below the one that runs.
LEMMA TreeAfterFork ==
  ASSUME IInv, HInv, TreeInv, TypesLeft,
         NEW n \in 0 .. MaxPid, NEW type, NEW late, Fork(n, type, late)
  PROVE  TreeInv'
<1> DEFINE new == nextPid .. nextPid + n - 1
<1>1. /\ current # NoPid
      /\ nextPid + n <= MaxPid + 1
      /\ nextPid' = nextPid + n
      /\ processParents' = [p \in Pids |-> IF p \in new THEN current ELSE processParents[p]]
      /\ spawner' = [p \in Pids |-> IF p \in new THEN current ELSE spawner[p]]
      /\ UNCHANGED <<killed, finished>>
      /\ returned' \in {returned, current}
  BY DEF Fork, Runs, status, running, Leave
<1>2. current \in Created /\ current \in Pids /\ nextPid \in Nat /\ nextPid > 0
  BY <1>1, ProcessAssumption, SomewhereIsCreated DEF IInv, TreeOK, WaitingAreCreated
<1>3. current < nextPid
  BY <1>2 DEF Created
<1>4. Upward(spawner) /\ Upward(spawner')
  <2>1. Upward(spawner)
    BY DEF TreeInv
  <2>2. \A p \in new : current < p
    BY <1>2, <1>3, PidsAre
  <2> HIDE DEF new
  <2> QED
    BY <1>1, <1>2, <2>1, <2>2 DEF Upward
<1>5. current \notin finished \ killed
  BY RunningHasNotFinished
<1>6. ASSUME NEW p \in Created' \ Terminated', NearestAncestor'[p] # Orphan
      PROVE  processParents'[p] = NearestAncestor'[p]
  <2>0. p \in Pids /\ p \in 1 .. nextPid + n - 1 /\ p \notin Terminated
    BY <1>1, <1>2, <1>6, ProcessAssumption DEF Created, Terminated, Pids
  <2>1. CASE p \in new
    <3>1. NearestAncestor'[p] = Above(spawner', killed, finished, NearestAncestor', p)
      BY <1>1, <1>4, <2>0, AncestorsAre, NearestAncestorIs
    <3>2. spawner'[p] = current /\ processParents'[p] = current
      BY <1>1, <2>0, <2>1
    <3>3. NearestAncestor'[p] \in {Orphan, current}
      BY <1>1, <1>5, <3>1, <3>2 DEF Above
    <3> QED
      BY <1>6, <3>2, <3>3
  <2>2. CASE p \notin new
    <3>1. p < nextPid /\ p \in Created
      BY <1>2, <2>0, <2>2 DEF Created
    <3>2. \A q \in Pids : q < nextPid => spawner'[q] = spawner[q]
      BY <1>1, <1>2, PidsAre
    <3>3. NearestAncestor'[p] = NearestAncestor[p]
      <4>1. TheAncestors(spawner', killed, finished)[p]
              = TheAncestors(spawner, killed, finished)[p]
        BY <1>2, <1>4, <2>0, <3>1, <3>2, AfterFork
      <4> QED
        BY <1>1, <4>1, NearestAncestorIs
    <3>4. processParents[p] = NearestAncestor[p]
      BY <1>6, <2>0, <3>1, <3>3 DEF TreeInv, TreeFollowsForks
    <3> QED
      BY <1>1, <2>0, <2>2, <3>3, <3>4
  <2> QED
    BY <2>1, <2>2
<1>7. TreeFollowsForks'
  BY <1>6 DEF TreeFollowsForks, Orphan
<1>8. returned' \notin finished' \ killed'
  BY <1>1, <1>5 DEF TreeInv
<1> QED
  BY <1>4, <1>7, <1>8 DEF TreeInv, Upward

\* child_finished: the children of the one that ends become children of its
\* parent, unless it is a root.
LEMMA TreeAfterFinish ==
  ASSUME IInv, TreeInv, NEW c \in Created, c \notin finished \ killed,
         ChildFinished(c), UNCHANGED <<nextPid, spawner, killed>>,
         returned' = NoPid
  PROVE  TreeInv'
<1> DEFINE u == NearestAncestor
           v == NearestAncestor'
<1>1. finished' = finished \cup {c} /\ processParents' = ParentsAfter(c)
  BY DEF ChildFinished
<1>2. Upward(spawner) /\ c \in Pids /\ c # NoPid
  BY SomewhereIsCreated DEF TreeInv
<1>3. /\ u = TheAncestors(spawner, killed, finished)
      /\ v = TheAncestors(spawner, killed, finished \cup {c})
  BY <1>1, NearestAncestorIs
<1>4. \A p \in Pids : /\ u[p] = NoPid <=> spawner[p] = NoPid
                      /\ u[p] \in {NoPid, Orphan} \/ u[p] \in Pids \ killed
  BY <1>2, <1>3, HangsBelow
<1>5. ASSUME NEW p \in Created' \ Terminated', v[p] # Orphan
      PROVE  processParents'[p] = v[p]
  <2>1. p \in Created \ Terminated /\ p \in Pids /\ p # c
    BY <1>1, <1>5, SomewhereIsCreated DEF Created, Terminated
  <2>2. processParents'[p] = IF processParents[p] = c /\ processParents[c] # NoPid
                             THEN processParents[c] ELSE processParents[p]
    BY <1>1, <2>1 DEF ParentsAfter
  <2>3. u[p] # Orphan => processParents[p] = u[p]
    BY <2>1 DEF TreeInv, TreeFollowsForks
  <2>4. CASE c \in killed
    <3>1. v[p] \in {u[p], Orphan}
      BY <1>2, <1>3, <2>1, <2>4, AfterKill
    <3>2. u[p] # c
      BY <1>2, <1>4, <2>1, <2>4, <1>5, <3>1
    <3> QED
      BY <1>5, <2>2, <2>3, <3>1, <3>2
  <2>5. CASE c \notin killed
    <3>1. v[p] = IF u[p] = c /\ spawner[c] # NoPid THEN u[c] ELSE u[p]
      BY <1>2, <1>3, <2>1, <2>5, AfterFinish
    <3>2. u[c] # Orphan => processParents[c] = u[c]
      BY <2>5 DEF TreeInv, TreeFollowsForks, Terminated
    <3>3. u[c] = NoPid <=> spawner[c] = NoPid
      BY <1>2, <1>4
    <3>4. c # Orphan /\ NoPid # Orphan
      BY <1>2, PidsAre
    <3> HIDE DEF u, v
    <3> QED
      BY <1>5, <2>2, <2>3, <3>1, <3>2, <3>3, <3>4
  <2> QED
    BY <2>4, <2>5
<1>6. TreeFollowsForks'
  BY <1>5 DEF TreeFollowsForks, Orphan
<1>7. returned' \notin finished' \ killed'
  BY <1>1, <1>2, SomewhereIsCreated DEF IInv, TreeOK, Terminated
<1> QED
  BY <1>2, <1>6, <1>7 DEF TreeInv, Upward

LEMMA TreeInvKept ==
  ASSUME IInv, HInv, TypesLeft, TreeInv, [Next]_vars
  PROVE  TreeInv'
<1> USE DEF status, lists
<1>0. /\ current \notin finished \ killed
      /\ returned \notin finished \ killed
      /\ NoPid \notin finished
  BY RunningHasNotFinished, SomewhereIsCreated DEF TreeInv, IInv, TreeOK, Terminated
<1>1. CASE End \/ Delay(1) \/ WaitFork \/ (\E place \in PlacesInUse : Park(place))
             \/ (\E t \in Pids : Await(t))
  <2>1. UNCHANGED <<tree, killed, finished>> /\ returned' = current
    BY <1>1 DEF End, Delay, WaitFork, Park, Await, Leave
  <2> QED
    BY <1>0, <2>1, TreeKept
<1>2. CASE \E t \in Pids : Suspend(t) \/ Resume(t)
  <2>1. UNCHANGED <<tree, killed, finished, returned>>
    BY <1>2 DEF Suspend, Resume, running
  <2> QED
    BY <1>0, <2>1, TreeKept
<1>3. ASSUME NEW t \in Pids, Kill(t) PROVE TreeInv'
  <2> DEFINE S == {t} \cup Descendants(t)
  <2>1. /\ Terminate(S, KillPlaces, TRUE, TRUE)
        /\ UNCHANGED <<nextPid, spawner, returned>>
        /\ finished' = finished \ S
    BY <1>3 DEF Kill, running
  <2> HIDE DEF S
  <2>2. finished' \ killed' = finished \ killed'
    BY <2>1 DEF Terminate
  <2> QED
    BY <2>1, <2>2, TreeAfterTerminate
<1>4. ASSUME NEW S, NEW wakes, Terminate(S, DisablePlaces, wakes, wakes)
                            \/ Terminate(S, KillPlaces, wakes, wakes),
             UNCHANGED <<nextPid, spawner, finished>>, returned' \in {returned, current}
      PROVE  TreeInv'
  BY <1>4, TreeAfterTerminate
<1>5. CASE DisableFork
  BY <1>4, <1>5 DEF DisableFork, running
<1>6. ASSUME NEW f \in Pids, DisableForkBlock(f) PROVE TreeInv'
  BY <1>4, <1>6 DEF DisableForkBlock, running, Leave
<1>7. ASSUME NEW q \in Pids, DisableLabel(q) PROVE TreeInv'
  BY <1>4, <1>7 DEF DisableLabel, running
<1>8. ASSUME NEW S \in SUBSET Pids, DisableTask(S) PROVE TreeInv'
  BY <1>4, <1>8 DEF DisableTask, running
<1>9. ASSUME NEW n \in 0 .. MaxPid, NEW type \in JoinTypes \cup {"join_none"},
             NEW late \in SUBSET Pids, Fork(n, type, late)
      PROVE  TreeInv'
  BY <1>9, TreeAfterFork
<1>10. CASE Body
  BY <1>1, <1>2, <1>3, <1>5, <1>6, <1>7, <1>8, <1>9, <1>10 DEF Body
<1>11. CASE AfterRun
  <2>1. /\ returned # NoPid /\ returned' = NoPid
        /\ UNCHANGED <<nextPid, spawner, forkBlock, killed>>
    BY <1>11 DEF AfterRun
  <2>2. CASE IsPidSuspended(returned)
    BY <1>0, <1>11, <2>1, <2>2, TreeKept DEF AfterRun, tree
  <2>3. CASE ~ IsPidSuspended(returned)
    <3>1. ChildFinished(returned)
      BY <1>11, <2>3 DEF AfterRun
    <3>2. returned \in Created
      BY <2>1 DEF IInv, WaitingAreCreated
    <3> QED
      BY <1>0, <2>1, <3>1, <3>2, TreeAfterFinish
  <2> QED
    BY <2>2, <2>3
<1>12. ASSUME NEW p \in Pids, Dispatch(p) \/ RunWoken(p) PROVE TreeInv'
  <2>1. UNCHANGED <<tree, killed, finished>> /\ (returned' = returned \/ returned' \in killed)
    BY <1>12 DEF Dispatch, RunWoken, StartRun
  <2> QED
    BY <1>0, <2>1, TreeKept
<1>13. CASE \/ \E place \in InlinePlaces, S \in SUBSET Pids : TakeWoken(place, S)
            \/ \E place \in QueuedPlaces, p \in Pids : WakeQueued(place, p)
            \/ PromoteInactive \/ AdvanceTime \/ UNCHANGED vars
  <2>1. UNCHANGED <<tree, killed, finished, returned>>
    BY <1>13 DEF TakeWoken, WakeQueued, PromoteInactive, AdvanceTime, running, vars
  <2> QED
    BY <1>0, <2>1, TreeKept
<1> QED
  BY <1>10, <1>11, <1>12, <1>13 DEF Next, Loop

(***************************************************************************)
(* The tree of processParents is the tree of the forks with the finished   *)
(* taken out: child_finished gives the children of the one that ends to    *)
(* its parent (processes.rs), and kill() and the disable statements take   *)
(* the entries of those they terminate and of nobody else.  So what wait   *)
(* fork, disable fork and kill() find below a process is what was forked   *)
(* below it, where no killed process is on the way.                        *)
(***************************************************************************)
THEOREM ForksFormTheTree == Spec => []TreeFollowsForks
<1>1. Init => TreeInv
  <2> SUFFICES ASSUME Init PROVE TreeInv
    OBVIOUS
  <2>1. Upward(spawner)
    BY PidsAre DEF Init, Upward
  <2>2. \A p \in Pids : NearestAncestor[p] = NoPid
    BY <2>1, NearestAncestorIs, HangsBelow DEF Init
  <2>3. Created \subseteq Pids
    BY ProcessAssumption DEF Init, Created, Pids
  <2>4. TreeFollowsForks
    BY <2>2, <2>3 DEF Init, TreeFollowsForks
  <2> QED
    BY <2>1, <2>4 DEF TreeInv, Init
<1>2. IInv /\ HInv /\ TypesLeft /\ TreeInv /\ [Next]_vars => TreeInv'
  BY TreeInvKept
<1>3. TreeInv => TreeFollowsForks
  BY DEF TreeInv
<1> QED
  BY <1>1, <1>2, <1>3, HomesInOrder, PTL DEF Spec
=============================================================================
