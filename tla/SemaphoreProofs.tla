---------------------------- MODULE SemaphoreProofs ----------------------------
(***************************************************************************)
(* Proofs about Semaphore.tla, for any processes and any number of keys.   *)
(***************************************************************************)
EXTENDS Semaphore, SequenceTheorems, FiniteSetTheorems, WellFoundedInduction, TLAPS

-----------------------------------------------------------------------------
\* The waiters that a put leaves in the queue are those after the first k.
LEMMA RestOfQueue ==
  ASSUME waiters \in Seq(Waiters), NEW k \in 0 .. Len(waiters)
  PROVE  /\ SubSeq(waiters, k + 1, Len(waiters)) \in Seq(Waiters)
         /\ SubSeq(waiters, k + 1, Len(waiters)) # <<>>
              => /\ k < Len(waiters)
                 /\ Head(SubSeq(waiters, k + 1, Len(waiters))) = waiters[k + 1]
<1> DEFINE rest == SubSeq(waiters, k + 1, Len(waiters))
<1>1. /\ rest \in Seq(Waiters)
      /\ Len(rest) = Len(waiters) - k
      /\ \A i \in 1 .. Len(waiters) - k : rest[i] = waiters[k + i]
  BY SubSeqProperties
<1>2. ASSUME rest # <<>> PROVE k < Len(waiters)
  BY <1>1, <1>2, EmptySeq
<1>3. ASSUME rest # <<>> PROVE Head(rest) = rest[1]
  BY <1>1, <1>3
<1> QED
  BY <1>1, <1>2, <1>3

\* A process served by a put was one of the waiters, at its place.
LEMMA PlaceOfWaiter ==
  ASSUME waiters \in Seq(Waiters), NEW k \in 0 .. Len(waiters), NEW p,
         p \in Pids(SubSeq(waiters, 1, k))
  PROVE  waiters[Place(p, waiters)].n \in Keys
<1>1. PICK w \in ToSet(SubSeq(waiters, 1, k)) : w.pid = p
  BY DEF Pids
<1>2. \E i \in DOMAIN waiters : waiters[i].pid = p
  <2>1. /\ DOMAIN SubSeq(waiters, 1, k) = 1 .. k
        /\ \A i \in 1 .. k : SubSeq(waiters, 1, k)[i] = waiters[i]
    BY SMT
  <2>2. PICK i \in 1 .. k : w = waiters[i]
    BY <1>1, <2>1 DEF ToSet
  <2> QED
    BY <1>1, <2>2
<1>3. Place(p, waiters) \in DOMAIN waiters
  BY <1>2 DEF Place
<1>4. waiters[Place(p, waiters)] \in Waiters
  BY <1>3, ElementOfSeq
<1> QED
  BY <1>4 DEF Waiters

\* kill() and suspend() leave the other waiters.
LEMMA QueueWithout ==
  ASSUME waiters \in Seq(Waiters), NEW p
  PROVE  WaitersWithout(p) \in Seq(Waiters)
<1>1. CASE p \in Pids(waiters)
  <2>1. \E i \in DOMAIN waiters : waiters[i].pid = p
    BY <1>1 DEF Pids, ToSet
  <2>2. Place(p, waiters) \in 1 .. Len(waiters)
    BY <2>1 DEF Place
  <2> DEFINE i == Place(p, waiters)
  <2>3. /\ SubSeq(waiters, 1, i - 1) \in Seq(Waiters)
        /\ SubSeq(waiters, i + 1, Len(waiters)) \in Seq(Waiters)
    BY <2>2, SubSeqProperties
  <2> QED
    BY <1>1, <2>3, ConcatProperties DEF WaitersWithout, RemoveAt
<1>2. CASE p \notin Pids(waiters)
  BY <1>2 DEF WaitersWithout
<1> QED
  BY <1>1, <1>2

-----------------------------------------------------------------------------
(***************************************************************************)
(* Every value keeps its type; above all, count >= 0: nobody is lent a key *)
(* that the semaphore does not have (wake_semaphore_waiters and the get    *)
(* of construction.rs compare before they subtract).                       *)
(***************************************************************************)
THEOREM TypeInvariance == Spec => []TypeOK
<1> USE MaxKeysAssumption DEF Keys, States
<1>1. Init => TypeOK
  <2> SUFFICES ASSUME Init PROVE TypeOK
    OBVIOUS
  <2>1. headGone \in BOOLEAN
    BY Zenon DEF Init
  <2>2. /\ count \in Keys /\ given \in Keys /\ waiters \in Seq(Waiters)
        /\ suspended \subseteq Procs /\ unpaid \subseteq Procs
        /\ state \in [Procs -> States] /\ lent \in [Procs -> Nat]
    BY DEF Init
  <2> QED
    BY <2>1, <2>2, Zenon DEF TypeOK
<1>2. TypeOK /\ [Next]_vars => TypeOK'
  <2> SUFFICES ASSUME TypeOK, [Next]_vars PROVE TypeOK'
    OBVIOUS
  <2> USE DEF TypeOK
  <2>1. ASSUME NEW p \in Procs, NEW n \in Keys, Put(p, n) PROVE TypeOK'
    <3>1. /\ given' \in Keys /\ suspended' \subseteq Procs
          /\ unpaid' \subseteq Procs /\ ServeWaiters(count + n)
      BY <2>1 DEF Put
    <3>2. PICK k \in 0 .. Len(waiters) : \E left \in [0 .. k -> Keys] :
             /\ count' = left[k]
             /\ waiters' = SubSeq(waiters, k + 1, Len(waiters))
             /\ state' = [q \in Procs |-> IF q \in Pids(SubSeq(waiters, 1, k))
                                         THEN "ready" ELSE state[q]]
             /\ lent' = [q \in Procs |->
                            IF q \in Pids(SubSeq(waiters, 1, k))
                            THEN lent[q] + waiters[Place(q, waiters)].n
                            ELSE lent[q]]
      BY <3>1 DEF ServeWaiters
    <3>3. waiters' \in Seq(Waiters)
      BY <3>2, RestOfQueue
    <3>4. count' \in Keys
      BY <3>2
    <3>5. state' \in [Procs -> States] /\ headGone' \in BOOLEAN
      <4>1. headGone' \in BOOLEAN
        BY <2>1, Zenon DEF Put
      <4> QED
        BY <3>2, <4>1
    <3>6. lent' \in [Procs -> Nat]
      <4>1. \A q \in Pids(SubSeq(waiters, 1, k)) :
               waiters[Place(q, waiters)].n \in Keys
        BY PlaceOfWaiter
      <4> QED
        BY <3>2, <4>1
    <3> QED
      BY <3>1, <3>3, <3>4, <3>5, <3>6
  <2>2. ASSUME NEW p \in Procs, NEW n \in Keys, GetParks(p, n) PROVE TypeOK'
    <3>1. [pid |-> p, n |-> n] \in Waiters
      BY DEF Waiters
    <3>2. waiters' \in Seq(Waiters)
      BY <2>2, <3>1, AppendProperties DEF GetParks, Parked
    <3> QED
      BY <2>2, <3>2 DEF GetParks, history
  <2>3. ASSUME NEW p \in Procs, NEW n \in Keys, TakeKeys(p, n) PROVE TypeOK'
    BY <2>3 DEF TakeKeys
  <2>4. ASSUME NEW p \in Procs, NEW n \in Keys, Dispatch(p) \/ GetReturns(p, n)
        PROVE  TypeOK'
    BY <2>4 DEF Dispatch, GetReturns, history
  <2>5. ASSUME NEW p \in Procs, Kill(p) \/ Suspend(p) PROVE TypeOK'
    <3>1. headGone' = (headGone \/ IsHead(p))
      BY <2>5, Zenon DEF Kill, Suspend
    <3>2. headGone' \in BOOLEAN
      BY <3>1, Zenon
    <3>3. /\ count' = count /\ given' = given /\ lent' = lent
          /\ unpaid' = unpaid /\ waiters' = WaitersWithout(p)
          /\ suspended' \subseteq Procs /\ state' \in [Procs -> States]
      BY <2>5 DEF Kill, Suspend
    <3> QED
      BY <3>2, <3>3, QueueWithout
  <2>6. ASSUME NEW p \in Procs, Resume(p) PROVE TypeOK'
    BY <2>6 DEF Resume
  <2>7. CASE UNCHANGED vars
    BY <2>7 DEF vars, history
  <2> QED
    BY <2>1, <2>2, <2>3, <2>4, <2>5, <2>6, <2>7 DEF Next
<1> QED
  BY <1>1, <1>2, PTL DEF Spec

-----------------------------------------------------------------------------
\* What follows a sequence does not change its first element.
LEMMA FirstOfConcat ==
  ASSUME NEW S, NEW a \in Seq(S), NEW b \in Seq(S), Len(a) >= 1
  PROVE  a \o b \in Seq(S) /\ Len(a \o b) >= 1 /\ (a \o b)[1] = a[1]
  BY ConcatProperties

\* Taking out a waiter that is not the oldest leaves the oldest.
LEMMA OldestStays ==
  ASSUME waiters \in Seq(Waiters), NEW p, ~ IsHead(p), WaitersWithout(p) # <<>>
  PROVE  waiters # <<>> /\ Head(WaitersWithout(p)) = Head(waiters)
<1>1. CASE p \in Pids(waiters)
  <2>1. \E i \in DOMAIN waiters : waiters[i].pid = p
    BY <1>1 DEF Pids, ToSet
  <2> DEFINE i == Place(p, waiters)
  <2>2. i \in 1 .. Len(waiters) /\ waiters[i].pid = p
    BY <2>1 DEF Place
  <2>3. i > 1
    BY <2>2 DEF IsHead
  <2>4. /\ SubSeq(waiters, 1, i - 1) \in Seq(Waiters)
        /\ SubSeq(waiters, i + 1, Len(waiters)) \in Seq(Waiters)
        /\ Len(SubSeq(waiters, 1, i - 1)) = i - 1
        /\ SubSeq(waiters, 1, i - 1)[1] = waiters[1]
    BY <2>2, <2>3, SubSeqProperties
  <2>5. WaitersWithout(p) = SubSeq(waiters, 1, i - 1)
                              \o SubSeq(waiters, i + 1, Len(waiters))
    BY <1>1 DEF WaitersWithout, RemoveAt
  <2>6. /\ WaitersWithout(p) \in Seq(Waiters)
        /\ WaitersWithout(p)[1] = waiters[1]
    BY <2>2, <2>3, <2>4, <2>5, FirstOfConcat
  <2> QED
    BY <2>2, <2>6
<1>2. CASE p \notin Pids(waiters)
  BY <1>2 DEF WaitersWithout
<1> QED
  BY <1>1, <1>2

(***************************************************************************)
(* No wakeup is lost, whatever the processes do: unless the head of the    *)
(* queue was killed or suspended since the last put, the oldest waiter is  *)
(* one that the keys do not suffice for.  WaitsForKeys is inductive given  *)
(* the types: a put stops serving at a waiter it cannot serve, a get parks *)
(* when its keys are missing, taking keys leaves fewer, and kill and       *)
(* suspend leave the head or are noted in headGone.                        *)
(***************************************************************************)
THEOREM NoWakeupLost == Spec => []WaitsForKeys
<1> USE MaxKeysAssumption DEF Keys
<1>1. Init => WaitsForKeys
  BY DEF Init, WaitsForKeys, OldestMustWait
<1>2. TypeOK /\ WaitsForKeys /\ [Next]_vars => WaitsForKeys'
  <2> SUFFICES ASSUME TypeOK, WaitsForKeys, [Next]_vars
               PROVE  WaitsForKeys'
    OBVIOUS
  <2> USE DEF WaitsForKeys, OldestMustWait, TypeOK
  <2>1. ASSUME NEW p \in Procs, NEW n \in Keys, Put(p, n)
        PROVE  WaitsForKeys'
    <3>1. PICK k \in 0 .. Len(waiters) : \E left \in [0 .. k -> Keys] :
             /\ WakesInOrder(left, k)
             /\ count' = left[k]
             /\ waiters' = SubSeq(waiters, k + 1, Len(waiters))
      BY <2>1 DEF Put, ServeWaiters
    <3>2. k < Len(waiters) => count' < waiters[k + 1].n
      BY <3>1 DEF WakesInOrder
    <3> QED
      BY <3>1, <3>2, RestOfQueue
  <2>2. ASSUME NEW p \in Procs, NEW n \in Keys, GetParks(p, n)
        PROVE  WaitsForKeys'
    <3> DEFINE w == [pid |-> p, n |-> n]
    <3>1. /\ w \in Waiters /\ w.n = n
          /\ waiters' = Append(waiters, w) /\ count < n /\ count' = count
          /\ headGone' = headGone
      BY <2>2 DEF GetParks, Parked, Waiters, history
    <3>2. waiters' # <<>> => Head(waiters') = IF waiters = <<>> THEN w
                                                              ELSE Head(waiters)
      BY <3>1
    <3> QED
      BY <3>1, <3>2
  <2>3. ASSUME NEW p \in Procs, NEW n \in Keys, TakeKeys(p, n)
        PROVE  WaitsForKeys'
    <3>1. waiters # <<>> => Head(waiters).n \in Keys
      <4>1. ASSUME waiters # <<>> PROVE Head(waiters) \in Waiters
        BY <4>1, HeadTailProperties
      <4> QED
        BY <4>1 DEF Waiters
    <3> QED
      BY <2>3, <3>1 DEF TakeKeys
  <2>4. ASSUME NEW p \in Procs, NEW n \in Keys, Dispatch(p) \/ GetReturns(p, n)
        PROVE  WaitsForKeys'
    BY <2>4 DEF Dispatch, GetReturns, history
  <2>5. ASSUME NEW p \in Procs, Kill(p) \/ Suspend(p) PROVE WaitsForKeys'
    <3>1. /\ waiters' = WaitersWithout(p) /\ count' = count
          /\ headGone' = (headGone \/ IsHead(p))
      BY <2>5 DEF Kill, Suspend
    <3> QED
      BY <3>1, OldestStays
  <2>6. ASSUME NEW p \in Procs, Resume(p) PROVE WaitsForKeys'
    BY <2>6 DEF Resume
  <2>7. CASE UNCHANGED vars
    BY <2>7 DEF vars, history
  <2> QED
    BY <2>1, <2>2, <2>3, <2>4, <2>5, <2>6, <2>7 DEF Next
<1> QED
  BY <1>1, <1>2, TypeInvariance, PTL DEF Spec
-----------------------------------------------------------------------------
(* The order of the queue.                                                  *)

EachOnceIn(q) == \A i, j \in DOMAIN q : q[i].pid = q[j].pid => i = j

\* A parked process is in the queue once, or was suspended; it does not run.
QueueOK == /\ EachOnceIn(waiters)
           /\ \A p \in Pids(waiters) \cup suspended :
                 p \in Procs /\ state[p] = "blocked"
           /\ suspended \cap Pids(waiters) = {}

LEMMA PidsAre ==
  ASSUME NEW q \in Seq(Waiters)
  PROVE  Pids(q) = {q[i].pid : i \in 1 .. Len(q)}
  BY DEF Pids, ToSet

\* The place of a process in the queue is the one it stands at.
LEMMA PlaceIs ==
  ASSUME NEW q \in Seq(Waiters), EachOnceIn(q), NEW i \in 1 .. Len(q)
  PROVE  Place(q[i].pid, q) = i
<1>1. \E j \in DOMAIN q : q[j].pid = q[i].pid
  OBVIOUS
<1>2. /\ Place(q[i].pid, q) \in DOMAIN q
      /\ q[Place(q[i].pid, q)].pid = q[i].pid
  BY <1>1, Zenon DEF Place
<1> QED
  BY <1>2 DEF EachOnceIn

LEMMA PlaceExists ==
  ASSUME NEW q \in Seq(Waiters), NEW p \in Pids(q)
  PROVE  Place(p, q) \in 1 .. Len(q) /\ q[Place(p, q)].pid = p
<1>1. \E i \in DOMAIN q : q[i].pid = p
  BY PidsAre
<1> QED
  BY <1>1 DEF Place

(***************************************************************************)
(* A queue whose elements are elements of another, in the same order.      *)
(***************************************************************************)
OrderIn(r, q, at) == /\ at \in [1 .. Len(r) -> 1 .. Len(q)]
                     /\ \A i \in 1 .. Len(r) : r[i] = q[at[i]]
                     /\ \A i, j \in 1 .. Len(r) : i < j => at[i] < at[j]

\* It has each process once if the other has, and nobody gets ahead in it.
LEMMA OrderKept ==
  ASSUME NEW q \in Seq(Waiters), NEW r \in Seq(Waiters), EachOnceIn(q),
         NEW at, OrderIn(r, q, at)
  PROVE  /\ EachOnceIn(r)
         /\ Pids(r) \subseteq Pids(q)
         /\ \A p \in Pids(r) : Ahead(p, r) \subseteq Ahead(p, q)
<1>1. EachOnceIn(r)
  <2> SUFFICES ASSUME NEW i \in 1 .. Len(r), NEW j \in 1 .. Len(r),
                      r[i].pid = r[j].pid
               PROVE  i = j
    BY DEF EachOnceIn
  <2>1. /\ at[i] \in 1 .. Len(q) /\ at[j] \in 1 .. Len(q)
        /\ r[i] = q[at[i]] /\ r[j] = q[at[j]]
        /\ i < j => at[i] < at[j]
        /\ j < i => at[j] < at[i]
    BY DEF OrderIn
  <2>2. at[i] = at[j]
    BY <2>1 DEF EachOnceIn
  <2> QED
    BY <2>1, <2>2
<1>2. Pids(r) \subseteq Pids(q)
  BY PidsAre DEF OrderIn
<1>3. ASSUME NEW p \in Pids(r) PROVE Ahead(p, r) \subseteq Ahead(p, q)
  <2> DEFINE a == Place(p, r)
  <2>1. a \in 1 .. Len(r) /\ r[a].pid = p
    BY PlaceExists
  <2>2. at[a] \in 1 .. Len(q) /\ q[at[a]].pid = p
    BY <2>1 DEF OrderIn
  <2>3. Place(p, q) = at[a]
    BY <2>2, PlaceIs
  <2>4. ASSUME NEW i \in 1 .. a - 1 PROVE r[i].pid \in Ahead(p, q)
    <3>1. /\ at[i] \in 1 .. Len(q) /\ r[i] = q[at[i]] /\ at[i] < at[a]
      BY <2>1, <2>4, SMTT(30) DEF OrderIn
    <3>2. at[i] \in 1 .. Place(p, q) - 1
      BY <2>2, <2>3, <3>1
    <3> QED
      BY <3>1, <3>2 DEF Ahead
  <2> QED
    BY <2>4 DEF Ahead
<1> QED
  BY <1>1, <1>2, <1>3

\* A put leaves the end of the queue, and those it serves are not in it.
LEMMA RestInOrder ==
  ASSUME waiters \in Seq(Waiters), EachOnceIn(waiters), NEW k \in 0 .. Len(waiters)
  PROVE  LET rest == SubSeq(waiters, k + 1, Len(waiters))
         IN  /\ rest \in Seq(Waiters)
             /\ \E at : OrderIn(rest, waiters, at)
             /\ \A p \in Pids(rest) :
                   /\ p \notin Pids(SubSeq(waiters, 1, k))
                   /\ Behind(p, waiters) \cap Pids(SubSeq(waiters, 1, k)) = {}
<1> DEFINE rest == SubSeq(waiters, k + 1, Len(waiters))
           served == SubSeq(waiters, 1, k)
           at == [i \in 1 .. Len(waiters) - k |-> k + i]
<1>1. /\ rest \in Seq(Waiters) /\ Len(rest) = Len(waiters) - k
      /\ \A i \in 1 .. Len(waiters) - k : rest[i] = waiters[k + i]
  BY SubSeqProperties
<1>2. OrderIn(rest, waiters, at)
  BY <1>1 DEF OrderIn
<1>3. Pids(served) = {waiters[i].pid : i \in 1 .. k}
  <2>1. /\ served \in Seq(Waiters) /\ Len(served) = k
        /\ \A i \in 1 .. k : served[i] = waiters[i]
    BY SubSeqProperties
  <2> HIDE DEF served
  <2>2. Pids(served) = {served[i].pid : i \in 1 .. Len(served)}
    BY <2>1, PidsAre
  <2> QED
    BY <2>1, <2>2
<1>4. ASSUME NEW p \in Pids(rest)
      PROVE  p \notin Pids(served) /\ Behind(p, waiters) \cap Pids(served) = {}
  <2>1. PICK i \in 1 .. Len(waiters) - k : waiters[k + i].pid = p
    <3> HIDE DEF rest
    <3>1. p \in {rest[i].pid : i \in 1 .. Len(rest)}
      BY <1>1, <1>4, PidsAre
    <3> QED
      BY <1>1, <3>1
  <2>2. k + i \in 1 .. Len(waiters) /\ Place(p, waiters) = k + i
    BY <2>1, PlaceIs
  <2>3. p \notin Pids(served)
    BY <1>3, <2>1, <2>2 DEF EachOnceIn
  <2>4. Pids(served) \subseteq Ahead(p, waiters)
    BY <1>3, <2>2 DEF Ahead
  <2> QED
    BY <2>3, <2>4 DEF Behind
<1> QED
  BY <1>1, <1>2, <1>4

\* kill() and suspend() leave the others in their order.
LEMMA OthersInOrder ==
  ASSUME waiters \in Seq(Waiters), EachOnceIn(waiters), NEW x
  PROVE  /\ \E at : OrderIn(WaitersWithout(x), waiters, at)
         /\ x \notin Pids(WaitersWithout(x))
<1>1. CASE x \notin Pids(waiters)
  <2>1. OrderIn(waiters, waiters, [i \in 1 .. Len(waiters) |-> i])
    BY DEF OrderIn
  <2> QED
    BY <1>1, <2>1 DEF WaitersWithout
<1>2. CASE x \in Pids(waiters)
  <2> DEFINE i0 == Place(x, waiters)
             a == SubSeq(waiters, 1, i0 - 1)
             b == SubSeq(waiters, i0 + 1, Len(waiters))
             at == [i \in 1 .. Len(waiters) - 1 |-> IF i < i0 THEN i ELSE i + 1]
  <2>1. i0 \in 1 .. Len(waiters) /\ waiters[i0].pid = x
    BY <1>2, PlaceExists
  <2>2. WaitersWithout(x) = a \o b
    BY <1>2 DEF WaitersWithout, RemoveAt
  <2>3. /\ a \in Seq(Waiters) /\ Len(a) = i0 - 1
        /\ b \in Seq(Waiters) /\ Len(b) = Len(waiters) - i0
        /\ \A i \in 1 .. i0 - 1 : a[i] = waiters[i]
        /\ \A i \in 1 .. Len(waiters) - i0 : b[i] = waiters[i0 + i]
    BY <2>1, SubSeqProperties
  <2> HIDE DEF i0, a, b
  <2>4. /\ a \o b \in Seq(Waiters)
        /\ Len(a \o b) = Len(waiters) - 1
        /\ \A i \in 1 .. Len(waiters) - 1 : (a \o b)[i] = waiters[at[i]]
    <3>1. /\ a \o b \in Seq(Waiters)
          /\ Len(a \o b) = Len(a) + Len(b)
          /\ \A i \in 1 .. Len(a) + Len(b) :
                (a \o b)[i] = IF i <= Len(a) THEN a[i] ELSE b[i - Len(a)]
      BY <2>3, ConcatProperties
    <3>2. ASSUME NEW i \in 1 .. Len(waiters) - 1
          PROVE  (a \o b)[i] = waiters[at[i]]
      <4>1. CASE i < i0
        <5>1. i \in 1 .. i0 - 1 /\ i \in 1 .. Len(a) + Len(b) /\ i <= Len(a)
          BY <2>1, <2>3, <4>1
        <5>2. (a \o b)[i] = a[i] /\ a[i] = waiters[i] /\ at[i] = i
          BY <2>3, <3>1, <4>1, <5>1
        <5> QED
          BY <5>2
      <4>2. CASE i >= i0
        <5>1. i - Len(a) \in 1 .. Len(waiters) - i0
          BY <2>1, <2>3, <4>2
        <5>2. (a \o b)[i] = b[i - Len(a)]
          <6>1. i \in 1 .. Len(a) + Len(b) /\ ~ (i <= Len(a))
            BY <2>1, <2>3, <4>2
          <6> QED
            BY <3>1, <6>1, Zenon
        <5>3. b[i - Len(a)] = waiters[i0 + (i - Len(a))]
          BY <2>3, <5>1
        <5>4. i0 + (i - Len(a)) = at[i]
          BY <2>1, <2>3, <4>2
        <5> QED
          BY <5>2, <5>3, <5>4
      <4>3. i < i0 \/ i >= i0
        BY <2>1
      <4> QED
        BY <4>1, <4>2, <4>3, Zenon
    <3> HIDE DEF at
    <3> QED
      BY <2>1, <2>3, <3>1, <3>2
  <2>5. OrderIn(a \o b, waiters, at)
    BY <2>1, <2>4, SMTT(30) DEF OrderIn
  <2>6. ASSUME x \in Pids(a \o b) PROVE FALSE
    <3>1. PICK i \in 1 .. Len(waiters) - 1 : waiters[at[i]].pid = x
      <4> HIDE DEF at
      <4> DEFINE c == a \o b
      <4>1. c \in Seq(Waiters) /\ x \in Pids(c)
        BY <2>4, <2>6
      <4>2. /\ Len(c) = Len(waiters) - 1
            /\ \A i \in 1 .. Len(waiters) - 1 : c[i] = waiters[at[i]]
        BY <2>4
      <4> HIDE DEF c
      <4>3. PICK i \in 1 .. Len(c) : c[i].pid = x
        BY <4>1, PidsAre
      <4> QED
        BY <4>2, <4>3
    <3>2. at[i] \in 1 .. Len(waiters) /\ at[i] # i0
      BY <2>1
    <3> QED
      BY <2>1, <3>1, <3>2 DEF EachOnceIn
  <2> QED
    BY <2>2, <2>5, <2>6
<1> QED
  BY <1>1, <1>2

LEMMA LastInOrder ==
  ASSUME waiters \in Seq(Waiters), EachOnceIn(waiters), NEW w \in Waiters,
         w.pid \notin Pids(waiters)
  PROVE  LET q == Append(waiters, w)
         IN  /\ EachOnceIn(q) /\ Pids(q) = Pids(waiters) \cup {w.pid}
             /\ \A p \in Pids(waiters) : Ahead(p, q) \subseteq Ahead(p, waiters)
<1> DEFINE q == Append(waiters, w)
           n == Len(waiters)
<1>1. /\ n \in Nat /\ q \in Seq(Waiters) /\ Len(q) = n + 1
      /\ \A i \in 1 .. n : q[i] = waiters[i]
      /\ q[n + 1] = w
  BY AppendProperties, LenProperties
<1>2. \A i \in 1 .. n : waiters[i].pid # w.pid
  BY PidsAre
<1> HIDE DEF q
<1>3. EachOnceIn(q)
  <2> SUFFICES ASSUME NEW i \in 1 .. n + 1, NEW j \in 1 .. n + 1,
                      q[i].pid = q[j].pid
               PROVE  i = j
    BY <1>1 DEF EachOnceIn
  <2>1. (i \in 1 .. n \/ i = n + 1) /\ (j \in 1 .. n \/ j = n + 1)
    BY <1>1
  <2> QED
    BY <1>1, <1>2, <2>1 DEF EachOnceIn
<1>4. Pids(q) = Pids(waiters) \cup {w.pid}
  <2>1. /\ Pids(q) = {q[i].pid : i \in 1 .. n + 1}
        /\ Pids(waiters) = {waiters[i].pid : i \in 1 .. n}
    BY <1>1, PidsAre
  <2>2. \A i : i \in 1 .. n + 1 <=> i \in 1 .. n \/ i = n + 1
    BY <1>1
  <2> QED
    BY <1>1, <2>1, <2>2
<1>5. ASSUME NEW p \in Pids(waiters) PROVE Ahead(p, q) \subseteq Ahead(p, waiters)
  <2> DEFINE a == Place(p, waiters)
  <2>1. a \in 1 .. n /\ waiters[a].pid = p
    BY PlaceExists
  <2>2. a \in 1 .. Len(q) /\ q[a].pid = p
    BY <1>1, <2>1
  <2>3. Place(p, q) = a
    BY <1>1, <1>3, <2>2, PlaceIs
  <2> HIDE DEF a
  <2>4. \A i \in 1 .. a - 1 : q[i] = waiters[i]
    BY <1>1, <2>1
  <2> QED
    BY <2>3, <2>4 DEF Ahead, a
<1> QED
  BY <1>3, <1>4, <1>5 DEF q

\* What a put does to the queue and to the processes in it.
LEMMA PutKeepsOrder ==
  ASSUME TypeOK, QueueOK, NEW p \in Procs, NEW n \in Keys, Put(p, n)
  PROVE  /\ QueueOK'
         /\ \A q \in Pids(waiters') :
               /\ Ahead(q, waiters') \subseteq Ahead(q, waiters)
               /\ \A x \in Behind(q, waiters) : state'[x] # "ready"
<1> USE DEF TypeOK, QueueOK
<1>1. PICK k \in 0 .. Len(waiters) :
         /\ waiters' = SubSeq(waiters, k + 1, Len(waiters))
         /\ state' = [q \in Procs |-> IF q \in Pids(SubSeq(waiters, 1, k))
                                     THEN "ready" ELSE state[q]]
  BY DEF Put, ServeWaiters
<1> DEFINE served == Pids(SubSeq(waiters, 1, k))
<1>2. PICK at : OrderIn(waiters', waiters, at)
  BY <1>1, RestInOrder
<1>3. waiters' \in Seq(Waiters)
  BY <1>1, RestInOrder
<1>4. \A q \in Pids(waiters') : q \notin served /\ Behind(q, waiters) \cap served = {}
  BY <1>1, RestInOrder
<1>5. /\ EachOnceIn(waiters') /\ Pids(waiters') \subseteq Pids(waiters)
      /\ \A q \in Pids(waiters') : Ahead(q, waiters') \subseteq Ahead(q, waiters)
  BY <1>2, <1>3, OrderKept
<1>6. served \subseteq Pids(waiters)
  <2>1. /\ SubSeq(waiters, 1, k) \in Seq(Waiters) /\ Len(SubSeq(waiters, 1, k)) = k
        /\ \A i \in 1 .. k : SubSeq(waiters, 1, k)[i] = waiters[i]
    BY SubSeqProperties
  <2> DEFINE f == SubSeq(waiters, 1, k)
  <2> HIDE DEF f
  <2>2. Pids(f) \subseteq Pids(waiters)
    <3>1. /\ Pids(f) = {f[i].pid : i \in 1 .. k}
          /\ Pids(waiters) = {waiters[i].pid : i \in 1 .. Len(waiters)}
      BY <2>1, PidsAre DEF f
    <3> QED
      BY <2>1, <3>1 DEF f
  <2> QED
    BY <2>2 DEF f
<1> HIDE DEF served
<1>7. state' = [q \in Procs |-> IF q \in served THEN "ready" ELSE state[q]]
  BY <1>1 DEF served
<1>8. suspended' = suspended
  BY DEF Put
<1>9. QueueOK'
  BY <1>4, <1>5, <1>6, <1>7, <1>8
<1>10. ASSUME NEW q \in Pids(waiters'), NEW x \in Behind(q, waiters)
       PROVE  state'[x] # "ready"
  <2>1. x \in Pids(waiters) /\ x \notin served
    BY <1>4, <1>10 DEF Behind
  <2> QED
    BY <1>7, <2>1
<1> QED
  BY <1>5, <1>9, <1>10

\* What kill() and suspend() do to them.
LEMMA LeavingKeepsOrder ==
  ASSUME TypeOK, QueueOK, NEW p \in Procs, Kill(p) \/ Suspend(p)
  PROVE  /\ QueueOK'
         /\ \A q \in Pids(waiters') :
               /\ Ahead(q, waiters') \subseteq Ahead(q, waiters)
               /\ \A x \in Behind(q, waiters) : state'[x] # "ready"
<1> USE DEF TypeOK, QueueOK
<1>1. waiters' = WaitersWithout(p)
  BY DEF Kill, Suspend
<1>2. waiters' \in Seq(Waiters) /\ p \notin Pids(waiters')
  BY <1>1, QueueWithout, OthersInOrder
<1>3. PICK at : OrderIn(waiters', waiters, at)
  BY <1>1, OthersInOrder
<1>4. /\ EachOnceIn(waiters') /\ Pids(waiters') \subseteq Pids(waiters)
      /\ \A q \in Pids(waiters') : Ahead(q, waiters') \subseteq Ahead(q, waiters)
  BY <1>2, <1>3, OrderKept
<1>5. \/ state' = [state EXCEPT ![p] = "killed"] /\ suspended' = suspended \ {p}
      \/ /\ state' = state /\ suspended' = suspended \cup {p}
         /\ p \in Pids(waiters)
  BY DEF Kill, Suspend
<1>6. QueueOK'
  BY <1>2, <1>4, <1>5
<1>7. ASSUME NEW q \in Pids(waiters'), NEW x \in Behind(q, waiters)
      PROVE  state'[x] # "ready"
  <2>1. x \in Pids(waiters)
    BY <1>7 DEF Behind
  <2> QED
    BY <1>5, <2>1
<1> QED
  BY <1>4, <1>6, <1>7

\* Who is served when: nobody behind a process that stays parked.
Served == \A p \in Pids(waiters) \cap Pids(waiters') :
              /\ Ahead(p, waiters') \subseteq Ahead(p, waiters)
              /\ \A q \in Behind(p, waiters) : state'[q] # "ready"

LEMMA QueueKept ==
  ASSUME TypeOK, QueueOK, [Next]_vars
  PROVE  QueueOK' /\ Served
<1> USE DEF TypeOK
<1>1. ASSUME NEW p \in Procs, NEW n \in Keys, Put(p, n)
      PROVE  QueueOK' /\ Served
  BY <1>1, PutKeepsOrder DEF Served
<1>2. ASSUME NEW p \in Procs, NEW n \in Keys, GetParks(p, n)
      PROVE  QueueOK' /\ Served
  <2> DEFINE w == [pid |-> p, n |-> n]
  <2>1. /\ w \in Waiters /\ w.pid = p /\ waiters' = Append(waiters, w)
        /\ state[p] = "active" /\ state' = [state EXCEPT ![p] = "blocked"]
        /\ suspended' = suspended
    BY <1>2 DEF GetParks, Parked, Waiters
  <2> HIDE DEF w
  <2>2. p \notin Pids(waiters) \cup suspended
    BY <2>1 DEF QueueOK
  <2>3. /\ EachOnceIn(waiters') /\ Pids(waiters') = Pids(waiters) \cup {p}
        /\ \A q \in Pids(waiters) :
               Ahead(q, waiters') \subseteq Ahead(q, waiters)
    BY <2>1, <2>2, LastInOrder DEF QueueOK
  <2>4. QueueOK'
    BY <2>1, <2>2, <2>3 DEF QueueOK
  <2>5. \A q \in Pids(waiters) : state'[q] # "ready"
    BY <2>1 DEF QueueOK
  <2> QED
    BY <2>3, <2>4, <2>5 DEF Served, Behind
<1>3. ASSUME waiters' = waiters, suspended' \subseteq suspended,
             \A q \in Pids(waiters) \cup suspended' : state'[q] = state[q]
      PROVE  QueueOK' /\ Served
  BY <1>3 DEF QueueOK, Served, Behind
<1>4. ASSUME NEW p \in Procs, NEW n \in Keys, TakeKeys(p, n) \/ GetReturns(p, n)
      PROVE  QueueOK' /\ Served
  BY <1>3, <1>4 DEF TakeKeys, GetReturns
<1>5. ASSUME NEW p \in Procs, Dispatch(p) \/ Resume(p)
      PROVE  QueueOK' /\ Served
  <2>1. p \notin Pids(waiters) \cup suspended'
    BY <1>5 DEF Dispatch, Resume, QueueOK
  <2> QED
    BY <1>3, <1>5, <2>1 DEF Dispatch, Resume, QueueOK
<1>6. ASSUME NEW p \in Procs, Kill(p) \/ Suspend(p)
      PROVE  QueueOK' /\ Served
  BY <1>6, LeavingKeepsOrder DEF Served
<1>7. CASE UNCHANGED vars
  BY <1>3, <1>7 DEF vars
<1> QED
  BY <1>1, <1>2, <1>4, <1>5, <1>6, <1>7 DEF Next

LEMMA QueueInOrder == Spec => []QueueOK
<1>1. Init => QueueOK
  <2> SUFFICES ASSUME Init PROVE QueueOK
    OBVIOUS
  <2>1. waiters = <<>> /\ suspended = {} /\ DOMAIN waiters = {}
    BY DEF Init
  <2>2. Pids(waiters) = {}
    BY <2>1 DEF Pids, ToSet
  <2> QED
    BY <2>1, <2>2 DEF QueueOK, EachOnceIn
<1>2. TypeOK /\ QueueOK /\ [Next]_vars => QueueOK'
  BY QueueKept
<1> QED
  BY <1>1, <1>2, TypeInvariance, PTL DEF Spec

(***************************************************************************)
(* First come, first served, for any number of processes: a put wakes from *)
(* the front, a get parks at the end, and kill() and suspend() leave the   *)
(* order of the others (wake_semaphore_waiters stops at the first waiter   *)
(* that it cannot serve).  It rests on QueueOK: without it a process could *)
(* stand in the queue at two places.                                       *)
(***************************************************************************)
THEOREM FirstComeFirstServed == Spec => NoneOvertaken
<1>1. TypeOK /\ QueueOK /\ [Next]_vars => Served
  BY QueueKept
<1> QED
  BY <1>1, TypeInvariance, QueueInOrder, PTL DEF Spec, NoneOvertaken, Served

-----------------------------------------------------------------------------
(***************************************************************************)
(* The sum of a function over a finite set.  FoldFunction takes the        *)
(* elements in an order of its own choice: that the sum does not depend on *)
(* it is shown by induction on the number of elements.                     *)
(***************************************************************************)

\* Induction over a set of numbers, from the well-foundedness of <.
LEMMA SetInduction ==
  ASSUME NEW T, 0 \in T, \A k \in Nat : k \in T => k + 1 \in T
  PROVE  Nat \subseteq T
<1> DEFINE U == Nat \ T
<1>1. SUFFICES ASSUME U # {} PROVE FALSE
  OBVIOUS
<1>2. U \in SUBSET Nat
  OBVIOUS
<1> HIDE DEF U
<1>3. PICK x \in U : \A y \in U : <<y, x>> \notin OpToRel(<, Nat)
  BY <1>1, <1>2, NatLessThanWellFounded, WFMin
<1> USE DEF U
<1>4. x # 0 /\ x - 1 \in Nat
  OBVIOUS
<1>5. <<x - 1, x>> \in OpToRel(<, Nat)
  BY <1>4 DEF OpToRel
<1>6. x - 1 \notin U
  BY <1>3, <1>5
<1> QED
  BY <1>4, <1>6

LEMMA SubsetsAre ==
  ASSUME NEW S, IsFiniteSet(S), NEW s \in SUBSET S
  PROVE  /\ IsFiniteSet(s) /\ Cardinality(s) \in Nat
         /\ Cardinality(s) = 0 <=> s = {}
         /\ \A x \in s : Cardinality(s \ {x}) = Cardinality(s) - 1 /\ s \ {x} \in SUBSET S
<1>1. IsFiniteSet(s)
  BY FS_Subset
<1>2. Cardinality(s) \in Nat
  BY <1>1, FS_CardinalityType
<1>3. Cardinality(s) = 0 <=> s = {}
  BY <1>1, FS_EmptySet
<1>4. ASSUME NEW x \in s PROVE Cardinality(s \ {x}) = Cardinality(s) - 1
  BY <1>1, FS_RemoveElement
<1> QED
  BY <1>1, <1>2, <1>3, <1>4

\* What holds of a set when it holds of it without any one of its elements.
LEMMA SubsetInduction ==
  ASSUME NEW S, IsFiniteSet(S), NEW T,
         \A s \in SUBSET S : (\A x \in s : s \ {x} \in T) => s \in T
  PROVE  SUBSET S \subseteq T
<1> DEFINE U == {k \in Nat : \A s \in SUBSET S : Cardinality(s) <= k => s \in T}
<1>1. 0 \in U
  <2> SUFFICES ASSUME NEW s \in SUBSET S, Cardinality(s) <= 0 PROVE s \in T
    OBVIOUS
  <2>1. s = {}
    BY SubsetsAre
  <2> QED
    BY <2>1
<1>2. ASSUME NEW k \in Nat, k \in U PROVE k + 1 \in U
  <2> SUFFICES ASSUME NEW s \in SUBSET S, Cardinality(s) <= k + 1 PROVE s \in T
    OBVIOUS
  <2>1. ASSUME NEW x \in s PROVE s \ {x} \in T
    <3>1. Cardinality(s \ {x}) <= k /\ s \ {x} \in SUBSET S
      BY SubsetsAre
    <3> QED
      BY <1>2, <3>1
  <2> QED
    BY <2>1
<1>3. Nat \subseteq U
  <2> HIDE DEF U
  <2> QED
    BY <1>1, <1>2, SetInduction
<1> QED
  <2> SUFFICES ASSUME NEW s \in SUBSET S PROVE s \in T
    OBVIOUS
  <2>1. Cardinality(s) \in U
    BY <1>3, SubsetsAre
  <2> QED
    BY <2>1, SubsetsAre

\* The sum of f over s, when u gives those of the smaller sets.
AddOne(f, u, s) == IF s = {} THEN 0
                   ELSE LET x == CHOOSE y \in s : TRUE IN f[x] + u[s \ {x}]

LEMMA SumsExist ==
  ASSUME NEW S, IsFiniteSet(S), NEW f
  PROVE  \E u : u = [s \in SUBSET S |-> AddOne(f, u, s)]
<1> DEFINE Below(k) == {s \in SUBSET S : Cardinality(s) <= k}
           Sums(u, k) == [s \in Below(k) |-> AddOne(f, u, s)]
           T == {k \in Nat : \E u : u = Sums(u, k)}
<1>1. 0 \in T
  <2> DEFINE u == [s \in Below(0) |-> 0]
  <2>1. \A s \in Below(0) : s = {}
    BY SubsetsAre
  <2>2. u = Sums(u, 0)
    BY <2>1 DEF AddOne
  <2> QED
    BY <2>2
<1>2. ASSUME NEW k \in Nat, k \in T PROVE k + 1 \in T
  <2>1. PICK u : u = Sums(u, k)
    BY <1>2
  <2> DEFINE v == [s \in Below(k + 1) |-> AddOne(f, u, s)]
  <2>2. ASSUME NEW s \in Below(k + 1) PROVE v[s] = AddOne(f, v, s)
    <3> DEFINE x == CHOOSE y \in s : TRUE
    <3>1. CASE s = {}
      BY <3>1 DEF AddOne
    <3>2. CASE s # {}
      <4>1. x \in s
        BY <3>2
      <4>2. s \ {x} \in Below(k) /\ s \ {x} \in Below(k + 1)
        BY <4>1, SubsetsAre
      <4>3. u[s \ {x}] = AddOne(f, u, s \ {x})
        <5> HIDE DEF x, Below
        <5> QED
          BY <2>1, <4>2, Zenon
      <4>4. v[s \ {x}] = AddOne(f, u, s \ {x})
        <5> HIDE DEF x, Below
        <5> QED
          BY <4>2, Zenon
      <4>5. v[s] = f[x] + u[s \ {x}]
        BY <3>2 DEF AddOne
      <4>6. AddOne(f, v, s) = f[x] + v[s \ {x}]
        <5> HIDE DEF v
        <5> QED
          BY <3>2 DEF AddOne
      <4> HIDE DEF x, v
      <4> QED
        BY <4>3, <4>4, <4>5, <4>6
    <3> QED
      BY <3>1, <3>2
  <2>3. v = Sums(v, k + 1)
    <3>1. Sums(v, k + 1) = [s \in Below(k + 1) |-> v[s]]
      <4> HIDE DEF v, Below
      <4> QED
        BY <2>2, Zenon
    <3> HIDE DEF Below
    <3> QED
      BY <3>1
  <2> HIDE DEF v, Sums
  <2> QED
    BY <2>3
<1>3. Cardinality(S) \in T
  <2>1. Cardinality(S) \in Nat
    BY SubsetsAre
  <2> HIDE DEF T
  <2> QED
    BY <1>1, <1>2, <2>1, SetInduction
<1>4. PICK u : u = Sums(u, Cardinality(S))
  BY <1>3
<1>5. Below(Cardinality(S)) = SUBSET S
  <2> SUFFICES ASSUME NEW s \in SUBSET S PROVE Cardinality(s) <= Cardinality(S)
    OBVIOUS
  <2> QED
    BY FS_Subset
<1> HIDE DEF Below
<1> QED
  BY <1>4, <1>5, Zenon

SumsOf(f, S) == CHOOSE u : u = [s \in SUBSET S |-> AddOne(f, u, s)]

LEMMA SumsAre ==
  ASSUME NEW S, IsFiniteSet(S), NEW f
  PROVE  \A s \in SUBSET S : SumsOf(f, S)[s] = AddOne(f, SumsOf(f, S), s)
<1> DEFINE u == SumsOf(f, S)
<1>1. u = [s \in SUBSET S |-> AddOne(f, u, s)]
  <2>1. \E v : v = [s \in SUBSET S |-> AddOne(f, v, s)]
    <3> HIDE DEF u
    <3> QED
      BY SumsExist
  <2> QED
    BY <2>1, Zenon DEF SumsOf
<1> HIDE DEF u
<1>2. \A s \in SUBSET S : u[s] = AddOne(f, u, s)
  BY <1>1, Zenon
<1> QED
  BY <1>2 DEF u

Sum(f) == FoldFunction(+, 0, f)

LEMMA SumIs ==
  ASSUME NEW f
  PROVE  Sum(f) = SumsOf(f, DOMAIN f)[DOMAIN f]
  BY Zenon DEF Sum, FoldFunction, FoldFunctionOnSet, MapThenFoldSet, SumsOf, AddOne

\* The order does not matter: any element may be taken first.
LEMMA AnyFirst ==
  ASSUME NEW S, IsFiniteSet(S), NEW f \in [S -> Nat]
  PROVE  \A s \in SUBSET S :
            /\ SumsOf(f, S)[s] \in Nat
            /\ \A p \in s : SumsOf(f, S)[s] = f[p] + SumsOf(f, S)[s \ {p}]
<1> DEFINE u == SumsOf(f, S)
           T == {s \in SUBSET S : /\ u[s] \in Nat
                                  /\ \A p \in s : /\ u[s \ {p}] \in Nat
                                                  /\ u[s] = f[p] + u[s \ {p}]}
<1>1. \A s \in SUBSET S : u[s] = AddOne(f, u, s)
  BY SumsAre
<1> HIDE DEF u
<1>2. ASSUME NEW s \in SUBSET S, \A x \in s : s \ {x} \in T PROVE s \in T
  <2>1. u[s] = AddOne(f, u, s)
    BY <1>1
  <2>2. CASE s = {}
    BY <2>1, <2>2 DEF AddOne
  <2>3. CASE s # {}
    <3>1. PICK x \in s : u[s] = f[x] + u[s \ {x}]
      BY <2>1, <2>3 DEF AddOne
    <3>2. f[x] \in Nat /\ u[s \ {x}] \in Nat
      BY <1>2
    <3>3. ASSUME NEW p \in s, p # x PROVE u[s] = f[p] + u[s \ {p}]
      <4>1. u[s \ {x}] = f[p] + u[(s \ {x}) \ {p}]
        BY <1>2, <3>3
      <4>2. u[s \ {p}] = f[x] + u[(s \ {p}) \ {x}]
        BY <1>2, <3>3
      <4>3. (s \ {x}) \ {p} = (s \ {p}) \ {x}
        OBVIOUS
      <4>4. f[p] \in Nat /\ u[(s \ {x}) \ {p}] \in Nat
        BY <1>2, <3>3
      <4> DEFINE w == u[(s \ {x}) \ {p}]
      <4>5. w \in Nat /\ u[s \ {x}] = f[p] + w /\ u[s \ {p}] = f[x] + w
        BY <4>1, <4>2, <4>3, <4>4, Zenon
      <4>6. f[p] \in Nat /\ f[x] \in Nat
        BY <3>2, <4>4
      <4> HIDE DEF w
      <4> QED
        BY <3>1, <4>5, <4>6
    <3>4. \A p \in s : u[s \ {p}] \in Nat /\ u[s] = f[p] + u[s \ {p}]
      BY <1>2, <3>1, <3>3
    <3> QED
      BY <3>1, <3>2, <3>4
  <2> QED
    BY <2>2, <2>3
<1>3. SUBSET S \subseteq T
  <2> HIDE DEF T
  <2> QED
    BY <1>2, SubsetInduction
<1> QED
  BY <1>3 DEF u

LEMMA SameSums ==
  ASSUME NEW S, IsFiniteSet(S), NEW f \in [S -> Nat], NEW g \in [S -> Nat]
  PROVE  \A s \in SUBSET S :
            (\A q \in s : f[q] = g[q]) => SumsOf(f, S)[s] = SumsOf(g, S)[s]
<1> DEFINE u == SumsOf(f, S)
           v == SumsOf(g, S)
           T == {s \in SUBSET S : (\A q \in s : f[q] = g[q]) => u[s] = v[s]}
<1>1. \A s \in SUBSET S : u[s] = AddOne(f, u, s) /\ v[s] = AddOne(g, v, s)
  BY SumsAre
<1> HIDE DEF u, v
<1>2. ASSUME NEW s \in SUBSET S, \A x \in s : s \ {x} \in T PROVE s \in T
  <2>1. u[s] = AddOne(f, u, s) /\ v[s] = AddOne(g, v, s)
    BY <1>1
  <2>2. CASE s = {}
    BY <2>1, <2>2 DEF AddOne
  <2>3. CASE s # {}
    <3>1. PICK x \in s : u[s] = f[x] + u[s \ {x}] /\ v[s] = g[x] + v[s \ {x}]
      BY <2>1, <2>3 DEF AddOne
    <3> QED
      BY <1>2, <3>1
  <2> QED
    BY <2>2, <2>3
<1>3. SUBSET S \subseteq T
  <2> HIDE DEF T
  <2> QED
    BY <1>2, SubsetInduction
<1> QED
  BY <1>3 DEF u, v

LEMMA SumIsNat ==
  ASSUME NEW S, IsFiniteSet(S), NEW f \in [S -> Nat]
  PROVE  Sum(f) \in Nat
<1>1. Sum(f) = SumsOf(f, S)[S]
  BY SumIs
<1> QED
  BY <1>1, AnyFirst

\* One value raised raises the sum.
LEMMA SumRaised ==
  ASSUME NEW S, IsFiniteSet(S), NEW f \in [S -> Nat], NEW p \in S, NEW n \in Nat
  PROVE  Sum([f EXCEPT ![p] = f[p] + n]) = Sum(f) + n
<1> DEFINE g == [f EXCEPT ![p] = f[p] + n]
<1>1. g \in [S -> Nat] /\ g[p] = f[p] + n /\ \A q \in S \ {p} : g[q] = f[q]
  OBVIOUS
<1> HIDE DEF g
<1>2. Sum(f) = SumsOf(f, S)[S] /\ Sum(g) = SumsOf(g, S)[S]
  BY <1>1, SumIs
<1>3. SumsOf(f, S)[S] = f[p] + SumsOf(f, S)[S \ {p}] /\ SumsOf(f, S)[S \ {p}] \in Nat
  <2>1. S \in SUBSET S /\ S \ {p} \in SUBSET S
    OBVIOUS
  <2>2. \A s \in SUBSET S : /\ SumsOf(f, S)[s] \in Nat
                             /\ \A q \in s : SumsOf(f, S)[s] = f[q] + SumsOf(f, S)[s \ {q}]
    BY AnyFirst
  <2> QED
    BY <2>1, <2>2, Zenon
<1>4. SumsOf(g, S)[S] = g[p] + SumsOf(g, S)[S \ {p}]
  BY <1>1, AnyFirst
<1>5. SumsOf(f, S)[S \ {p}] = SumsOf(g, S)[S \ {p}]
  <2>1. S \ {p} \in SUBSET S /\ \A q \in S \ {p} : f[q] = g[q]
    BY <1>1
  <2> QED
    BY <1>1, <2>1, SameSums
<1>6. f[p] \in Nat
  OBVIOUS
<1>7. Sum(g) = Sum(f) + n
  BY <1>1, <1>2, <1>3, <1>4, <1>5, <1>6
<1> QED
  BY <1>7 DEF g

LEMMA SumOfNone ==
  ASSUME NEW S, IsFiniteSet(S)
  PROVE  Sum([p \in S |-> 0]) = 0
<1> DEFINE f == [p \in S |-> 0]
           u == SumsOf(f, S)
           T == {s \in SUBSET S : u[s] = 0}
<1>1. \A s \in SUBSET S : u[s] = AddOne(f, u, s)
  BY SumsAre
<1> HIDE DEF u
<1>2. ASSUME NEW s \in SUBSET S, \A x \in s : s \ {x} \in T PROVE s \in T
  <2>1. CASE s = {}
    BY <1>1, <2>1 DEF AddOne
  <2>2. CASE s # {}
    <3>1. PICK x \in s : u[s] = f[x] + u[s \ {x}]
      BY <1>1, <2>2 DEF AddOne
    <3>2. f[x] = 0 /\ u[s \ {x}] = 0
      BY <1>2
    <3> QED
      BY <3>1, <3>2
  <2> QED
    BY <2>1, <2>2
<1>3. SUBSET S \subseteq T
  <2> HIDE DEF T
  <2> QED
    BY <1>2, SubsetInduction
<1>4. Sum(f) = u[S]
  <2>1. DOMAIN f = S
    OBVIOUS
  <2> HIDE DEF f
  <2> QED
    BY <2>1, SumIs DEF u
<1>5. S \in T
  BY <1>3
<1> HIDE DEF f
<1> QED
  BY <1>4, <1>5 DEF f

-----------------------------------------------------------------------------
(* The keys.                                                                *)

\* lent after the first j waiters were served.
LentTo(j) == [q \in Procs |-> IF q \in {waiters[i].pid : i \in 1 .. j}
                              THEN lent[q] + waiters[Place(q, waiters)].n
                              ELSE lent[q]]

LEMMA LentToIs ==
  ASSUME TypeOK, QueueOK
  PROVE  /\ LentTo(0) = lent
         /\ \A j \in 0 .. Len(waiters) :
               LentTo(j) \in [Procs -> Nat]
         /\ \A j \in 0 .. Len(waiters) - 1 :
               LET w == waiters[j + 1]
               IN /\ w.pid \in Procs /\ w.n \in Nat
                  /\ LentTo(j + 1) = [LentTo(j) EXCEPT ![w.pid] = LentTo(j)[w.pid] + w.n]
<1>1. waiters \in Seq(Waiters) /\ EachOnceIn(waiters) /\ lent \in [Procs -> Nat]
  BY DEF TypeOK, QueueOK
<1>2. \A i \in 1 .. Len(waiters) :
         /\ waiters[i].pid \in Procs /\ waiters[i].n \in Nat
         /\ Place(waiters[i].pid, waiters) = i
  <2>1. ASSUME NEW i \in 1 .. Len(waiters)
        PROVE  waiters[i].pid \in Procs /\ waiters[i].n \in Nat
    <3>1. waiters[i] \in Waiters
      BY <1>1, ElementOfSeq
    <3> QED
      BY <3>1, MaxKeysAssumption DEF Waiters, Keys
  <2>2. \A i \in 1 .. Len(waiters) : Place(waiters[i].pid, waiters) = i
    BY <1>1, PlaceIs
  <2> QED
    BY <2>1, <2>2
<1>3. LentTo(0) = lent
  BY <1>1 DEF LentTo
<1>4. ASSUME NEW j \in 0 .. Len(waiters) PROVE LentTo(j) \in [Procs -> Nat]
  <2>1. \A i \in 1 .. j : i \in 1 .. Len(waiters)
    BY <1>1
  <2>2. ASSUME NEW q \in {waiters[i].pid : i \in 1 .. j}
        PROVE  waiters[Place(q, waiters)].n \in Nat
    <3>1. PICK i \in 1 .. j : q = waiters[i].pid
      OBVIOUS
    <3> QED
      BY <1>2, <2>1, <3>1
  <2>3. \A q \in Procs : lent[q] \in Nat
    BY <1>1
  <2> QED
    BY <2>2, <2>3 DEF LentTo
<1>5. ASSUME NEW j \in 0 .. Len(waiters) - 1
      PROVE  LET w == waiters[j + 1]
             IN /\ w.pid \in Procs /\ w.n \in Nat
                /\ LentTo(j + 1) = [LentTo(j) EXCEPT ![w.pid] = LentTo(j)[w.pid] + w.n]
  <2> DEFINE w == waiters[j + 1]
             First == {waiters[i].pid : i \in 1 .. j}
  <2>1. j + 1 \in 1 .. Len(waiters) /\ j \in 0 .. Len(waiters) /\ j + 1 \in 0 .. Len(waiters)
    BY <1>1
  <2>2. w.pid \in Procs /\ w.n \in Nat /\ Place(w.pid, waiters) = j + 1
    BY <1>2, <2>1
  <2>3. w.pid \notin First
    <3> SUFFICES ASSUME NEW i \in 1 .. j, waiters[i].pid = w.pid PROVE FALSE
      OBVIOUS
    <3>1. i \in 1 .. Len(waiters)
      BY <1>1, <2>1
    <3> QED
      BY <1>1, <2>1, <3>1 DEF EachOnceIn
  <2>4. {waiters[i].pid : i \in 1 .. j + 1} = First \cup {w.pid}
    <3>1. \A i : i \in 1 .. j + 1 <=> i \in 1 .. j \/ i = j + 1
      BY <2>1
    <3> QED
      BY <3>1
  <2>5. LentTo(j) = [q \in Procs |-> IF q \in First
                                     THEN lent[q] + waiters[Place(q, waiters)].n
                                     ELSE lent[q]]
    BY DEF LentTo
  <2>6. LentTo(j + 1) = [q \in Procs |-> IF q \in First \cup {w.pid}
                                     THEN lent[q] + waiters[Place(q, waiters)].n
                                     ELSE lent[q]]
    BY <2>4, Zenon DEF LentTo
  <2>7. waiters[Place(w.pid, waiters)].n = w.n
    BY <2>2
  <2> HIDE DEF w, First
  <2>8. LentTo(j)[w.pid] = lent[w.pid]
    BY <2>2, <2>3, <2>5
  <2>9. LentTo(j + 1) = [LentTo(j) EXCEPT ![w.pid] = lent[w.pid] + w.n]
    BY <2>2, <2>3, <2>5, <2>6, <2>7
  <2> QED
    BY <2>2, <2>8, <2>9 DEF w
<1> QED
  BY <1>3, <1>4, <1>5

\* The keys that a put brings are lent to those it serves, or stay.
LEMMA PutConserves ==
  ASSUME TypeOK, QueueOK, NEW p \in Procs, NEW n \in Keys, Put(p, n)
  PROVE  count' + Sum(lent') = count + n + Sum(lent)
<1>1. PICK k \in 0 .. Len(waiters) : \E left \in [0 .. k -> Keys] :
         /\ left[0] = count + n
         /\ \A i \in 1 .. k : left[i] = left[i - 1] - waiters[i].n
         /\ count' = left[k]
         /\ lent' = [q \in Procs |-> IF q \in Pids(SubSeq(waiters, 1, k))
                                     THEN lent[q] + waiters[Place(q, waiters)].n
                                     ELSE lent[q]]
  BY DEF Put, ServeWaiters, WakesInOrder
<1>2. PICK left \in [0 .. k -> Keys] :
         /\ left[0] = count + n
         /\ \A i \in 1 .. k : left[i] = left[i - 1] - waiters[i].n
         /\ count' = left[k]
         /\ lent' = [q \in Procs |-> IF q \in Pids(SubSeq(waiters, 1, k))
                                     THEN lent[q] + waiters[Place(q, waiters)].n
                                     ELSE lent[q]]
  BY <1>1
<1>3. waiters \in Seq(Waiters) /\ Len(waiters) \in Nat /\ k \in Nat
  BY DEF TypeOK
<1>4. lent' = LentTo(k)
  <2>1. Pids(SubSeq(waiters, 1, k)) = {waiters[i].pid : i \in 1 .. k}
    <3> DEFINE f == SubSeq(waiters, 1, k)
    <3>1. f \in Seq(Waiters) /\ Len(f) = k /\ \A i \in 1 .. k : f[i] = waiters[i]
      BY <1>3, SubSeqProperties
    <3> HIDE DEF f
    <3>2. Pids(f) = {f[i].pid : i \in 1 .. k}
      BY <3>1, PidsAre
    <3> QED
      BY <3>1, <3>2 DEF f
  <2> QED
    BY <1>2, <2>1, Zenon DEF LentTo
<1> DEFINE T == {j \in Nat : j <= k => left[j] + Sum(LentTo(j)) = left[0] + Sum(lent)}
<1>5. 0 \in T
  BY LentToIs
<1>6. ASSUME NEW j \in Nat, j \in T PROVE j + 1 \in T
  <2> SUFFICES ASSUME j + 1 <= k
               PROVE  left[j + 1] + Sum(LentTo(j + 1)) = left[0] + Sum(lent)
    OBVIOUS
  <2> DEFINE w == waiters[j + 1]
             f == LentTo(j)
  <2>1. j \in 0 .. Len(waiters) - 1 /\ j \in 0 .. Len(waiters)
    BY <1>3
  <2>2. /\ w.pid \in Procs /\ w.n \in Nat /\ f \in [Procs -> Nat]
        /\ LentTo(j + 1) = [f EXCEPT ![w.pid] = f[w.pid] + w.n]
    BY <2>1, LentToIs
  <2>3. left[j + 1] = left[j] - w.n
    <3>1. j + 1 \in 1 .. k /\ (j + 1) - 1 = j
      BY <1>3
    <3> QED
      BY <1>2, <3>1
  <2>4. left[j] + Sum(f) = left[0] + Sum(lent)
    BY <1>3, <1>6
  <2>5. left[j] \in Nat /\ left[0] \in Nat
    <3>1. j \in 0 .. k /\ 0 \in 0 .. k
      BY <1>3
    <3>2. \A i \in 0 .. k : left[i] \in Keys
      OBVIOUS
    <3>3. Keys \subseteq Nat
      BY MaxKeysAssumption DEF Keys
    <3> QED
      BY <3>1, <3>2, <3>3
  <2> HIDE DEF w, f
  <2>6. Sum(LentTo(j + 1)) = Sum(f) + w.n /\ Sum(f) \in Nat
    <3> DEFINE q == w.pid
               m == w.n
    <3>1. q \in Procs /\ m \in Nat
      BY <2>2
    <3> HIDE DEF q, m
    <3>2. Sum([f EXCEPT ![q] = f[q] + m]) = Sum(f) + m /\ Sum(f) \in Nat
      <4>1. f \in [Procs -> Nat]
        BY <2>2
      <4>2. Sum([f EXCEPT ![q] = f[q] + m]) = Sum(f) + m
        BY <3>1, <4>1, ProcsAssumption, SumRaised
      <4>3. Sum(f) \in Nat
        BY <4>1, ProcsAssumption, SumIsNat
      <4> QED
        BY <4>2, <4>3
    <3> QED
      BY <2>2, <3>2 DEF q, m
  <2>7. Sum(lent) \in Nat
    BY ProcsAssumption, SumIsNat DEF TypeOK
  <2> QED
    BY <2>2, <2>3, <2>4, <2>5, <2>6, <2>7
<1>7. k \in T
  <2>1. Nat \subseteq T
    <3> HIDE DEF T
    <3> QED
      BY <1>5, <1>6, SetInduction
  <2> QED
    BY <1>3, <2>1
<1>8. left[k] + Sum(LentTo(k)) = left[0] + Sum(lent)
  BY <1>3, <1>7
<1> QED
  BY <1>2, <1>4, <1>8

(***************************************************************************)
(* No keys appear or vanish, for any finite set of processes and any       *)
(* number of keys: what the semaphore was given is in it or was lent       *)
(* (wake_semaphore_waiters lends before it wakes, and nothing takes keys   *)
(* back from a process that is killed).  It rests on QueueOK: a process    *)
(* queued twice would be lent its keys once for two decrements.            *)
(***************************************************************************)
THEOREM NoKeyIsLost == Spec => []KeysConserved
<1> DEFINE Even == given = count + Sum(lent)
<1>1. Init => Even
  <2> SUFFICES ASSUME Init PROVE Even
    OBVIOUS
  <2>1. Sum(lent) = 0 /\ given = count /\ count \in Nat
    BY ProcsAssumption, SumOfNone, MaxKeysAssumption DEF Init, Keys
  <2> QED
    BY <2>1
<1>2. TypeOK /\ QueueOK /\ Even /\ [Next]_vars => Even'
  <2> SUFFICES ASSUME TypeOK, QueueOK, Even, [Next]_vars PROVE Even'
    OBVIOUS
  <2>1. /\ count \in Nat /\ given \in Nat /\ lent \in [Procs -> Nat]
        /\ Sum(lent) \in Nat
    BY ProcsAssumption, MaxKeysAssumption, SumIsNat DEF TypeOK, Keys
  <2>2. \A n \in Keys : n \in Nat
    BY MaxKeysAssumption DEF Keys
  <2>3. ASSUME NEW p \in Procs, NEW n \in Keys, Put(p, n) PROVE Even'
    <3>1. count' + Sum(lent') = count + n + Sum(lent) /\ given' = given + n
      BY <2>3, PutConserves DEF Put
    <3> HIDE DEF Sum
    <3> QED
      BY <2>1, <2>2, <3>1
  <2>4. ASSUME NEW p \in Procs, NEW n \in Keys, TakeKeys(p, n) PROVE Even'
    <3>1. /\ count' = count - n /\ given' = given
          /\ lent' = [lent EXCEPT ![p] = lent[p] + n]
      BY <2>4 DEF TakeKeys
    <3>2. Sum(lent') = Sum(lent) + n
      BY <2>1, <2>2, <3>1, ProcsAssumption, SumRaised
    <3> HIDE DEF Sum
    <3> QED
      BY <2>1, <2>2, <3>1, <3>2
  <2>5. ASSUME UNCHANGED <<count, given, lent>> PROVE Even'
    BY <2>5
  <2>6. ASSUME NEW p \in Procs, NEW n \in Keys, GetParks(p, n) \/ GetReturns(p, n)
        PROVE  Even'
    BY <2>5, <2>6 DEF GetParks, GetReturns, history
  <2>7. ASSUME NEW p \in Procs, Dispatch(p) \/ Kill(p) \/ Suspend(p) \/ Resume(p)
        PROVE  Even'
    BY <2>5, <2>7 DEF Dispatch, Kill, Suspend, Resume, history
  <2>8. CASE UNCHANGED vars
    BY <2>5, <2>8 DEF vars, history
  <2> QED
    BY <2>3, <2>4, <2>6, <2>7, <2>8 DEF Next
<1>3. TypeOK /\ Even => KeysConserved
  BY DEF KeysConserved, Sum
<1> QED
  BY <1>1, <1>2, <1>3, TypeInvariance, QueueInOrder, PTL DEF Spec
=============================================================================
