--------------------------- MODULE StorageProofs ---------------------------
(***************************************************************************)
(* Proofs about where values are kept: ClassHeap.tla (the objects of       *)
(* classes), for any number of objects and messages and any designs, and   *)
(* NonBlocking.tla (what is pending for signals), for any signals, bits,   *)
(* values and times.                                                       *)
(***************************************************************************)
EXTENDS ClassHeap, NonBlocking, FiniteSetTheorems, SequenceTheorems,
        WellFoundedInduction, TLAPS

(* The class heap.                                                         *)

\* Every object is among those that the next collection looks at.
Listed == heap \subseteq survivors \cup (scanFrom .. slots)

\* Who is held, and who is held by an object, is an object, even where nothing
\* reaches the holder.
HeldAreObjects == /\ roots \subseteq heap /\ frame \subseteq heap /\ stack \subseteq heap
                  /\ \A h \in heap : FieldOf(h) \subseteq heap
                  /\ \A m \in messages : m.box \in heap /\ m.holds \subseteq heap

\* The patterns are those of the messages there are, which have numbers of their own.
PatternsOK == /\ captured \subseteq {m.id : m \in messages}
              /\ \A m \in messages : m.id <= lastId
              /\ \A m, n \in messages : m.id = n.id => m = n

\* Native frames are there during an activation, a stack while a task waits.
FramesOK == (~running => frame = {}) /\ (~task => stack = {})

IInv == TypeOK /\ Listed /\ HeldAreObjects /\ MessagesWhole /\ PatternsOK /\ FramesOK

-----------------------------------------------------------------------------
(* What is marked, and what is reachable.                                  *)

LEMMA BringsAll ==
  ASSUME MessagesWhole, NEW m \in messages
  PROVE  Brings(m) = m.holds
BY DEF MessagesWhole, Brings

LEMMA EdgesAreObjects ==
  ASSUME IInv, NEW h \in heap
  PROVE  Edges(h) \subseteq heap
<1>1. \A m \in QueuedIn(h) : Brings(m) \subseteq heap
  BY BringsAll DEF IInv, HeldAreObjects, QueuedIn
<1> QED
  BY <1>1 DEF IInv, HeldAreObjects, Edges

LEMMA WaitingAreObjects ==
  ASSUME IInv
  PROVE  Waiting \subseteq heap
<1>1. \A m \in Parked : m.box \in heap /\ Brings(m) \subseteq heap
  BY BringsAll DEF IInv, HeldAreObjects, Parked
<1> QED
  BY <1>1 DEF Waiting

LEMMA HeapIsHandles ==
  ASSUME IInv
  PROVE  heap \subseteq Handles
BY HeapAssumption DEF IInv, TypeOK, Handles

LEMMA ReachableAreObjects ==
  ASSUME IInv
  PROVE  Reachable \subseteq heap
<1> DEFINE S == roots \cup frame \cup stack \cup Waiting
<1>1. S \subseteq heap
  BY WaitingAreObjects DEF IInv, HeldAreObjects
<1>2. \A o \in heap : Edges(o) \cap Handles \subseteq heap
  BY EdgesAreObjects
<1>3. heap \in SUBSET Handles
  BY HeapIsHandles
<1> HIDE DEF S
<1>4. Reach(S, Edges, Handles) \subseteq heap
  BY <1>1, <1>2, <1>3 DEF Reach
<1> QED
  BY <1>4 DEF S, Reachable

\* The mark is closed: it holds what the roots hold and what its members hold.
LEMMA MarkedIsClosed ==
  ASSUME IInv
  PROVE  /\ Marked \subseteq heap
         /\ roots \cup Waiting \subseteq Marked
         /\ \A o \in Marked : Edges(o) \subseteq Marked
<1> DEFINE S == roots \cup Waiting
<1>1. S \subseteq heap
  BY WaitingAreObjects DEF IInv, HeldAreObjects
<1>2. heap \subseteq Scanned
  BY DEF IInv, Listed, Scanned
<1> HIDE DEF S
<1>3. /\ Reach(S, EdgesTraced, heap) \subseteq heap
      /\ S \subseteq Reach(S, EdgesTraced, heap)
  BY <1>1 DEF Reach
<1>4. ASSUME NEW o \in Reach(S, EdgesTraced, heap)
      PROVE  EdgesTraced(o) \cap heap \subseteq Reach(S, EdgesTraced, heap)
  BY <1>4 DEF Reach
<1>5. \A o \in heap : EdgesTraced(o) = Edges(o)
  BY <1>2 DEF EdgesTraced
<1> QED
  BY <1>3, <1>4, <1>5, EdgesAreObjects DEF Marked, S

\* And it holds nothing else.
LEMMA MarkedIsReachable ==
  ASSUME IInv
  PROVE  Marked \subseteq Reachable
<1> DEFINE S == roots \cup Waiting
           R == roots \cup frame \cup stack \cup Waiting
<1>1. S \subseteq R
  OBVIOUS
<1>2. \A o \in heap : EdgesTraced(o) \subseteq Edges(o)
  BY DEF EdgesTraced
<1>3. heap \subseteq Handles
  BY HeapIsHandles
<1> HIDE DEF S, R
<1>4. SUFFICES ASSUME NEW h \in Reach(S, EdgesTraced, heap)
               PROVE  h \in Reach(R, Edges, Handles)
  BY DEF Marked, Reachable, S, R
<1>5. h \in Handles
  BY <1>3 DEF Reach
<1>6. ASSUME NEW T \in SUBSET Handles,
             R \cap Handles \subseteq T,
             \A o \in T : Edges(o) \cap Handles \subseteq T
      PROVE  h \in T
  <2>1. T \cap heap \in SUBSET heap
    OBVIOUS
  <2>2. S \cap heap \subseteq T \cap heap
    BY <1>1, <1>3, <1>6
  <2>3. \A o \in T \cap heap : EdgesTraced(o) \cap heap \subseteq T \cap heap
    BY <1>2, <1>3, <1>6
  <2> QED
    BY <2>1, <2>2, <2>3 DEF Reach
<1> QED
  BY <1>5, <1>6 DEF Reach
-----------------------------------------------------------------------------
(* The program keeps it.                                                   *)

\* A step that only changes what is held.
LEMMA HoldingKeeps ==
  ASSUME IInv, UNCHANGED <<uses, objects, mail, gc>>,
         roots' \subseteq heap, frame' \subseteq heap, stack' \subseteq heap,
         running' \in BOOLEAN, task' \in BOOLEAN, FramesOK'
  PROVE  IInv'
<1> USE DEF IInv, objects, mail, gc
<1>1. TypeOK'
  BY HeapIsHandles DEF TypeOK
<1>2. Listed' /\ MessagesWhole' /\ PatternsOK'
  BY DEF Listed, MessagesWhole, PatternsOK
<1>3. HeldAreObjects'
  BY DEF HeldAreObjects, FieldOf
<1> QED
  BY <1>1, <1>2, <1>3

LEMMA HandIsObjects ==
  ASSUME IInv
  PROVE  Hand \subseteq heap
BY DEF IInv, HeldAreObjects, Hand

LEMMA NewKeeps ==
  ASSUME IInv, NEW mailbox \in BOOLEAN, New(mailbox), UNCHANGED uses
  PROVE  IInv'
<1> USE DEF IInv, mail, gc
<1>1. /\ running /\ slots < MaxHandle
      /\ slots' = slots + 1 /\ heap' = heap \cup {slots + 1}
      /\ boxes' \subseteq boxes \cup {slots + 1}
      /\ frame' = frame \cup {slots + 1}
      /\ field' = [field EXCEPT ![slots + 1] = Null]
      /\ UNCHANGED <<uses, roots, running, task, stack, mail, gc>>
  BY DEF New
<1>2. slots + 1 \in Handles
  BY <1>1, HeapAssumption DEF TypeOK, Handles
<1>3. TypeOK'
  <2>1. /\ slots' \in 0 .. MaxHandle /\ heap' \in SUBSET (1 .. slots')
        /\ gcLen' \in 0 .. slots' + 1 /\ scanFrom' \in 1 .. slots' + 1
    BY <1>1, HeapAssumption DEF TypeOK
  <2> QED
    BY <1>1, <1>2, <2>1 DEF TypeOK
<1>4. Listed'
  BY <1>1, HeapAssumption DEF TypeOK, Listed
<1>5. \A h \in heap' : FieldOf(h)' \subseteq heap'
  <2>1. \A h \in heap' : FieldOf(h)' = {} \/ (h \in heap /\ FieldOf(h)' = FieldOf(h))
    BY <1>1, <1>2, HeapIsHandles DEF TypeOK, FieldOf
  <2> QED
    BY <1>1, <2>1 DEF HeldAreObjects
<1>6. HeldAreObjects'
  BY <1>1, <1>5 DEF HeldAreObjects
<1>7. MessagesWhole' /\ PatternsOK' /\ FramesOK'
  BY <1>1 DEF MessagesWhole, PatternsOK, FramesOK
<1> QED
  BY <1>3, <1>4, <1>6, <1>7

LEMMA SetFieldKeeps ==
  ASSUME IInv, NEW o \in Handles, NEW h \in Handles \cup {Null}, SetField(o, h),
         UNCHANGED uses
  PROVE  IInv'
<1> USE DEF IInv, mail, gc
<1>1. /\ h \in heap \cup {Null}
      /\ field' = [field EXCEPT ![o] = h]
      /\ UNCHANGED <<uses, slots, heap, boxes, roots, running, frame, task, stack,
                     mail, gc>>
  BY HandIsObjects DEF SetField
<1>2. TypeOK' /\ Listed' /\ MessagesWhole' /\ PatternsOK' /\ FramesOK'
  BY <1>1 DEF TypeOK, Listed, MessagesWhole, PatternsOK, FramesOK
<1>3. \A x \in heap : FieldOf(x)' \subseteq heap
  <2>1. \A x \in heap : FieldOf(x)' = FieldOf(x) \/ FieldOf(x)' = {h} \ {Null}
    BY <1>1, HeapIsHandles DEF TypeOK, FieldOf
  <2> QED
    BY <1>1, <2>1 DEF HeldAreObjects
<1>4. HeldAreObjects'
  BY <1>1, <1>3 DEF HeldAreObjects
<1> QED
  BY <1>2, <1>4

LEMMA PutKeeps ==
  ASSUME IInv, NEW b \in Handles, NEW S \in SUBSET Handles, NEW pattern \in BOOLEAN,
         NEW kept, Put(b, S, pattern, kept), UNCHANGED uses
  PROVE  IInv'
<1> USE DEF IInv, objects, gc
<1> DEFINE full == Cardinality(QueuedIn(b)) >= Bound
           m == [id |-> lastId + 1, box |-> b, parked |-> full,
                 pattern |-> pattern, holds |-> S]
<1>1. /\ running /\ lastId < MaxMessage /\ lastId' = lastId + 1
      /\ b \in heap /\ S \subseteq heap
      /\ messages' = messages \cup {m}
      /\ captured' = IF pattern THEN captured \cup {lastId + 1} ELSE captured
      /\ UNCHANGED <<uses, objects, task, stack, gc>>
  BY HandIsObjects DEF Put
<1>2. \/ Leave(kept)
      \/ UNCHANGED <<running, frame, roots>>
  BY DEF Put
<1>3. /\ roots' \subseteq heap /\ frame' \subseteq heap /\ running' \in BOOLEAN
      /\ ~running' => frame' = {}
  BY <1>1, <1>2 DEF Leave, HeldAreObjects, TypeOK
<1>4. m \in Messages /\ lastId + 1 \in MessageIds
  BY <1>1, HeapAssumption DEF Messages, MessageIds, TypeOK
<1>5. m.id = lastId + 1 /\ m.box = b /\ m.holds = S /\ m.pattern = pattern
  OBVIOUS
<1> HIDE DEF m, full
<1>6. TypeOK'
  BY <1>1, <1>3, <1>4, HeapIsHandles, HeapAssumption DEF TypeOK, MessageIds
<1>7. Listed' /\ FramesOK'
  BY <1>1, <1>3 DEF Listed, FramesOK
<1>8. HeldAreObjects'
  BY <1>1, <1>3, <1>5 DEF HeldAreObjects, FieldOf
<1>9. MessagesWhole'
  BY <1>1, <1>5 DEF MessagesWhole
<1>10. PatternsOK'
  <2>1. \A x \in messages : x.id <= lastId /\ x.id \in Nat /\ lastId \in Nat
    BY DEF PatternsOK, TypeOK, Messages, MessageIds
  <2>2. captured' \subseteq {x.id : x \in messages'}
    <3>1. \A c \in captured' : c \in captured \/ c = m.id
      BY <1>1, <1>5
    <3> QED
      BY <1>1, <3>1 DEF PatternsOK
  <2>3. \A x \in messages' : x.id <= lastId'
    BY <1>1, <1>5, <2>1
  <2>4. \A x, y \in messages' : x.id = y.id => x = y
    <3>1. \A x \in messages : x.id # m.id
      BY <1>5, <2>1
    <3> QED
      BY <1>1, <3>1 DEF PatternsOK
  <2> QED
    BY <2>2, <2>3, <2>4 DEF PatternsOK
<1> QED
  BY <1>6, <1>7, <1>8, <1>9, <1>10
LEMMA GetKeeps ==
  ASSUME IInv, NEW b \in Handles, Get(b), UNCHANGED uses
  PROVE  IInv'
<1> USE DEF IInv, objects, gc
<1> DEFINE P == First({x \in Parked : x.box = b})
<1>1. PICK m \in First(QueuedIn(b)) :
         /\ frame' = frame \cup Brings(m)
         /\ captured' = captured \ {m.id}
         /\ messages' = (messages \ ({m} \cup P)) \cup Admitted(b)
  BY DEF Get
<1>2. running /\ UNCHANGED <<uses, objects, roots, running, task, stack, lastId, gc>>
  BY DEF Get
<1>3. /\ m \in messages /\ m.box = b /\ ~m.parked
      /\ P \subseteq messages /\ \A x \in P : x.parked
  BY DEF First, QueuedIn, Parked
<1>4. Admitted(b) = {[x EXCEPT !.parked = FALSE] : x \in P}
  BY DEF Admitted
<1>5. \A x \in P : LET y == [x EXCEPT !.parked = FALSE]
                   IN  /\ y \in Messages /\ y.id = x.id /\ y.box = x.box
                       /\ y.holds = x.holds /\ y.pattern = x.pattern
  BY <1>3 DEF TypeOK, Messages
<1> HIDE DEF P
\* Every message left is one there was, but for the parking.
<1>6. \A y \in messages' : \E x \in messages \ {m} :
         /\ y.id = x.id /\ y.box = x.box
         /\ y.holds = x.holds /\ y.pattern = x.pattern
         /\ \/ y = x /\ x \notin P
            \/ y = [x EXCEPT !.parked = FALSE] /\ x \in P
  <2> SUFFICES ASSUME NEW y \in messages'
               PROVE  \E x \in messages \ {m} :
                         /\ y.id = x.id /\ y.box = x.box
                         /\ y.holds = x.holds /\ y.pattern = x.pattern
                         /\ \/ y = x /\ x \notin P
                            \/ y = [x EXCEPT !.parked = FALSE] /\ x \in P
    OBVIOUS
  <2>1. CASE y \in Admitted(b)
    <3>1. PICK x \in P : y = [x EXCEPT !.parked = FALSE]
      BY <1>4, <2>1
    <3>2. x \in messages \ {m}
      BY <1>3
    <3>3. y.id = x.id /\ y.box = x.box /\ y.holds = x.holds /\ y.pattern = x.pattern
      BY <1>5, <3>1
    <3> QED
      BY <3>1, <3>2, <3>3
  <2>2. CASE y \in messages \ ({m} \cup P)
    BY <2>2
  <2> QED
    BY <1>1, <2>1, <2>2
<1>7. \A x \in messages \ {m} : \E y \in messages' : y.id = x.id
  BY <1>1, <1>4, <1>5
<1>8. frame' \subseteq heap
  BY <1>1, <1>3, BringsAll DEF HeldAreObjects
<1>9. messages' \subseteq Messages
  BY <1>1, <1>4, <1>5 DEF TypeOK
<1>10. TypeOK'
  BY <1>1, <1>2, <1>8, <1>9, HeapIsHandles DEF TypeOK
<1>11. Listed' /\ FramesOK'
  BY <1>2 DEF Listed, FramesOK
<1>12. HeldAreObjects'
  BY <1>2, <1>6, <1>8 DEF HeldAreObjects, FieldOf
<1>13. MessagesWhole'
  <2>1. \A x \in messages \ {m} : x.id # m.id
    BY <1>3 DEF PatternsOK
  <2> QED
    BY <1>1, <1>6, <2>1 DEF MessagesWhole
<1>14. PatternsOK'
  <2>1. captured' \subseteq {x.id : x \in messages'}
    BY <1>1, <1>7 DEF PatternsOK
  <2>2. \A y \in messages' : y.id <= lastId'
    BY <1>2, <1>6 DEF PatternsOK
  <2>3. ASSUME NEW y \in messages', NEW z \in messages', y.id = z.id PROVE y = z
    <3>1. PICK v \in messages : /\ y.id = v.id
                               /\ y = IF v \in P THEN [v EXCEPT !.parked = FALSE] ELSE v
      BY <1>6
    <3>2. PICK w \in messages : /\ z.id = w.id
                               /\ z = IF w \in P THEN [w EXCEPT !.parked = FALSE] ELSE w
      BY <1>6
    <3>3. v = w
      BY <2>3, <3>1, <3>2 DEF PatternsOK
    <3> QED
      BY <3>1, <3>2, <3>3
  <2> QED
    BY <2>1, <2>2, <2>3 DEF PatternsOK
<1> QED
  BY <1>10, <1>11, <1>12, <1>13, <1>14

-----------------------------------------------------------------------------
(* The collector keeps it.                                                 *)

LEMMA CollectKeeps ==
  ASSUME IInv, Collect, UNCHANGED uses
  PROVE  IInv'
<1> USE DEF IInv
<1>1. /\ frame = {} /\ stack = {}
      /\ gcLen' = slots + 1
      /\ UNCHANGED <<uses, slots, boxes, roots, running, frame, task, stack, lastId>>
  BY DEF Collect, SafePoint, FramesOK
<1>2. CASE UNCHANGED <<heap, field, messages, captured, scanFrom, survivors, gcLive>>
  <2>1. TypeOK'
    BY <1>1, <1>2, HeapAssumption DEF TypeOK
  <2>2. Listed' /\ MessagesWhole' /\ PatternsOK' /\ FramesOK'
    BY <1>1, <1>2 DEF Listed, MessagesWhole, PatternsOK, FramesOK
  <2>3. HeldAreObjects'
    BY <1>1, <1>2 DEF HeldAreObjects, FieldOf
  <2> QED
    BY <2>1, <2>2, <2>3
<1>3. ASSUME Release(Scanned \ Marked),
             survivors' = Scanned \cap Marked,
             gcLive' = Cardinality(survivors'),
             scanFrom' = slots + 1
      PROVE  IInv'
  <2>1. /\ Scanned = heap /\ Marked \subseteq heap
        /\ roots \cup Waiting \subseteq Marked
        /\ \A o \in Marked : Edges(o) \subseteq Marked
    BY MarkedIsClosed DEF Listed, Scanned
  <2> DEFINE dead == heap \ Marked
  <2>2. /\ heap' = Marked /\ survivors' = Marked
        /\ field' = [h \in Handles |-> IF h \in dead THEN Null ELSE field[h]]
        /\ messages' = {m \in messages : m.parked \/ m.box \notin dead}
        /\ captured' = IF dead = {} THEN captured ELSE CapturedIn(messages')
    BY <1>3, <2>1 DEF Release
  <2>3. \A m \in messages' : m \in messages /\ m.box \in Marked /\ m.holds \subseteq Marked
    <3> SUFFICES ASSUME NEW m \in messages' PROVE m \in messages /\ m.box \in Marked
                                                /\ m.holds \subseteq Marked
      OBVIOUS
    <3>1. m \in messages /\ Brings(m) = m.holds /\ m.box \in heap
      BY <2>2, BringsAll DEF HeldAreObjects
    <3>2. CASE m.parked
      <4>1. m.box \in Waiting /\ Brings(m) \subseteq Waiting
        BY <3>1, <3>2 DEF Waiting, Parked
      <4> QED
        BY <2>1, <3>1, <4>1
    <3>3. CASE ~m.parked
      <4>1. m.box \in Marked
        BY <2>2, <3>1, <3>3
      <4>2. Brings(m) \subseteq Edges(m.box)
        BY <3>1, <3>3 DEF Edges, QueuedIn
      <4> QED
        BY <2>1, <3>1, <4>1, <4>2
    <3> QED
      BY <3>2, <3>3
  <2>4. TypeOK'
    <3>1. gcLive' \in 0 .. MaxHandle
      <4>1. IsFiniteSet(Handles) /\ Cardinality(Handles) = MaxHandle
        BY FS_Interval, HeapAssumption DEF Handles
      <4>2. Marked \subseteq Handles
        BY <2>1, HeapIsHandles
      <4>3. /\ IsFiniteSet(Marked) /\ Cardinality(Marked) <= Cardinality(Handles)
            /\ Cardinality(Marked) \in Nat
        BY <4>1, <4>2, FS_Subset, FS_CardinalityType
      <4>4. gcLive' = Cardinality(Marked)
        BY <1>3, <2>2
      <4> QED
        BY <4>1, <4>3, <4>4, HeapAssumption
    <3>2. field' \in [Handles -> Handles \cup {Null}]
      BY <2>2 DEF TypeOK
    <3>3. captured' \subseteq captured
      BY <2>2 DEF CapturedIn
    <3>4. survivors' \subseteq Handles
      BY <2>1, <2>2, HeapIsHandles
    <3> QED
      BY <1>1, <1>3, <2>1, <2>2, <3>1, <3>2, <3>3, <3>4, HeapAssumption DEF TypeOK
  <2>5. Listed'
    BY <2>2 DEF Listed
  <2>6. HeldAreObjects'
    <3>1. ASSUME NEW h \in Marked PROVE FieldOf(h)' \subseteq Marked
      <4>1. FieldOf(h)' = FieldOf(h)
        BY <2>1, <2>2, <3>1, HeapIsHandles DEF FieldOf
      <4> QED
        BY <2>1, <4>1 DEF Edges
    <3> QED
      BY <1>1, <2>1, <2>2, <2>3, <3>1 DEF HeldAreObjects
  <2>7. MessagesWhole'
    BY <2>2 DEF MessagesWhole, CapturedIn
  <2>8. PatternsOK'
    <3>1. captured' \subseteq {m.id : m \in messages'}
      <4>1. CASE dead = {}
        BY <2>2, <4>1 DEF PatternsOK
      <4>2. CASE dead # {}
        BY <2>2, <4>2 DEF CapturedIn
      <4> QED
        BY <4>1, <4>2
    <3> QED
      BY <1>1, <2>2, <3>1 DEF PatternsOK
  <2> QED
    BY <1>1, <2>4, <2>5, <2>6, <2>7, <2>8 DEF FramesOK
<1> QED
  BY <1>2, <1>3 DEF Collect
-----------------------------------------------------------------------------
LEMMA HeapInOrder == Spec => []IInv
<1>1. Init => IInv
  <2> SUFFICES ASSUME Init PROVE IInv
    OBVIOUS
  <2>1. TypeOK
    <3>1. field \in [Handles -> Handles \cup {Null}]
      BY DEF Init
    <3>2. /\ 0 \in 0 .. MaxHandle /\ 0 \in 0 .. MaxMessage
          /\ 0 \in 0 .. 0 + 1 /\ 1 \in 1 .. 0 + 1
      BY HeapAssumption
    <3> QED
      BY <3>1, <3>2 DEF Init, TypeOK
  <2>2. Listed /\ HeldAreObjects /\ MessagesWhole /\ PatternsOK /\ FramesOK
    BY DEF Init, Listed, HeldAreObjects, MessagesWhole, PatternsOK, FramesOK
  <2> QED
    BY <2>1, <2>2 DEF IInv
<1>2. IInv /\ [Next]_vars => IInv'
  <2> SUFFICES ASSUME IInv, [Next]_vars PROVE IInv'
    OBVIOUS
  <2>1. /\ roots \subseteq heap /\ frame \subseteq heap /\ stack \subseteq heap
        /\ Hand \subseteq heap /\ FramesOK /\ running \in BOOLEAN /\ task \in BOOLEAN
        /\ \A h \in heap : FieldOf(h) \subseteq heap
    BY HandIsObjects DEF IInv, HeldAreObjects, TypeOK
  <2>2. ASSUME UNCHANGED uses,
               Activate \/ \E kept \in SUBSET Handles : End(kept)
        PROVE  IInv'
    BY <2>1, <2>2, HoldingKeeps DEF Activate, End, Leave, FramesOK
  <2>3. ASSUME UNCHANGED uses,
               TaskGoesOn \/ \E kept \in SUBSET Handles : TaskWaits(kept)
        PROVE  IInv'
    BY <2>1, <2>3, HoldingKeeps DEF TaskGoesOn, TaskWaits, Leave, FramesOK
  <2>4. ASSUME UNCHANGED uses, NEW h \in Handles, Read(h) \/ Forget(h) PROVE IInv'
    <3>1. CASE Read(h)
      <4>1. h \in heap
        BY <2>1, <3>1 DEF Read
      <4> QED
        BY <2>1, <2>4, <3>1, <4>1, HoldingKeeps DEF Read, FramesOK
    <3>2. CASE Forget(h)
      BY <2>1, <2>4, <3>2, HoldingKeeps DEF Forget, FramesOK
    <3> QED
      BY <2>4, <3>1, <3>2
  <2>5. ASSUME UNCHANGED uses, NEW b \in Handles, Peek(b) PROVE IInv'
    <3>1. frame' \subseteq heap
      <4>1. \A m \in QueuedIn(b) : Brings(m) \subseteq heap
        BY BringsAll DEF IInv, HeldAreObjects, QueuedIn
      <4> QED
        BY <2>1, <2>5, <4>1 DEF Peek, First
    <3> QED
      BY <2>1, <2>5, <3>1, HoldingKeeps DEF Peek, FramesOK
  <2>6. CASE Next
    BY <2>2, <2>3, <2>4, <2>5, <2>6, NewKeeps, SetFieldKeeps, PutKeeps, GetKeeps,
       CollectKeeps DEF Next, Program
  <2>7. CASE UNCHANGED vars
    <3>1. UNCHANGED <<uses, objects, mail, gc, roots, frame, stack, running, task>>
      BY <2>7 DEF vars
    <3> QED
      BY <2>1, <3>1, HoldingKeeps DEF FramesOK
  <2> QED
    BY <2>6, <2>7
<1> QED
  BY <1>1, <1>2, PTL DEF Spec

(***************************************************************************)
(* The collector takes nothing that the program can reach, although it     *)
(* looks at survivors and newcomers only, native frames and stacks are     *)
(* hidden from it, and a trace may fail (maybe_collect_class_heap).        *)
(***************************************************************************)
THEOREM ReachableIsKept == Spec => []NothingReachableFreed
<1>1. IInv => NothingReachableFreed
  BY ReachableAreObjects DEF IInv, NothingReachableFreed
<1> QED
  BY <1>1, HeapInOrder, PTL

(***************************************************************************)
(* Every message that is queued or parked has its pattern: the sweep of    *)
(* release_class_storage keeps those that a mailbox or a parked put owns.  *)
(***************************************************************************)
THEOREM PatternsAreKept == Spec => []MessagesWhole
<1>1. IInv => MessagesWhole
  BY DEF IInv
<1> QED
  BY <1>1, HeapInOrder, PTL

(***************************************************************************)
(* After a collection only what is reachable is left, of objects and of    *)
(* patterns: survivors that died are found again (class_gc_survivors).     *)
(***************************************************************************)
THEOREM GarbageIsTaken == Spec => GarbageGoes
<1> DEFINE Swept == scanFrom' # scanFrom =>
                        /\ heap' \subseteq Reachable
                        /\ captured' \subseteq {m.id : m \in messages'}
<1>1. IInv /\ IInv' /\ [Next]_vars => [Swept]_vars
  <2> SUFFICES ASSUME IInv, IInv', Next, scanFrom' # scanFrom PROVE Swept
    OBVIOUS
  <2>1. ~Program
    BY DEF Program, Activate, New, Read, Forget, SetField, Put, Get, Peek, End,
           TaskWaits, TaskGoesOn, gc
  <2>2. heap' = heap \ (Scanned \ Marked)
    BY <2>1 DEF Next, Collect, Release
  <2>3. Scanned = heap
    BY DEF IInv, Listed, Scanned
  <2>4. heap' \subseteq Reachable
    BY <2>2, <2>3, MarkedIsReachable
  <2>5. captured' \subseteq {m.id : m \in messages'}
    BY DEF IInv, PatternsOK
  <2> QED
    BY <2>4, <2>5
<1> QED
  BY <1>1, HeapInOrder, PTL DEF Spec, GarbageGoes

-----------------------------------------------------------------------------
(* The queues of non-blocking assignments.                                 *)


\* A set of numbers with 0, and with k + 1 where it has k, has all of them.
LEMMA SetInduction ==
  ASSUME NEW T, 0 \in T, \A k \in Nat : k \in T => k + 1 \in T
  PROVE  Nat \subseteq T
<1> DEFINE U == Nat \ T
<1>1. SUFFICES ASSUME U # {} PROVE FALSE
  OBVIOUS
<1>2. U \in SUBSET Nat
  OBVIOUS
<1> HIDE DEF U
<1>3. PICK x \in U : \A y \in U : <<y, x>> \notin OpToRel(<, Nat)
  BY <1>1, <1>2, NatLessThanWellFounded, WFMin
<1> USE DEF U
<1>4. x # 0 /\ x - 1 \in Nat
  OBVIOUS
<1>5. <<x - 1, x>> \in OpToRel(<, Nat)
  BY <1>4 DEF OpToRel
<1>6. x - 1 \notin U
  BY <1>3, <1>5
<1> QED
  BY <1>4, <1>6

\* g has the values of a recursion over 0 .. n.
Steps(g, b, s, n) ==
    g = [i \in 0 .. n |-> IF i = 0 THEN b ELSE s[<<i, g[i - 1]>>]]

LEMMA StepsExist ==
  ASSUME NEW X, NEW b \in X, NEW s \in [Nat \X X -> X], NEW n \in Nat
  PROVE  \E g \in [0 .. n -> X] : Steps(g, b, s, n)
<1> DEFINE T == {k \in Nat : \E g \in [0 .. k -> X] : Steps(g, b, s, k)}
<1>1. 0 \in T
  <2> DEFINE g == [i \in 0 .. 0 |-> b]
  <2>1. g \in [0 .. 0 -> X] /\ Steps(g, b, s, 0)
    BY DEF Steps
  <2> QED
    BY <2>1
<1>2. ASSUME NEW k \in Nat, k \in T PROVE k + 1 \in T
  <2>1. PICK g \in [0 .. k -> X] : Steps(g, b, s, k)
    BY <1>2
  <2> DEFINE h == [i \in 0 .. k + 1 |-> IF i \in 0 .. k THEN g[i] ELSE s[<<i, g[k]>>]]
  <2>2. h \in [0 .. k + 1 -> X]
    <3>1. g[k] \in X
      BY <2>1
    <3>2. \A i \in 0 .. k + 1 : s[<<i, g[k]>>] \in X
      BY <3>1
    <3> QED
      BY <2>1, <3>2
  <2>3. ASSUME NEW i \in 0 .. k + 1
        PROVE  h[i] = IF i = 0 THEN b ELSE s[<<i, h[i - 1]>>]
    <3>1. CASE i = 0
      BY <2>1, <3>1 DEF Steps
    <3>2. CASE i \in 1 .. k
      <4>1. i \in 0 .. k /\ i - 1 \in 0 .. k /\ i # 0 /\ i - 1 \in 0 .. k + 1
        BY <3>2
      <4>2. g[i] = s[<<i, g[i - 1]>>]
        BY <2>1, <4>1 DEF Steps
      <4>3. h[i] = g[i] /\ h[i - 1] = g[i - 1]
        BY <4>1
      <4> QED
        BY <4>1, <4>2, <4>3
    <3>3. CASE i = k + 1
      <4>1. h[i] = s[<<i, g[k]>>] /\ h[i - 1] = g[k] /\ i # 0
        BY <3>3
      <4> QED
        BY <4>1
    <3> QED
      BY <3>1, <3>2, <3>3
  <2>4. Steps(h, b, s, k + 1)
    <3>1. h = [i \in 0 .. k + 1 |-> h[i]]
      BY <2>2
    <3> HIDE DEF h
    <3>2. [i \in 0 .. k + 1 |-> h[i]]
          = [i \in 0 .. k + 1 |-> IF i = 0 THEN b ELSE s[<<i, h[i - 1]>>]]
      BY <2>3, Zenon
    <3> QED
      BY <3>1, <3>2 DEF Steps
  <2> HIDE DEF h
  <2>5. k + 1 \in Nat /\ \E f \in [0 .. k + 1 -> X] : Steps(f, b, s, k + 1)
    BY <2>2, <2>4
  <2> QED
    BY <2>5
<1>3. Nat \subseteq T
  <2> HIDE DEF T
  <2> QED
    BY <1>1, <1>2, SetInduction
<1> QED
  BY <1>3

-----------------------------------------------------------------------------
(* The queues of entries.                                                    *)

\* LastAt is the last place of s in q.
LEMMA LastAtIs ==
  ASSUME NEW S, NEW q \in Seq(S), NEW s
  PROVE  /\ LastAt(q, s) \in 0 .. Len(q)
         /\ LastAt(q, s) # 0 => q[LastAt(q, s)].id = s
         /\ \A j \in 1 .. Len(q) : q[j].id = s => /\ LastAt(q, s) # 0
                                                 /\ j <= LastAt(q, s)
<1> DEFINE places == {i \in DOMAIN q : q[i].id = s}
           n == Len(q)
           U == {k \in Nat : n - k \in places}
<1>1. n \in Nat /\ DOMAIN q = 1 .. n
  OBVIOUS
<1>2. CASE places = {}
  BY <1>1, <1>2 DEF LastAt
<1>3. CASE places # {}
  <2> HIDE DEF n
  <2>1. U # {} /\ U \in SUBSET Nat
    <3>1. PICK i \in places : TRUE
      BY <1>3
    <3>2. i \in 1 .. n
      BY <1>1
    <3> HIDE DEF places
    <3>3. n - i \in Nat /\ n - (n - i) = i
      BY <1>1, <3>2
    <3> QED
      BY <3>1, <3>3
  <2> HIDE DEF U
  <2>2. PICK k \in U : \A y \in U : <<y, k>> \notin OpToRel(<, Nat)
    BY <2>1, NatLessThanWellFounded, WFMin
  <2> USE DEF U
  <2>3. k \in Nat /\ n - k \in places
    BY <2>2
  <2>4. \A j \in places : j <= n - k
    <3> SUFFICES ASSUME NEW j \in places, ~ (j <= n - k) PROVE FALSE
      OBVIOUS
    <3>1. j \in 1 .. n
      BY <1>1
    <3>2. n - j \in Nat /\ n - (n - j) = j /\ n - j < k
      BY <1>1, <2>3, <3>1
    <3>3. n - j \in U
      BY <3>2
    <3>4. <<n - j, k>> \in OpToRel(<, Nat)
      BY <2>3, <3>2 DEF OpToRel
    <3> QED
      BY <2>2, <3>3, <3>4
  <2>5. LastAt(q, s) \in places /\ \A j \in places : j <= LastAt(q, s)
    <3>1. LastAt(q, s) = CHOOSE i \in places : \A j \in places : j <= i
      BY <1>3 DEF LastAt
    <3> HIDE DEF places
    <3> QED
      BY <2>3, <2>4, <3>1
  <2> QED
    BY <1>1, <2>5
<1> QED
  BY <1>2, <1>3

\* The last place is known by what is behind it.
LEMMA LastAtEq ==
  ASSUME NEW S, NEW q \in Seq(S), NEW s, NEW k \in 0 .. Len(q),
         k # 0 => q[k].id = s,
         \A j \in 1 .. Len(q) : q[j].id = s => k # 0 /\ j <= k
  PROVE  LastAt(q, s) = k
<1> DEFINE a == LastAt(q, s)
<1>1. /\ a \in 0 .. Len(q) /\ (a # 0 => q[a].id = s)
      /\ \A j \in 1 .. Len(q) : q[j].id = s => a # 0 /\ j <= a
  BY LastAtIs, Zenon
<1> HIDE DEF a
<1>2. a # 0 => k # 0 /\ a <= k
  BY <1>1
<1>3. k # 0 => a # 0 /\ k <= a
  BY <1>1
<1>4. a = k
  BY <1>1, <1>2, <1>3
<1> QED
  BY <1>4 DEF a

\* What s will be according to q, if it is d now.
Value(q, s, d) == IF LastAt(q, s) = 0 THEN d ELSE q[LastAt(q, s)].val

LEMMA OfNone == \A s, d : LastAt(<<>>, s) = 0 /\ Value(<<>>, s, d) = d
<1>1. \A s : LastAt(<<>>, s) = 0
  BY DEF LastAt
<1> QED
  BY <1>1 DEF Value

\* A new entry counts.
LEMMA Appended ==
  ASSUME NEW q \in Seq(Entries), NEW e \in Entries, NEW s, NEW d
  PROVE  /\ Append(q, e) \in Seq(Entries) /\ Len(Append(q, e)) = Len(q) + 1
         /\ LastAt(Append(q, e), s) = IF s = e.id THEN Len(q) + 1 ELSE LastAt(q, s)
         /\ Value(Append(q, e), s, d) = IF s = e.id THEN e.val ELSE Value(q, s, d)
<1> DEFINE r == Append(q, e)
           k == IF s = e.id THEN Len(q) + 1 ELSE LastAt(q, s)
<1>1. /\ r \in Seq(Entries) /\ Len(r) = Len(q) + 1 /\ Len(q) \in Nat
      /\ r[Len(q) + 1] = e /\ \A i \in 1 .. Len(q) : r[i] = q[i]
  OBVIOUS
<1>2. /\ LastAt(q, s) \in 0 .. Len(q) /\ (LastAt(q, s) # 0 => q[LastAt(q, s)].id = s)
      /\ \A j \in 1 .. Len(q) : q[j].id = s => LastAt(q, s) # 0 /\ j <= LastAt(q, s)
  BY LastAtIs
<1> HIDE DEF r
<1>3. k \in 0 .. Len(r) /\ (k # 0 => r[k].id = s)
  BY <1>1, <1>2
<1>4. ASSUME NEW j \in 1 .. Len(r), r[j].id = s PROVE k # 0 /\ j <= k
  BY <1>1, <1>2, <1>4
<1>5. LastAt(r, s) = k
  <2> HIDE DEF k
  <2> QED
    BY <1>1, <1>3, <1>4, LastAtEq
<1>6. Value(r, s, d) = IF s = e.id THEN e.val ELSE Value(q, s, d)
  BY <1>1, <1>2, <1>5 DEF Value
<1> QED
  BY <1>1, <1>5, <1>6 DEF r

\* An entry that is changed keeps its place.
Amended(q, k, v) == [q EXCEPT ![k].val = v]

LEMMA Changed ==
  ASSUME NEW q \in Seq(Entries), NEW x, LastAt(q, x) # 0, NEW v \in Values,
         NEW s, NEW d, NEW r, r = Amended(q, LastAt(q, x), v)
  PROVE  /\ r \in Seq(Entries) /\ Len(r) = Len(q)
         /\ LastAt(r, s) = LastAt(q, s)
         /\ Value(r, s, d) = IF s = x THEN v ELSE Value(q, s, d)
<1> DEFINE m == LastAt(q, x)
           k == LastAt(q, s)
<1>0. r = [q EXCEPT ![m].val = v]
  BY DEF Amended
<1>1. m \in 1 .. Len(q) /\ q[m].id = x /\ Len(q) \in Nat
  BY LastAtIs
<1>2. /\ k \in 0 .. Len(q) /\ (k # 0 => q[k].id = s)
      /\ \A j \in 1 .. Len(q) : q[j].id = s => k # 0 /\ j <= k
  BY LastAtIs
<1>3. k = m => s = x
  BY <1>1, <1>2
<1> HIDE DEF m, k
<1>4. /\ r \in Seq(Entries) /\ Len(r) = Len(q) /\ r[m].val = v
      /\ \A i \in 1 .. Len(q) : r[i].id = q[i].id /\ (i # m => r[i] = q[i])
  <2> DEFINE e == [q[m] EXCEPT !.val = v]
  <2>1. q[m] \in Entries
    BY <1>1
  <2>2. e \in Entries /\ e.id = q[m].id /\ e.val = v
    BY <2>1 DEF Entries
  <2>3. r = [q EXCEPT ![m] = e]
    BY <1>0
  <2> HIDE DEF e
  <2> QED
    BY <1>1, <2>2, <2>3
<1>5. LastAt(r, s) = k
  BY <1>2, <1>4, LastAtEq
<1>6. s = x => k = m
  BY DEF k, m
<1>7. Value(r, s, d) = IF s = x THEN v ELSE Value(q, s, d)
  BY <1>1, <1>2, <1>3, <1>4, <1>5, <1>6 DEF Value, k
<1> QED
  BY <1>4, <1>5, <1>7 DEF m, k

\* Of two queues in a row the second one counts.
LEMMA Joined ==
  ASSUME NEW q \in Seq(Entries), NEW r \in Seq(Entries), NEW s, NEW d
  PROVE  /\ q \o r \in Seq(Entries) /\ Len(q \o r) = Len(q) + Len(r)
         /\ LastAt(q \o r, s) = IF LastAt(r, s) = 0 THEN LastAt(q, s)
                                ELSE Len(q) + LastAt(r, s)
         /\ Value(q \o r, s, d) = IF LastAt(r, s) = 0 THEN Value(q, s, d)
                                  ELSE Value(r, s, d)
<1> DEFINE t == q \o r
           a == LastAt(q, s)
           b == LastAt(r, s)
           k == IF b = 0 THEN a ELSE Len(q) + b
<1>1. /\ t \in Seq(Entries) /\ Len(t) = Len(q) + Len(r) /\ Len(q) \in Nat /\ Len(r) \in Nat
      /\ \A i \in 1 .. Len(q) + Len(r) : t[i] = IF i <= Len(q) THEN q[i] ELSE r[i - Len(q)]
  BY ConcatProperties
<1>2. /\ a \in 0 .. Len(q) /\ (a # 0 => q[a].id = s)
      /\ \A j \in 1 .. Len(q) : q[j].id = s => a # 0 /\ j <= a
  BY LastAtIs
<1>3. /\ b \in 0 .. Len(r) /\ (b # 0 => r[b].id = s)
      /\ \A j \in 1 .. Len(r) : r[j].id = s => b # 0 /\ j <= b
  BY LastAtIs
<1> HIDE DEF t, a, b
<1>4. k \in 0 .. Len(t) /\ (k # 0 => t[k].id = s)
  BY <1>1, <1>2, <1>3
<1>5. ASSUME NEW j \in 1 .. Len(t), t[j].id = s PROVE k # 0 /\ j <= k
  <2>1. CASE j <= Len(q)
    BY <1>1, <1>2, <1>3, <1>5, <2>1
  <2>2. CASE j > Len(q)
    <3>1. j - Len(q) \in 1 .. Len(r) /\ r[j - Len(q)].id = s
      BY <1>1, <1>5, <2>2
    <3> QED
      BY <1>1, <1>3, <3>1
  <2> QED
    BY <1>1, <2>1, <2>2
<1>6. LastAt(t, s) = k
  <2> HIDE DEF k
  <2> QED
    BY <1>1, <1>4, <1>5, LastAtEq
<1>7. Value(t, s, d) = IF b = 0 THEN Value(q, s, d) ELSE Value(r, s, d)
  BY <1>1, <1>2, <1>3, <1>6 DEF Value, a, b
<1> QED
  BY <1>1, <1>6, <1>7 DEF t, a, b

LEMMA ValueIs ==
  ASSUME NEW q \in Seq(Entries), NEW s, NEW d \in Values
  PROVE  Value(q, s, d) \in Values
<1>1. LastAt(q, s) \in 0 .. Len(q)
  BY LastAtIs
<1>2. LastAt(q, s) # 0 => q[LastAt(q, s)] \in Entries
  BY <1>1
<1> QED
  BY <1>2 DEF Value, Entries

-----------------------------------------------------------------------------
(* Assignments.                                                              *)

LEMMA MergeIs ==
  ASSUME NEW v \in Values, NEW w \in Writes
  PROVE  Merge(v, w) \in Values /\ (IsWhole(w) => Merge(v, w) = w.val)
<1>1. w.val \in Values
  BY DEF Writes
<1> QED
  BY <1>1 DEF Merge, Values, IsWhole

\* What was assigned, u, after an assignment of w.
Added(u, w) == [b \in Bits |-> IF b \in w.mask THEN w.val[b] ELSE u[b]]

LEMMA AddedIs ==
  ASSUME NEW u \in Wanted, NEW w \in Writes
  PROVE  /\ Added(u, w) \in Wanted /\ Added(u, w) # NoValue
         /\ \A v : Merge(Overlay(v, u), w) = Overlay(v, Added(u, w))
<1>1. /\ w.val \in [Bits -> {0, 1}] /\ w.mask \subseteq Bits
      /\ \E b \in Bits : b \in w.mask
  BY DEF Writes, Values, Masks
<1>2. None \notin {0, 1}
  BY NbaAssumption
<1>3. Added(u, w) \in Wanted
  BY <1>1 DEF Added, Wanted
<1>4. PICK b \in Bits : b \in w.mask
  BY <1>1
<1>5. Added(u, w)[b] # None /\ NoValue[b] = None
  BY <1>1, <1>2, <1>4 DEF Added, NoValue
<1>6. ASSUME NEW v, NEW c \in Bits
      PROVE  Merge(Overlay(v, u), w)[c] = Overlay(v, Added(u, w))[c]
  BY <1>1, <1>2 DEF Merge, Overlay, Added
<1>7. ASSUME NEW v PROVE Merge(Overlay(v, u), w) = Overlay(v, Added(u, w))
  BY <1>6 DEF Merge, Overlay
<1> QED
  BY <1>3, <1>5, <1>7

LEMMA WantIs ==
  ASSUME NbaTypes, NEW w \in Writes, Want(w)
  PROVE  /\ want' \in [Signals -> Wanted]
         /\ \A s \in Signals : want'[s] = IF s = w.id THEN Added(want[s], w) ELSE want[s]
         /\ want'[w.id] # NoValue
<1>1. w.id \in Signals /\ want \in [Signals -> Wanted]
  BY DEF NbaTypes, Writes
<1>2. want' = [want EXCEPT ![w.id] = Added(want[w.id], w)]
  BY DEF Want, Added
<1>3. Added(want[w.id], w) \in Wanted /\ Added(want[w.id], w) # NoValue
  BY <1>1, AddedIs
<1> QED
  BY <1>1, <1>2, <1>3

\* The same of what is not assigned at all.
LEMMA OverlayNone == \A v \in Values : Overlay(v, NoValue) = v
BY DEF Overlay, NoValue, Values

\* The queue r is q with w in it, or with some entry of w.id.
Holds(q, r, w) ==
    /\ r \in Seq(Entries)
    /\ \A s \in Signals : s # w.id => /\ LastAt(r, s) = LastAt(q, s)
                                     /\ \A d : Value(r, s, d) = Value(q, s, d)
    /\ LastAt(q, w.id) # 0 => LastAt(r, w.id) # 0
Counts(q, r, w, d) == Value(r, w.id, d) = Merge(Value(q, w.id, d), w)

\* The ways to put w in q.
Entry(s, v) == [id |-> s, val |-> v]

LEMMA HoldsChanged ==
  ASSUME NEW q \in Seq(Entries), NEW w \in Writes, LastAt(q, w.id) # 0, NEW d \in Values,
         NEW r, r = Amended(q, LastAt(q, w.id), Merge(q[LastAt(q, w.id)].val, w))
  PROVE  /\ Holds(q, r, w) /\ Counts(q, r, w, d) /\ Len(r) = Len(q)
         /\ LastAt(r, w.id) = LastAt(q, w.id)
<1> DEFINE k == LastAt(q, w.id)
           v == Merge(q[k].val, w)
<1>1. k \in 1 .. Len(q)
  BY LastAtIs
<1>2. q[k] \in Entries
  BY <1>1
<1>3. v \in Values
  BY <1>2, MergeIs DEF Entries
<1>4. Value(q, w.id, d) = q[k].val
  BY DEF Value
<1>5. r = Amended(q, LastAt(q, w.id), v)
  OBVIOUS
<1>6. \A s, c : /\ r \in Seq(Entries) /\ Len(r) = Len(q) /\ LastAt(r, s) = LastAt(q, s)
                /\ Value(r, s, c) = IF s = w.id THEN v ELSE Value(q, s, c)
  <2> HIDE DEF v
  <2> QED
    BY <1>3, <1>5, Changed
<1> HIDE DEF v, k
<1>7. Holds(q, r, w) /\ Len(r) = Len(q) /\ LastAt(r, w.id) = LastAt(q, w.id)
  BY <1>6 DEF Holds
<1>8. Counts(q, r, w, d)
  BY <1>4, <1>6 DEF Counts, v
<1> QED
  BY <1>7, <1>8

Puts(q, r, w, v, d) == /\ Holds(q, r, w) /\ Len(r) = Len(q) + 1
                      /\ LastAt(r, w.id) = Len(q) + 1 /\ Value(r, w.id, d) = v

LEMMA HoldsAppended ==
  ASSUME NEW q \in Seq(Entries), NEW w \in Writes, NEW v \in Values, NEW d,
         NEW r, r = Append(q, Entry(w.id, v))
  PROVE  Puts(q, r, w, v, d)
<1> DEFINE e == Entry(w.id, v)
<1>1. e \in Entries /\ e.id = w.id /\ e.val = v /\ r = Append(q, e)
  BY DEF Entry, Entries, Writes
<1> HIDE DEF e
<1>2. \A s, c : /\ r \in Seq(Entries) /\ Len(r) = Len(q) + 1
                /\ LastAt(r, s) = IF s = e.id THEN Len(q) + 1 ELSE LastAt(q, s)
                /\ Value(r, s, c) = IF s = e.id THEN e.val ELSE Value(q, s, c)
  BY <1>1, Appended
<1>3. Len(q) + 1 # 0
  OBVIOUS
<1>4. Holds(q, r, w)
  BY <1>1, <1>2, <1>3 DEF Holds
<1> QED
  BY <1>1, <1>2, <1>4 DEF Puts

LEMMA HoldsItself ==
  ASSUME NEW q \in Seq(Entries), NEW w
  PROVE  Holds(q, q, w)
BY DEF Holds

-----------------------------------------------------------------------------
(***************************************************************************)
(* The inductive invariant.                                                *)
(***************************************************************************)
\* nba_fast_index has the last entry of each signal.
IndexOK == \A s \in Signals : index[s] = LastAt(fast, s)

Indexed == /\ fast' \in Seq(Entries)
           /\ index' \in [Signals -> 0 .. Len(fast')]
           /\ IndexOK'

LEMMA PushIs ==
  ASSUME NbaTypes, IndexOK, NEW w \in Writes, NEW v \in Values, Push(w.id, v), NEW d
  PROVE  Indexed /\ Holds(fast, fast', w) /\ Value(fast', w.id, d) = v
<1>1. fast \in Seq(Entries) /\ index \in [Signals -> 0 .. Len(fast)] /\ Len(fast) \in Nat
  BY DEF NbaTypes
<1>2. Puts(fast, fast', w, v, d)
  <2>1. fast' = Append(fast, Entry(w.id, v))
    BY DEF Push, Entry
  <2> QED
    BY <1>1, <2>1, HoldsAppended
<1> USE <1>2 DEF Puts
<1>3. index' = [index EXCEPT ![w.id] = Len(fast) + 1]
  BY DEF Push
<1>4. fast' \in Seq(Entries) /\ \A s \in Signals : s # w.id => LastAt(fast', s) = LastAt(fast, s)
  BY <1>2 DEF Holds
<1>5. index' \in [Signals -> 0 .. Len(fast')]
  <2>1. Len(fast) + 1 \in 0 .. Len(fast') /\ 0 .. Len(fast) \subseteq 0 .. Len(fast')
    BY <1>1, <1>2
  <2> QED
    BY <1>1, <1>3, <2>1
<1>6. \A s \in Signals : index'[s] = LastAt(fast', s)
  BY <1>1, <1>2, <1>3, <1>4 DEF IndexOK
<1> QED
  BY <1>2, <1>4, <1>5, <1>6 DEF Indexed, IndexOK

\* Nothing is done to nba_fast.
LEMMA KeptIs ==
  ASSUME NbaTypes, IndexOK, UNCHANGED fastVars, NEW w
  PROVE  Indexed /\ Holds(fast, fast', w)
<1>1. fast' = fast /\ index' = index
  BY DEF fastVars
<1> QED
  BY <1>1, HoldsItself DEF Indexed, IndexOK, NbaTypes

LEMMA ScheduleIs ==
  ASSUME NbaTypes, IndexOK, NEW w \in Writes, Schedule(w)
  PROVE  Indexed /\ Holds(fast, fast', w) /\ Counts(fast, fast', w, table[w.id])
<1>1. /\ fast \in Seq(Entries) /\ index \in [Signals -> 0 .. Len(fast)]
      /\ w.id \in Signals /\ table[w.id] \in Values /\ index[w.id] = LastAt(fast, w.id)
  BY DEF NbaTypes, Writes, IndexOK
<1> DEFINE d == table[w.id]
<1>2. CASE index[w.id] # 0
  <2>1. /\ fast' = Amended(fast, LastAt(fast, w.id),
                            Merge(fast[LastAt(fast, w.id)].val, w))
        /\ index' = index
    <3>1. LastAt(fast, w.id) \in DOMAIN fast
      BY <1>1, <1>2, LastAtIs
    <3> QED
      BY <1>1, <1>2, <3>1 DEF Schedule, Amended
  <2>2. /\ Holds(fast, fast', w) /\ Counts(fast, fast', w, d) /\ Len(fast') = Len(fast)
        /\ LastAt(fast', w.id) = LastAt(fast, w.id)
    <3> HIDE DEF d
    <3>1. d \in Values /\ LastAt(fast, w.id) # 0
      BY <1>1, <1>2 DEF d
    <3> QED
      BY <1>1, <2>1, <3>1, HoldsChanged
  <2>3. \A s \in Signals : LastAt(fast', s) = LastAt(fast, s)
    BY <2>2 DEF Holds
  <2> QED
    BY <1>1, <2>1, <2>2, <2>3 DEF Indexed, IndexOK, Holds
<1>3. CASE index[w.id] = 0
  <2>1. Value(fast, w.id, d) = d
    BY <1>1, <1>3 DEF Value
  <2>2. CASE Merge(d, w) = d
    <3>1. UNCHANGED fastVars
      BY <1>3, <2>2 DEF Schedule
    <3>2. fast' = fast
      BY <3>1 DEF fastVars
    <3> QED
      BY <2>1, <2>2, <3>1, <3>2, KeptIs DEF Counts
  <2>3. CASE Merge(d, w) # d
    <3>1. Push(w.id, Merge(d, w)) /\ Merge(d, w) \in Values
      BY <1>1, <1>3, <2>3, MergeIs DEF Schedule
    <3> DEFINE v == Merge(d, w)
    <3>2. Indexed /\ Holds(fast, fast', w) /\ Value(fast', w.id, d) = v
      <4> HIDE DEF v, d
      <4>1. Push(w.id, v) /\ v \in Values
        BY <3>1 DEF v
      <4> QED
        BY <4>1, PushIs
    <3> QED
      BY <2>1, <3>2 DEF Counts
  <2> QED
    BY <2>2, <2>3
<1> QED
  BY <1>2, <1>3
-----------------------------------------------------------------------------
(***************************************************************************)
(* What a queue of assignments does to a signal.                           *)
(***************************************************************************)
Tables == [Signals -> Values]

\* Two functions that begin alike and go on alike are alike.
Alike(g, h, n) == /\ g[0] = h[0]
                  /\ \A k \in 1 .. n : g[k - 1] = h[k - 1] => g[k] = h[k]
LEMMA SameSteps ==
  ASSUME NEW n \in Nat, NEW g, NEW h, Alike(g, h, n)
  PROVE  g[n] = h[n]
<1> DEFINE T == {k \in Nat : k <= n => g[k] = h[k]}
<1>1. 0 \in T
  BY DEF Alike
<1>2. ASSUME NEW k \in Nat, k \in T PROVE k + 1 \in T
  <2>1. k + 1 <= n => k + 1 \in 1 .. n /\ k <= n /\ (k + 1) - 1 = k
    OBVIOUS
  <2> QED
    BY <1>2, <2>1 DEF Alike
<1>3. Nat \subseteq T
  <2> HIDE DEF T
  <2> QED
    BY <1>1, <1>2, SetInduction
<1> QED
  BY <1>3

\* The table after the assignment w.
Written(tab, w) == [tab EXCEPT ![w.id] = Merge(@, w)]

LEMMA WrittenIs ==
  ASSUME NEW tab \in Tables, NEW w \in Writes
  PROVE  /\ Written(tab, w) \in Tables
         /\ \A s \in Signals : Written(tab, w)[s] = IF s = w.id THEN Merge(tab[s], w) ELSE tab[s]
<1>1. w.id \in Signals
  BY DEF Writes
<1>2. Merge(tab[w.id], w) \in Values
  BY <1>1, MergeIs DEF Tables
<1> QED
  BY <1>1, <1>2 DEF Written, Tables

Follows(g, tab, q) ==
    g = [k \in 0 .. Len(q) |->
            IF k = 0 THEN tab
            ELSE [g[k - 1] EXCEPT ![q[k].id] = Merge(@, q[k])]]

\* g is the tables that the assignments of q leave, one by one.
Runs(g, tab, q) ==
    /\ g \in [0 .. Len(q) -> Tables] /\ g[0] = tab
    /\ \A k \in 1 .. Len(q) : g[k] = Written(g[k - 1], q[k])

LEMMA CommitRuns ==
  ASSUME NEW tab \in Tables, NEW q \in Seq(Writes)
  PROVE  \E g : Runs(g, tab, q) /\ CommitQueue(tab, q) = g[Len(q)]
<1> DEFINE n == Len(q)
           f == [p \in Nat \X Tables |-> IF p[1] \in 1 .. n THEN Written(p[2], q[p[1]])
                                         ELSE p[2]]
<1>0. n \in Nat /\ \A i \in 1 .. n : q[i] \in Writes
  OBVIOUS
<1> HIDE DEF n
<1>1. f \in [Nat \X Tables -> Tables]
  <2>1. ASSUME NEW p \in Nat \X Tables, p[1] \in 1 .. n
        PROVE  Written(p[2], q[p[1]]) \in Tables
    BY <1>0, <2>1, WrittenIs
  <2> QED
    BY <2>1
<1>2. PICK g \in [0 .. n -> Tables] : Steps(g, tab, f, n)
  <2> HIDE DEF f
  <2> QED
    BY <1>0, <1>1, StepsExist
<1>3. g[0] = tab /\ \A i \in 1 .. n : g[i] = Written(g[i - 1], q[i])
  <2>1. ASSUME NEW i \in 0 .. n PROVE g[i] = IF i = 0 THEN tab ELSE f[<<i, g[i - 1]>>]
    BY <1>2 DEF Steps
  <2>2. ASSUME NEW i \in 1 .. n PROVE f[<<i, g[i - 1]>>] = Written(g[i - 1], q[i])
    <3>1. i - 1 \in 0 .. n /\ i \in Nat
      BY <1>0
    <3>2. <<i, g[i - 1]>> \in Nat \X Tables
      BY <3>1
    <3> QED
      BY <3>2
  <2> HIDE DEF f
  <2>3. 0 \in 0 .. n /\ \A i \in 1 .. n : i \in 0 .. n /\ i # 0
    BY <1>0
  <2>4. g[0] = tab
    BY <2>1, <2>3
  <2>5. ASSUME NEW i \in 1 .. n PROVE g[i] = Written(g[i - 1], q[i])
    BY <2>1, <2>2, <2>3
  <2> QED
    BY <2>4, <2>5
<1>4. Follows(g, tab, q)
  <2>1. g = [i \in 0 .. n |-> g[i]]
    BY <1>2
  <2>2. \A i \in 0 .. n : g[i] = IF i = 0 THEN tab ELSE Written(g[i - 1], q[i])
    BY <1>0, <1>3
  <2>3. [i \in 0 .. n |-> g[i]]
        = [i \in 0 .. n |-> IF i = 0 THEN tab ELSE Written(g[i - 1], q[i])]
    BY <2>2, Zenon
  <2> QED
    BY <2>1, <2>3, Zenon DEF Follows, Written, n
<1> DEFINE h == CHOOSE k : Follows(k, tab, q)
<1>5. Follows(h, tab, q)
  BY <1>4, Zenon
<1>6. CommitQueue(tab, q) = h[n]
  BY Zenon DEF CommitQueue, Follows, n
<1>7. h[n] = g[n]
  <2> HIDE DEF h
  <2>1. h[0] = tab /\ \A k \in 1 .. n : h[k] = Written(h[k - 1], q[k])
    <3>1. h = [k \in 0 .. n |-> IF k = 0 THEN tab ELSE Written(h[k - 1], q[k])]
      BY <1>5, Zenon DEF Follows, Written, n
    <3>2. \A k \in 0 .. n : h[k] = IF k = 0 THEN tab ELSE Written(h[k - 1], q[k])
      BY <3>1, Zenon
    <3> QED
      BY <1>0, <3>2
  <2>2. Alike(g, h, n)
    BY <1>3, <2>1, Zenon DEF Alike
  <2> QED
    BY <1>0, <2>2, SameSteps
<1>8. Runs(g, tab, q)
  BY <1>2, <1>3 DEF Runs, n
<1> QED
  BY <1>6, <1>7, <1>8 DEF n

\* The bit b of s is y after the first n assignments of q, if it is x before them.
Sets(w, s, b) == w.id = s /\ b \in w.mask
Ends(q, n, s, b, x, y) ==
    \/ y = x /\ \A i \in 1 .. n : ~ Sets(q[i], s, b)
    \/ \E i \in 1 .. n : /\ Sets(q[i], s, b) /\ y = q[i].val[b]
                         /\ \A j \in 1 .. n : j > i => ~ Sets(q[j], s, b)

LEMMA EndsOne ==
  ASSUME NEW x, NEW y, NEW z, NEW n, NEW q, NEW s, NEW b, n \in Nat,
         Ends(q, n, s, b, x, y), Ends(q, n, s, b, x, z)
  PROVE  y = z
BY DEF Ends

\* One more assignment.
LEMMA EndsMore ==
  ASSUME NEW q, NEW n \in Nat, NEW s, NEW b, NEW x, NEW y, Ends(q, n, s, b, x, y)
  PROVE  Ends(q, n + 1, s, b, x, IF Sets(q[n + 1], s, b) THEN q[n + 1].val[b] ELSE y)
<1>1. \A i \in 1 .. n + 1 : i \in 1 .. n \/ i = n + 1
  OBVIOUS
<1>2. n + 1 \in 1 .. n + 1 /\ \A i \in 1 .. n : i \in 1 .. n + 1 /\ ~ (i > n + 1)
  OBVIOUS
<1>3. CASE Sets(q[n + 1], s, b)
  BY <1>1, <1>2, <1>3 DEF Ends
<1>4. CASE ~ Sets(q[n + 1], s, b)
  BY <1>1, <1>2, <1>4 DEF Ends
<1> QED
  BY <1>3, <1>4

\* Queues that agree in their first n assignments end alike.
LEMMA EndsAlike ==
  ASSUME NEW q, NEW r, NEW n \in Nat, \A i \in 1 .. n : q[i] = r[i],
         NEW s, NEW b, NEW x, NEW y, Ends(q, n, s, b, x, y)
  PROVE  Ends(r, n, s, b, x, y)
BY DEF Ends

LEMMA CommitEnds ==
  ASSUME NEW tab \in Tables, NEW q \in Seq(Writes)
  PROVE  /\ CommitQueue(tab, q) \in Tables
         /\ \A s \in Signals, b \in Bits :
               Ends(q, Len(q), s, b, tab[s][b], CommitQueue(tab, q)[s][b])
<1> DEFINE n == Len(q)
<1>0. n \in Nat /\ \A i \in 1 .. n : q[i] \in Writes
  OBVIOUS
<1>1. PICK g : Runs(g, tab, q) /\ CommitQueue(tab, q) = g[n]
  BY CommitRuns
<1> HIDE DEF n
<1>2. /\ g \in [0 .. n -> Tables] /\ g[0] = tab
      /\ \A k \in 1 .. n : g[k] = Written(g[k - 1], q[k])
  BY <1>1 DEF Runs, n
<1>3. ASSUME NEW s \in Signals, NEW b \in Bits
      PROVE  Ends(q, n, s, b, tab[s][b], g[n][s][b])
  <2> DEFINE T == {k \in Nat : k <= n => Ends(q, k, s, b, tab[s][b], g[k][s][b])}
  <2>1. 0 \in T
    BY <1>2 DEF Ends
  <2>2. ASSUME NEW k \in Nat, k \in T PROVE k + 1 \in T
    <3> SUFFICES ASSUME k + 1 <= n PROVE Ends(q, k + 1, s, b, tab[s][b], g[k + 1][s][b])
      OBVIOUS
    <3>1. Ends(q, k, s, b, tab[s][b], g[k][s][b])
      BY <1>0, <2>2
    <3>2. k + 1 \in 1 .. n /\ (k + 1) - 1 = k /\ k \in 0 .. n
      BY <1>0
    <3>3. g[k + 1] = Written(g[k], q[k + 1]) /\ q[k + 1] \in Writes /\ g[k] \in Tables
      BY <1>0, <1>2, <3>2
    <3>4. g[k + 1][s] = IF s = q[k + 1].id THEN Merge(g[k][s], q[k + 1]) ELSE g[k][s]
      <4>1. PICK w \in Writes, tb \in Tables : w = q[k + 1] /\ tb = g[k]
        BY <3>3
      <4>2. Written(tb, w)[s] = IF s = w.id THEN Merge(tb[s], w) ELSE tb[s]
        BY WrittenIs
      <4> QED
        BY <3>3, <4>1, <4>2
    <3>5. g[k + 1][s][b] = IF Sets(q[k + 1], s, b) THEN q[k + 1].val[b] ELSE g[k][s][b]
      BY <3>4 DEF Sets, Merge
    <3> QED
      BY <3>1, <3>5, EndsMore
  <2>3. Nat \subseteq T
    <3> HIDE DEF T
    <3> QED
      BY <2>1, <2>2, SetInduction
  <2> QED
    BY <1>0, <2>3
<1>4. g[n] \in Tables
  BY <1>0, <1>2
<1> QED
  BY <1>1, <1>3, <1>4 DEF n
-----------------------------------------------------------------------------
(***************************************************************************)
(* What is due of the delayed assignments of delayed_nba_queue, and what is *)
(* not: each in the order it was in.                                       *)
(***************************************************************************)
DelayedWrites == [at : Times, write : Writes]
Fits(e, due) == Due(e.at) = due

SiftStep(r, e, due) == IF Fits(e, due) THEN Append(r, e) ELSE r
SiftFollows(g, due) ==
    g = [k \in 0 .. Len(delayedQueue) |->
            IF k = 0 THEN <<>>
            ELSE IF Due(delayedQueue[k].at) = due
            THEN Append(g[k - 1], delayedQueue[k])
            ELSE g[k - 1]]
SiftRuns(g, due) ==
    /\ g \in [0 .. Len(delayedQueue) -> Seq(DelayedWrites)] /\ g[0] = <<>>
    /\ \A k \in 1 .. Len(delayedQueue) : g[k] = SiftStep(g[k - 1], delayedQueue[k], due)

LEMMA DelayedQueueIs ==
  ASSUME NbaTypes
  PROVE  /\ delayedQueue \in Seq(DelayedWrites) /\ Len(delayedQueue) \in Nat
         /\ DOMAIN delayedQueue = 1 .. Len(delayedQueue)
         /\ \A i \in 1 .. Len(delayedQueue) : delayedQueue[i] \in DelayedWrites
<1>1. delayedQueue \in Seq(DelayedWrites)
  BY DEF NbaTypes, DelayedWrites
<1> QED
  BY <1>1, LenProperties, ElementOfSeq

LEMMA SiftedRuns ==
  ASSUME NbaTypes, NEW due
  PROVE  \E g : SiftRuns(g, due) /\ Sifted(due) = g[Len(delayedQueue)]
<1> DEFINE n == Len(delayedQueue)
           q == delayedQueue
           X == Seq(DelayedWrites)
           f == [p \in Nat \X X |-> IF p[1] \in 1 .. n THEN SiftStep(p[2], q[p[1]], due)
                                    ELSE p[2]]
<1>0. n \in Nat /\ (\A i \in 1 .. n : q[i] \in DelayedWrites) /\ <<>> \in X
  BY DelayedQueueIs
<1>1. f \in [Nat \X X -> X]
  <2>1. ASSUME NEW p \in Nat \X X, p[1] \in 1 .. n
        PROVE  SiftStep(p[2], q[p[1]], due) \in X
    <3> DEFINE e == q[p[1]]
               r == p[2]
    <3>1. e \in DelayedWrites /\ r \in Seq(DelayedWrites)
      BY <1>0, <2>1
    <3> HIDE DEF e, r
    <3>2. Append(r, e) \in Seq(DelayedWrites)
      BY <3>1, AppendProperties
    <3>3. SiftStep(r, e, due) \in X
      BY <3>1, <3>2 DEF SiftStep
    <3> QED
      BY <3>3 DEF e, r
  <2> HIDE DEF n, q, X
  <2>2. ASSUME NEW p \in Nat \X X
        PROVE  (IF p[1] \in 1 .. n THEN SiftStep(p[2], q[p[1]], due) ELSE p[2]) \in X
    BY <2>1
  <2> QED
    BY <2>2
<1> HIDE DEF n, q, X
<1>2. PICK g \in [0 .. n -> X] : Steps(g, <<>>, f, n)
  <2> HIDE DEF f
  <2> QED
    BY <1>0, <1>1, StepsExist
<1>3. g[0] = <<>> /\ \A i \in 1 .. n : g[i] = SiftStep(g[i - 1], q[i], due)
  <2>1. ASSUME NEW i \in 0 .. n PROVE g[i] = IF i = 0 THEN <<>> ELSE f[<<i, g[i - 1]>>]
    BY <1>2 DEF Steps
  <2>2. ASSUME NEW i \in 1 .. n PROVE f[<<i, g[i - 1]>>] = SiftStep(g[i - 1], q[i], due)
    <3>1. i - 1 \in 0 .. n /\ i \in Nat
      BY <1>0
    <3>2. <<i, g[i - 1]>> \in Nat \X X
      BY <3>1
    <3> QED
      BY <3>2
  <2> HIDE DEF f
  <2>3. 0 \in 0 .. n /\ \A i \in 1 .. n : i \in 0 .. n /\ i # 0
    BY <1>0
  <2>4. g[0] = <<>>
    BY <2>1, <2>3
  <2>5. ASSUME NEW i \in 1 .. n PROVE g[i] = SiftStep(g[i - 1], q[i], due)
    BY <2>1, <2>2, <2>3
  <2> QED
    BY <2>4, <2>5
<1>4. SiftFollows(g, due)
  <2>1. g = [i \in 0 .. n |-> g[i]]
    BY <1>2
  <2>2. \A i \in 0 .. n : g[i] = IF i = 0 THEN <<>> ELSE SiftStep(g[i - 1], q[i], due)
    BY <1>0, <1>3
  <2>3. [i \in 0 .. n |-> g[i]]
        = [i \in 0 .. n |-> IF i = 0 THEN <<>> ELSE SiftStep(g[i - 1], q[i], due)]
    BY <2>2, Zenon
  <2> QED
    BY <2>1, <2>3, Zenon DEF SiftFollows, SiftStep, Fits, n, q
<1> DEFINE h == CHOOSE k : SiftFollows(k, due)
<1>5. SiftFollows(h, due)
  BY <1>4, Zenon
<1>6. Sifted(due) = h[n]
  BY Zenon DEF Sifted, SiftFollows, n
<1>7. h[n] = g[n]
  <2> HIDE DEF h
  <2>1. h[0] = <<>> /\ \A k \in 1 .. n : h[k] = SiftStep(h[k - 1], q[k], due)
    <3>1. h = [k \in 0 .. n |-> IF k = 0 THEN <<>> ELSE SiftStep(h[k - 1], q[k], due)]
      BY <1>5, Zenon DEF SiftFollows, SiftStep, Fits, n, q
    <3>2. \A k \in 0 .. n : h[k] = IF k = 0 THEN <<>> ELSE SiftStep(h[k - 1], q[k], due)
      BY <3>1, Zenon
    <3> QED
      BY <1>0, <3>2
  <2>2. Alike(g, h, n)
    BY <1>3, <2>1, Zenon DEF Alike
  <2> QED
    BY <1>0, <2>2, SameSteps
<1>8. SiftRuns(g, due)
  BY <1>2, <1>3 DEF SiftRuns, n, q, X
<1> QED
  BY <1>6, <1>7, <1>8 DEF n

\* r has, in their order, the ones that fit of the first k of q; m says where.
Picked(r, m, q, k, due) ==
    /\ r \in Seq(DelayedWrites)
    /\ m \in [1 .. Len(r) -> 1 .. k]
    /\ \A i, j \in 1 .. Len(r) : i < j => m[i] < m[j]
    /\ \A j \in 1 .. Len(r) : r[j] = q[m[j]] /\ Fits(q[m[j]], due)
    /\ \A i \in 1 .. k : Fits(q[i], due) => \E j \in 1 .. Len(r) : m[j] = i

LEMMA PickedMore ==
  ASSUME NEW r, NEW m, NEW k \in Nat, NEW due, NEW q, Picked(r, m, q, k, due),
         q[k + 1] \in DelayedWrites
  PROVE  \E t : Picked(SiftStep(r, q[k + 1], due), t, q, k + 1, due)
<1> DEFINE e == q[k + 1]
           n == Len(r)
<1>1. /\ r \in Seq(DelayedWrites) /\ n \in Nat /\ m \in [1 .. n -> 1 .. k]
      /\ \A i, j \in 1 .. n : i < j => m[i] < m[j]
      /\ \A j \in 1 .. n : r[j] = q[m[j]] /\ Fits(q[m[j]], due)
      /\ \A i \in 1 .. k : Fits(q[i], due) => \E j \in 1 .. n : m[j] = i
  BY DEF Picked
<1>2. CASE Fits(e, due)
  <2> DEFINE u == Append(r, e)
             t == [j \in 1 .. n + 1 |-> IF j = n + 1 THEN k + 1 ELSE m[j]]
  <2>1. /\ u \in Seq(DelayedWrites) /\ Len(u) = n + 1 /\ u[n + 1] = e
        /\ \A j \in 1 .. n : u[j] = r[j]
    BY <1>1, AppendProperties
  <2>2. \A j \in 1 .. n + 1 : j \in 1 .. n \/ j = n + 1
    BY <1>1
  <2>3. n + 1 \in 1 .. n + 1 /\ \A j \in 1 .. n : j \in 1 .. n + 1 /\ j # n + 1
    BY <1>1
  <2>4. t[n + 1] = k + 1 /\ \A j \in 1 .. n : t[j] = m[j] /\ m[j] \in 1 .. k
    BY <1>1, <2>3
  <2>5. t \in [1 .. n + 1 -> 1 .. k + 1]
    BY <1>1
  <2> HIDE DEF t, u, n, e
  <2>6. ASSUME NEW i \in 1 .. n + 1, NEW j \in 1 .. n + 1, i < j PROVE t[i] < t[j]
    <3>1. i \in 1 .. n
      BY <1>1, <2>6
    <3>2. CASE j \in 1 .. n
      BY <1>1, <2>4, <2>6, <3>1, <3>2
    <3>3. CASE j = n + 1
      BY <2>4, <3>1, <3>3
    <3> QED
      BY <2>2, <3>2, <3>3
  <2>7. ASSUME NEW j \in 1 .. n + 1 PROVE u[j] = q[t[j]] /\ Fits(q[t[j]], due)
    <3>1. CASE j \in 1 .. n
      BY <1>1, <2>1, <2>4, <3>1
    <3>2. CASE j = n + 1
      BY <1>2, <2>1, <2>4, <3>2 DEF e
    <3> QED
      BY <2>2, <3>1, <3>2
  <2>8. ASSUME NEW i \in 1 .. k + 1, Fits(q[i], due) PROVE \E j \in 1 .. n + 1 : t[j] = i
    <3>1. CASE i = k + 1
      BY <2>3, <2>4, <3>1
    <3>2. CASE i \in 1 .. k
      BY <1>1, <2>3, <2>4, <2>8, <3>2
    <3> QED
      BY <3>1, <3>2
  <2>9. Picked(u, t, q, k + 1, due)
    BY <2>1, <2>5, <2>6, <2>7, <2>8 DEF Picked
  <2> QED
    BY <1>2, <2>9 DEF SiftStep, e, u
<1>3. CASE ~ Fits(e, due)
  <2>1. m \in [1 .. n -> 1 .. k + 1]
    BY <1>1
  <2>2. \A i \in 1 .. k + 1 : Fits(q[i], due) => i \in 1 .. k
    BY <1>3
  <2> HIDE DEF e, n
  <2>3. \A i \in 1 .. k + 1 : Fits(q[i], due) => \E j \in 1 .. n : m[j] = i
    BY <1>1, <2>2
  <2>4. Picked(r, m, q, k + 1, due)
    BY <1>1, <2>1, <2>3 DEF Picked, n
  <2> QED
    BY <1>3, <2>4 DEF SiftStep, e
<1> QED
  BY <1>2, <1>3

LEMMA SiftedIs ==
  ASSUME NbaTypes, NEW due
  PROVE  \E m : Picked(Sifted(due), m, delayedQueue, Len(delayedQueue), due)
<1> DEFINE q == delayedQueue
           n == Len(q)
<1>0. n \in Nat /\ \A i \in 1 .. n : q[i] \in DelayedWrites
  BY DelayedQueueIs
<1>1. PICK g : SiftRuns(g, due) /\ Sifted(due) = g[n]
  BY SiftedRuns
<1> HIDE DEF n, q
<1>2. /\ g[0] = <<>> /\ \A k \in 1 .. n : g[k] = SiftStep(g[k - 1], q[k], due)
  BY <1>1 DEF SiftRuns, n, q
<1> DEFINE T == {k \in Nat : k <= n => \E m : Picked(g[k], m, q, k, due)}
<1>3. 0 \in T
  <2> DEFINE m == [i \in 1 .. 0 |-> 0]
  <2>1. Picked(<<>>, m, q, 0, due)
    BY DEF Picked
  <2> QED
    BY <1>2, <2>1
<1>4. ASSUME NEW k \in Nat, k \in T PROVE k + 1 \in T
  <2> SUFFICES ASSUME k + 1 <= n PROVE \E m : Picked(g[k + 1], m, q, k + 1, due)
    OBVIOUS
  <2>1. PICK m : Picked(g[k], m, q, k, due)
    BY <1>0, <1>4
  <2>2. k + 1 \in 1 .. n /\ (k + 1) - 1 = k
    BY <1>0
  <2>3. q[k + 1] \in DelayedWrites /\ g[k + 1] = SiftStep(g[k], q[k + 1], due)
    BY <1>0, <1>2, <2>2
  <2> HIDE DEF T
  <2>4. \E t : Picked(SiftStep(g[k], q[k + 1], due), t, q, k + 1, due)
    BY <2>1, <2>3, PickedMore
  <2> QED
    BY <2>3, <2>4
<1>5. Nat \subseteq T
  <2> HIDE DEF T
  <2> QED
    BY <1>3, <1>4, SetInduction
<1>6. \E m : Picked(g[n], m, q, n, due)
  BY <1>0, <1>5
<1> QED
  BY <1>1, <1>6 DEF n, q
-----------------------------------------------------------------------------
(***************************************************************************)
(* The scan of delayed_nba.                                                *)
(***************************************************************************)
DelayedValues == [at : Times, id : Signals, val : Values]
Scans == [at : Nat, rest : Seq(DelayedValues), table : Tables]

ScanStep(c) ==
    LET e == c.rest[c.at] IN
    IF Due(e.at)
    THEN [c EXCEPT !.rest = SwapRemove(@, c.at), !.table = [@ EXCEPT ![e.id] = e.val]]
    ELSE [c EXCEPT !.at = @ + 1]

LEMMA DelayedIs ==
  ASSUME NbaTypes
  PROVE  /\ delayed \in Seq(DelayedValues) /\ Len(delayed) \in Nat
         /\ DOMAIN delayed = 1 .. Len(delayed)
         /\ \A i \in 1 .. Len(delayed) : delayed[i] \in DelayedValues
<1>1. delayed \in Seq(DelayedValues)
  BY DEF NbaTypes, DelayedValues
<1> QED
  BY <1>1, LenProperties, ElementOfSeq

\* What is left without the element k.
Dropped(q, k, r) ==
    /\ Len(r) = Len(q) - 1
    /\ \A i \in 1 .. Len(q) - 1 : r[i] = IF i = k THEN q[Len(q)] ELSE q[i]

LEMMA SwapRemoveIs ==
  ASSUME NEW S, NEW q \in Seq(S), NEW k \in 1 .. Len(q), NEW r, r = SwapRemove(q, k)
  PROVE  r \in Seq(S) /\ Dropped(q, k, r)
<1> DEFINE n == Len(q)
           F(i) == IF i = k THEN q[n] ELSE q[i]
<1>1. n \in Nat /\ n - 1 \in Nat /\ \A i \in 1 .. n : q[i] \in S
  OBVIOUS
<1>2. r = [i \in 1 .. n - 1 |-> F(i)]
  BY Zenon DEF SwapRemove
<1> HIDE DEF n
<1>3. \A i \in 1 .. n - 1 : F(i) \in S
  BY <1>1 DEF n
<1> HIDE DEF F
<1>4. /\ r \in Seq(S) /\ Len(r) = n - 1
  <2>1. /\ r \in [1 .. n - 1 -> S]
        /\ DOMAIN r = 1 .. n - 1
    BY <1>2, <1>3
  <2>2. r \in Seq(S)
    BY <1>1, <2>1, SeqDef
  <2> QED
    BY <1>1, <2>1, <2>2, LenProperties
<1>5. \A i \in 1 .. n - 1 : r[i] = F(i)
  BY <1>2
<1> QED
  BY <1>4, <1>5 DEF n, F, Dropped

\* c takes the element at c.at out, and commits it; or passes it.
TakesOut(c, d) ==
    /\ Due(c.rest[c.at].at) /\ d.at = c.at
    /\ Len(d.rest) = Len(c.rest) - 1
    /\ \A i \in 1 .. Len(c.rest) - 1 :
          d.rest[i] = IF i = c.at THEN c.rest[Len(c.rest)] ELSE c.rest[i]
    /\ \A s \in Signals : d.table[s] = IF s = c.rest[c.at].id THEN c.rest[c.at].val
                                       ELSE c.table[s]
Passes(c, d) ==
    ~ Due(c.rest[c.at].at) /\ d.at = c.at + 1 /\ d.rest = c.rest /\ d.table = c.table

LEMMA ScanStepIs ==
  ASSUME NEW c \in Scans, c.at \in 1 .. Len(c.rest)
  PROVE  ScanStep(c) \in Scans /\ (TakesOut(c, ScanStep(c)) \/ Passes(c, ScanStep(c)))
<1> DEFINE e == c.rest[c.at]
<1>1. c.rest \in Seq(DelayedValues) /\ c.table \in Tables /\ c.at \in Nat
  BY DEF Scans
<1>2. e \in DelayedValues
  BY <1>1
<1>3. e.id \in Signals /\ e.val \in Values
  BY <1>2 DEF DelayedValues
<1>4. CASE Due(e.at)
  <2> DEFINE r == SwapRemove(c.rest, c.at)
             tb == [c.table EXCEPT ![e.id] = e.val]
  <2>1. /\ r \in Seq(DelayedValues) /\ Len(r) = Len(c.rest) - 1
        /\ \A i \in 1 .. Len(c.rest) - 1 :
              r[i] = IF i = c.at THEN c.rest[Len(c.rest)] ELSE c.rest[i]
    <3>1. r \in Seq(DelayedValues) /\ Dropped(c.rest, c.at, r)
      BY <1>1, SwapRemoveIs
    <3> QED
      BY <3>1 DEF Dropped
  <2>2. /\ tb \in Tables
        /\ \A s \in Signals : tb[s] = IF s = e.id THEN e.val ELSE c.table[s]
    BY <1>1, <1>3 DEF Tables
  <2>3. ScanStep(c) = [at |-> c.at, rest |-> r, table |-> tb]
    <3>1. ScanStep(c) = [c EXCEPT !.rest = r, !.table = tb]
      BY <1>4 DEF ScanStep
    <3> HIDE DEF r, tb
    <3> QED
      BY <3>1 DEF Scans
  <2> HIDE DEF r, tb
  <2>4. /\ ScanStep(c).at = c.at /\ ScanStep(c).rest = r /\ ScanStep(c).table = tb
        /\ ScanStep(c) \in Scans
    BY <1>1, <2>1, <2>2, <2>3 DEF Scans
  <2>5. TakesOut(c, ScanStep(c))
    BY <1>4, <2>1, <2>2, <2>4 DEF TakesOut
  <2> QED
    BY <2>4, <2>5
<1>5. CASE ~ Due(e.at)
  <2>1. ScanStep(c) = [c EXCEPT !.at = @ + 1]
    BY <1>5 DEF ScanStep
  <2>2. ScanStep(c) = [at |-> c.at + 1, rest |-> c.rest, table |-> c.table]
    BY <2>1 DEF Scans
  <2>3. ScanStep(c) \in Scans /\ Passes(c, ScanStep(c))
    BY <1>1, <1>5, <2>2 DEF Scans, Passes
  <2> QED
    BY <2>3
<1> QED
  BY <1>4, <1>5

\* The delayed assignments of s that are due.
IsDue(i, s) == delayed[i].id = s /\ Due(delayed[i].at)

\* What is known after k steps: what is left of the n, m says where it was; what
\* is behind at stays; and each signal is as it was, while all that is due for it
\* is ahead, or has the value of one that was.
ScanKnows(c, m, n, k) ==
    /\ c \in Scans /\ c.at >= 1 /\ Len(c.rest) - c.at + 1 = n - k
    /\ m \in [1 .. Len(c.rest) -> 1 .. n]
    /\ \A j \in 1 .. Len(c.rest) : c.rest[j] = delayed[m[j]]
    /\ \A j \in 1 .. Len(c.rest) : j < c.at => ~ Due(c.rest[j].at)
    /\ \A i \in 1 .. n : ~ Due(delayed[i].at) => \E j \in 1 .. Len(c.rest) : m[j] = i
    /\ \A s \in Signals :
          \/ /\ c.table[s] = table[s]
             /\ \A i \in 1 .. n : IsDue(i, s) =>
                                     \E j \in 1 .. Len(c.rest) : j >= c.at /\ m[j] = i
          \/ \E i \in 1 .. n : IsDue(i, s) /\ c.table[s] = delayed[i].val

LEMMA ScanTakesOut ==
  ASSUME NEW n \in Nat, NEW k \in Nat, k < n, NEW c, NEW m, ScanKnows(c, m, n, k),
         NEW d \in Scans, TakesOut(c, d)
  PROVE  \E t : ScanKnows(d, t, n, k + 1)
<1> DEFINE l == Len(c.rest)
           t == [j \in 1 .. l - 1 |-> IF j = c.at THEN m[l] ELSE m[j]]
           a == c.at
<1>1. /\ c \in Scans /\ a \in Nat /\ l \in Nat /\ a >= 1 /\ l - a + 1 = n - k
      /\ m \in [1 .. l -> 1 .. n]
      /\ \A j \in 1 .. l : c.rest[j] = delayed[m[j]]
      /\ \A j \in 1 .. l : j < a => ~ Due(c.rest[j].at)
      /\ \A i \in 1 .. n : ~ Due(delayed[i].at) => \E j \in 1 .. l : m[j] = i
  <2>1. /\ c \in Scans /\ a >= 1 /\ l - a + 1 = n - k
        /\ m \in [1 .. l -> 1 .. n]
        /\ \A j \in 1 .. l : c.rest[j] = delayed[m[j]]
        /\ \A j \in 1 .. l : j < a => ~ Due(c.rest[j].at)
        /\ \A i \in 1 .. n : ~ Due(delayed[i].at) => \E j \in 1 .. l : m[j] = i
    BY Zenon DEF ScanKnows
  <2>2. a \in Nat /\ l \in Nat
    <3>1. c.at \in Nat /\ c.rest \in Seq(DelayedValues)
      BY <2>1 DEF Scans
    <3> QED
      BY <3>1, LenProperties
  <2> QED
    BY <2>1, <2>2
<1>2. a \in 1 .. l /\ l \in 1 .. l
  BY <1>1
<1>3. /\ Due(c.rest[a].at) /\ d.at = a /\ Len(d.rest) = l - 1
      /\ \A i \in 1 .. l - 1 : d.rest[i] = IF i = a THEN c.rest[l] ELSE c.rest[i]
      /\ \A s \in Signals : d.table[s] = IF s = c.rest[a].id THEN c.rest[a].val
                                         ELSE c.table[s]
  BY DEF TakesOut
<1>4. /\ t \in [1 .. l - 1 -> 1 .. n]
      /\ \A j \in 1 .. l - 1 : t[j] = IF j = a THEN m[l] ELSE m[j]
  BY <1>1, <1>2
<1> HIDE DEF l, t, a
<1>5. l - 1 \in Nat /\ \A j \in 1 .. l - 1 : j \in 1 .. l
  BY <1>1, <1>2
<1>6. \A j \in 1 .. l - 1 : d.rest[j] = delayed[t[j]]
  BY <1>1, <1>2, <1>3, <1>4, <1>5
<1>7. \A j \in 1 .. l - 1 : j < a => ~ Due(d.rest[j].at)
  BY <1>1, <1>3, <1>5
\* The places of all but the one taken out.
<1>8. ASSUME NEW j \in 1 .. l, j # a
      PROVE  \E i \in 1 .. l - 1 : t[i] = m[j] /\ (j >= a => i >= a)
  <2>1. CASE j = l
    <3>1. a \in 1 .. l - 1
      BY <1>2, <1>8, <2>1
    <3>2. t[a] = m[j] /\ a >= a
      BY <1>1, <1>4, <2>1, <3>1
    <3> QED
      BY <3>1, <3>2
  <2>2. CASE j # l
    <3>1. j \in 1 .. l - 1
      BY <1>1, <2>2
    <3>2. t[j] = m[j]
      BY <1>4, <1>8, <3>1
    <3> QED
      BY <3>1, <3>2
  <2> QED
    BY <2>1, <2>2
<1>9. ASSUME NEW i \in 1 .. n, ~ Due(delayed[i].at)
      PROVE  \E j \in 1 .. l - 1 : t[j] = i
  <2>1. PICK j \in 1 .. l : m[j] = i
    BY <1>1, <1>9
  <2>2. j # a
    BY <1>1, <1>3, <1>9, <2>1
  <2> QED
    BY <1>8, <2>1, <2>2
<1>10. m[a] \in 1 .. n /\ IsDue(m[a], c.rest[a].id) /\ c.rest[a].val = delayed[m[a]].val
  BY <1>1, <1>2, <1>3 DEF IsDue
<1>11. ASSUME NEW s \in Signals
       PROVE  \/ /\ d.table[s] = table[s]
                 /\ \A i \in 1 .. n : IsDue(i, s) =>
                                         \E j \in 1 .. l - 1 : j >= a /\ t[j] = i
              \/ \E i \in 1 .. n : IsDue(i, s) /\ d.table[s] = delayed[i].val
  <2>1. CASE s = c.rest[a].id
    BY <1>3, <1>10, <2>1
  <2>2. CASE s # c.rest[a].id
    <3>0. d.table[s] = c.table[s]
      BY <1>3, <2>2
    <3>1. \/ /\ c.table[s] = table[s]
             /\ \A i \in 1 .. n : IsDue(i, s) => \E j \in 1 .. l : j >= a /\ m[j] = i
          \/ \E i \in 1 .. n : IsDue(i, s) /\ c.table[s] = delayed[i].val
      BY DEF ScanKnows, l, a
    <3>2. ASSUME c.table[s] = table[s],
                 \A i \in 1 .. n : IsDue(i, s) => \E j \in 1 .. l : j >= a /\ m[j] = i,
                 NEW i \in 1 .. n, IsDue(i, s)
          PROVE  \E j \in 1 .. l - 1 : j >= a /\ t[j] = i
      <4>1. PICK j \in 1 .. l : j >= a /\ m[j] = i
        BY <3>2
      <4>2. j # a
        BY <1>1, <1>2, <2>2, <3>2, <4>1 DEF IsDue
      <4> QED
        BY <1>8, <4>1, <4>2
    <3> QED
      BY <3>0, <3>1, <3>2
  <2> QED
    BY <2>1, <2>2
<1>12. d.at >= 1 /\ Len(d.rest) - d.at + 1 = n - (k + 1)
  <2>1. (l - 1) - a + 1 = n - (k + 1)
    BY <1>1
  <2> QED
    BY <1>1, <1>3, <2>1
<1>13. ScanKnows(d, t, n, k + 1)
  <2> DEFINE r == Len(d.rest)
  <2>1. r = l - 1 /\ d.at = a
    BY <1>3
  <2> HIDE DEF r
  <2>2. t \in [1 .. r -> 1 .. n]
    BY <1>4, <2>1
  <2>3. \A j \in 1 .. r : d.rest[j] = delayed[t[j]]
    BY <1>6, <2>1
  <2>4. \A j \in 1 .. r : j < d.at => ~ Due(d.rest[j].at)
    BY <1>7, <2>1
  <2>5. \A i \in 1 .. n : ~ Due(delayed[i].at) => \E j \in 1 .. r : t[j] = i
    BY <1>9, <2>1
  <2>6. \A s \in Signals :
           \/ /\ d.table[s] = table[s]
              /\ \A i \in 1 .. n : IsDue(i, s) => \E j \in 1 .. r : j >= d.at /\ t[j] = i
           \/ \E i \in 1 .. n : IsDue(i, s) /\ d.table[s] = delayed[i].val
    BY <1>11, <2>1
  <2> QED
    BY <1>12, <2>2, <2>3, <2>4, <2>5, <2>6, Zenon DEF ScanKnows, r
<1> QED
  BY <1>13

LEMMA ScanPasses ==
  ASSUME NEW n \in Nat, NEW k \in Nat, k < n, NEW c, NEW m, ScanKnows(c, m, n, k),
         NEW d \in Scans, Passes(c, d)
  PROVE  ScanKnows(d, m, n, k + 1)
<1> DEFINE l == Len(c.rest)
           a == c.at
<1>1. /\ c \in Scans /\ a \in Nat /\ l \in Nat /\ a >= 1 /\ l - a + 1 = n - k
      /\ m \in [1 .. l -> 1 .. n]
      /\ \A j \in 1 .. l : c.rest[j] = delayed[m[j]]
      /\ \A j \in 1 .. l : j < a => ~ Due(c.rest[j].at)
      /\ \A i \in 1 .. n : ~ Due(delayed[i].at) => \E j \in 1 .. l : m[j] = i
  <2>1. /\ c \in Scans /\ a >= 1 /\ l - a + 1 = n - k
        /\ m \in [1 .. l -> 1 .. n]
        /\ \A j \in 1 .. l : c.rest[j] = delayed[m[j]]
        /\ \A j \in 1 .. l : j < a => ~ Due(c.rest[j].at)
        /\ \A i \in 1 .. n : ~ Due(delayed[i].at) => \E j \in 1 .. l : m[j] = i
    BY Zenon DEF ScanKnows
  <2>2. a \in Nat /\ l \in Nat
    <3>1. c.at \in Nat /\ c.rest \in Seq(DelayedValues)
      BY <2>1 DEF Scans
    <3> QED
      BY <3>1, LenProperties
  <2> QED
    BY <2>1, <2>2
<1>2. ~ Due(c.rest[a].at) /\ d.at = a + 1 /\ d.rest = c.rest /\ d.table = c.table
  BY DEF Passes
<1> HIDE DEF l, a
<1>3. \A j \in 1 .. l : j < a + 1 => ~ Due(c.rest[j].at)
  <2>1. \A j \in 1 .. l : j < a + 1 => j < a \/ j = a
    BY <1>1
  <2> QED
    BY <1>1, <1>2, <2>1
<1>4. ASSUME NEW s \in Signals
      PROVE  \/ /\ c.table[s] = table[s]
                /\ \A i \in 1 .. n : IsDue(i, s) =>
                                        \E j \in 1 .. l : j >= a + 1 /\ m[j] = i
             \/ \E i \in 1 .. n : IsDue(i, s) /\ c.table[s] = delayed[i].val
  <2>1. \/ /\ c.table[s] = table[s]
           /\ \A i \in 1 .. n : IsDue(i, s) => \E j \in 1 .. l : j >= a /\ m[j] = i
        \/ \E i \in 1 .. n : IsDue(i, s) /\ c.table[s] = delayed[i].val
    BY DEF ScanKnows, l, a
  <2>2. ASSUME \A i \in 1 .. n : IsDue(i, s) => \E j \in 1 .. l : j >= a /\ m[j] = i,
               NEW i \in 1 .. n, IsDue(i, s)
        PROVE  \E j \in 1 .. l : j >= a + 1 /\ m[j] = i
    <3>1. PICK j \in 1 .. l : j >= a /\ m[j] = i
      BY <2>2
    <3>2. j # a
      BY <1>1, <1>2, <2>2, <3>1 DEF IsDue
    <3>3. j >= a + 1
      BY <1>1, <3>1, <3>2
    <3> QED
      BY <3>1, <3>3
  <2> QED
    BY <2>1, <2>2
<1>5. d.at >= 1 /\ Len(d.rest) - d.at + 1 = n - (k + 1)
  <2>1. l \in Nat /\ a \in Nat /\ a >= 1 /\ l - a + 1 = n - k
    BY <1>1
  <2>2. l - (a + 1) + 1 = n - (k + 1) /\ a + 1 >= 1
    BY <2>1
  <2>3. Len(d.rest) = l /\ d.at = a + 1
    BY <1>2 DEF l
  <2> QED
    BY <2>2, <2>3
<1>6. Len(d.rest) = l
  BY <1>2 DEF l
<1> DEFINE r == Len(d.rest)
<1>7. r = l /\ d.at = a + 1
  BY <1>2, <1>6
<1> HIDE DEF r
<1>8. m \in [1 .. r -> 1 .. n] /\ \A j \in 1 .. r : d.rest[j] = delayed[m[j]]
  BY <1>1, <1>2, <1>7
<1>9. \A j \in 1 .. r : j < d.at => ~ Due(d.rest[j].at)
  BY <1>2, <1>3, <1>7
<1>10. \A i \in 1 .. n : ~ Due(delayed[i].at) => \E j \in 1 .. r : m[j] = i
  BY <1>1, <1>7
<1>11. \A s \in Signals :
         \/ /\ d.table[s] = table[s]
            /\ \A i \in 1 .. n : IsDue(i, s) => \E j \in 1 .. r : j >= d.at /\ m[j] = i
         \/ \E i \in 1 .. n : IsDue(i, s) /\ d.table[s] = delayed[i].val
  BY <1>2, <1>4, <1>7
<1> QED
  BY <1>5, <1>8, <1>9, <1>10, <1>11, Zenon DEF ScanKnows, r

\* Of a scan that has not ended there is one more.
LEMMA ScanMore ==
  ASSUME NEW n \in Nat, NEW k \in Nat, k < n, NEW c, NEW m, ScanKnows(c, m, n, k)
  PROVE  c.at \in 1 .. Len(c.rest) /\ \E t : ScanKnows(ScanStep(c), t, n, k + 1)
<1>1. c \in Scans /\ c.at \in Nat /\ Len(c.rest) \in Nat /\ c.at >= 1
      /\ Len(c.rest) - c.at + 1 = n - k
  BY DEF ScanKnows, Scans
<1>2. c.at \in 1 .. Len(c.rest)
  BY <1>1
<1>3. PICK d \in Scans : d = ScanStep(c) /\ (TakesOut(c, d) \/ Passes(c, d))
  BY <1>1, <1>2, ScanStepIs
<1>4. ASSUME TakesOut(c, d) PROVE \E t : ScanKnows(d, t, n, k + 1)
  <2>1. n \in Nat /\ k \in Nat /\ k < n /\ ScanKnows(c, m, n, k) /\ d \in Scans
    OBVIOUS
  <2> QED
    BY <1>4, <2>1, ScanTakesOut, Zenon
<1>5. ASSUME Passes(c, d) PROVE ScanKnows(d, m, n, k + 1)
  <2>1. n \in Nat /\ k \in Nat /\ k < n /\ ScanKnows(c, m, n, k) /\ d \in Scans
    OBVIOUS
  <2> QED
    BY <1>5, <2>1, ScanPasses, Zenon
<1>6. \E t : ScanKnows(d, t, n, k + 1)
  BY <1>3, <1>4, <1>5, Zenon
<1> QED
  BY <1>2, <1>3, <1>6, Zenon

ScanFollows(g) ==
    g = [k \in 0 .. Len(delayed) |->
            IF k = 0
            THEN [at |-> 1, rest |-> delayed, table |-> table]
            ELSE LET c == g[k - 1]
                     e == c.rest[c.at]
                 IN  IF Due(e.at)
                     THEN [c EXCEPT !.rest = SwapRemove(@, c.at),
                                    !.table = [@ EXCEPT ![e.id] = e.val]]
                     ELSE [c EXCEPT !.at = @ + 1]]

LEMMA MaturedKnows ==
  ASSUME NbaTypes
  PROVE  \E m : ScanKnows(Matured, m, Len(delayed), Len(delayed))
<1> DEFINE n == Len(delayed)
           b == [at |-> 1, rest |-> delayed, table |-> table]
           f == [p \in Nat \X Scans |-> IF p[2].at \in 1 .. Len(p[2].rest)
                                        THEN ScanStep(p[2]) ELSE p[2]]
<1>0. n \in Nat /\ delayed \in Seq(DelayedValues) /\ \A i \in 1 .. n : delayed[i] \in DelayedValues
  BY DelayedIs
<1>1. b \in Scans
  BY <1>0 DEF NbaTypes, Scans, Tables
<1>2. f \in [Nat \X Scans -> Scans]
  <2>1. ASSUME NEW c \in Scans, c.at \in 1 .. Len(c.rest) PROVE ScanStep(c) \in Scans
    BY <2>1, ScanStepIs
  <2> QED
    BY <2>1
<1>3. \E m : ScanKnows(b, m, n, 0)
  <2> DEFINE m == [j \in 1 .. n |-> j]
  <2>1. /\ b.at = 1 /\ b.rest = delayed /\ b.table = table /\ Len(b.rest) = n
    OBVIOUS
  <2>2. m \in [1 .. n -> 1 .. n] /\ \A j \in 1 .. n : m[j] = j
    OBVIOUS
  <2>3. n - 1 + 1 = n - 0 /\ 1 >= 1 /\ \A j \in 1 .. n : j >= 1 /\ ~ (j < 1)
    BY <1>0
  <2> HIDE DEF m, b, n
  <2>4. \A s \in Signals : /\ b.table[s] = table[s]
                           /\ \A i \in 1 .. n : IsDue(i, s) =>
                                 \E j \in 1 .. n : j >= b.at /\ m[j] = i
    BY <2>1, <2>2, <2>3
  <2>5. ScanKnows(b, m, n, 0)
    BY <1>1, <2>1, <2>2, <2>3, <2>4 DEF ScanKnows
  <2> QED
    BY <2>5
<1> HIDE DEF n, b
<1>4. PICK g \in [0 .. n -> Scans] : Steps(g, b, f, n)
  <2> HIDE DEF f
  <2> QED
    BY <1>0, <1>1, <1>2, StepsExist
<1>5. /\ g[0] = b
      /\ \A i \in 1 .. n : g[i] = IF g[i - 1].at \in 1 .. Len(g[i - 1].rest)
                                  THEN ScanStep(g[i - 1]) ELSE g[i - 1]
  <2>1. ASSUME NEW i \in 0 .. n PROVE g[i] = IF i = 0 THEN b ELSE f[<<i, g[i - 1]>>]
    BY <1>4 DEF Steps
  <2>2. ASSUME NEW i \in 1 .. n
        PROVE  f[<<i, g[i - 1]>>] = IF g[i - 1].at \in 1 .. Len(g[i - 1].rest)
                                    THEN ScanStep(g[i - 1]) ELSE g[i - 1]
    <3>1. i - 1 \in 0 .. n /\ i \in Nat
      BY <1>0
    <3>2. <<i, g[i - 1]>> \in Nat \X Scans
      BY <3>1
    <3> QED
      BY <3>2
  <2> HIDE DEF f
  <2>3. 0 \in 0 .. n /\ \A i \in 1 .. n : i \in 0 .. n /\ i # 0
    BY <1>0
  <2>4. g[0] = b
    BY <2>1, <2>3
  <2>5. ASSUME NEW i \in 1 .. n
        PROVE  g[i] = IF g[i - 1].at \in 1 .. Len(g[i - 1].rest)
                      THEN ScanStep(g[i - 1]) ELSE g[i - 1]
    BY <2>1, <2>2, <2>3
  <2> QED
    BY <2>4, <2>5
<1> HIDE DEF f
<1> DEFINE T == {k \in Nat : k <= n => \E m : ScanKnows(g[k], m, n, k)}
<1>6. 0 \in T
  BY <1>3, <1>5
<1>7. ASSUME NEW k \in Nat, k \in T PROVE k + 1 \in T
  <2> SUFFICES ASSUME k + 1 <= n PROVE \E m : ScanKnows(g[k + 1], m, n, k + 1)
    OBVIOUS
  <2>1. PICK m : ScanKnows(g[k], m, n, k)
    BY <1>0, <1>7
  <2>2. k + 1 \in 1 .. n /\ (k + 1) - 1 = k /\ k < n
    BY <1>0
  <2> HIDE DEF T
  <2> DEFINE c == g[k]
  <2>3. g[k + 1] = IF c.at \in 1 .. Len(c.rest) THEN ScanStep(c) ELSE c
    BY <1>5, <2>2
  <2>4. ScanKnows(c, m, n, k)
    BY <2>1
  <2> HIDE DEF c
  <2>5. c.at \in 1 .. Len(c.rest) /\ \E t : ScanKnows(ScanStep(c), t, n, k + 1)
    BY <1>0, <2>2, <2>4, ScanMore
  <2> QED
    BY <2>3, <2>5
<1>8. Nat \subseteq T
  <2> HIDE DEF T
  <2> QED
    BY <1>6, <1>7, SetInduction
<1>9. \A k \in 0 .. n : \E m : ScanKnows(g[k], m, n, k)
  BY <1>0, <1>8
<1> HIDE DEF T
<1>10. ASSUME NEW i \in 1 .. n PROVE g[i] = ScanStep(g[i - 1])
  <2>1. i - 1 \in 0 .. n /\ i - 1 \in Nat /\ i - 1 < n
    BY <1>0
  <2>2. PICK m : ScanKnows(g[i - 1], m, n, i - 1)
    BY <1>9, <2>1
  <2> DEFINE c == g[i - 1]
             k == i - 1
  <2>3. ScanKnows(c, m, n, k) /\ k \in Nat /\ k < n
    BY <2>1, <2>2
  <2>4. g[i] = IF c.at \in 1 .. Len(c.rest) THEN ScanStep(c) ELSE c
    BY <1>5
  <2> HIDE DEF c, k
  <2>5. c.at \in 1 .. Len(c.rest)
    BY <1>0, <2>3, ScanMore
  <2> QED
    BY <2>4, <2>5 DEF c
<1>11. ScanFollows(g)
  <2>1. g = [i \in 0 .. n |-> g[i]]
    BY <1>4
  <2>2. \A i \in 0 .. n : g[i] = IF i = 0 THEN b ELSE ScanStep(g[i - 1])
    BY <1>0, <1>5, <1>10
  <2>3. [i \in 0 .. n |-> g[i]]
        = [i \in 0 .. n |-> IF i = 0 THEN b ELSE ScanStep(g[i - 1])]
    BY <2>2, Zenon
  <2> QED
    BY <2>1, <2>3, Zenon DEF ScanFollows, ScanStep, b, n
<1> DEFINE h == CHOOSE k : ScanFollows(k)
<1>12. ScanFollows(h)
  BY <1>11, Zenon
<1>13. Matured = h[n]
  BY Zenon DEF Matured, ScanFollows, n
<1>14. h[n] = g[n]
  <2> HIDE DEF h
  <2>1. h[0] = b /\ \A k \in 1 .. n : h[k] = ScanStep(h[k - 1])
    <3>1. h = [k \in 0 .. n |-> IF k = 0 THEN b ELSE ScanStep(h[k - 1])]
      BY <1>12, Zenon DEF ScanFollows, ScanStep, b, n
    <3>2. \A k \in 0 .. n : h[k] = IF k = 0 THEN b ELSE ScanStep(h[k - 1])
      BY <3>1, Zenon
    <3> QED
      BY <1>0, <3>2
  <2>2. Alike(g, h, n)
    BY <1>5, <1>10, <2>1, Zenon DEF Alike
  <2> QED
    BY <1>0, <2>2, SameSteps
<1>15. \E m : ScanKnows(g[n], m, n, n)
  BY <1>0, <1>9
<1> QED
  BY <1>13, <1>14, <1>15 DEF n

\* What the scan leaves: of the delayed assignments those that are not due; and
\* each signal as it was, if none was due for it, or with the value of one.
Kept(r, m, n) ==
    /\ r \in Seq(DelayedValues) /\ m \in [1 .. Len(r) -> 1 .. n]
    /\ \A j \in 1 .. Len(r) : r[j] = delayed[m[j]] /\ ~ Due(r[j].at)
    /\ \A i \in 1 .. n : ~ Due(delayed[i].at) => \E j \in 1 .. Len(r) : m[j] = i
Lands(tab, s) ==
    \/ tab[s] = table[s] /\ \A i \in 1 .. Len(delayed) : ~ IsDue(i, s)
    \/ \E i \in 1 .. Len(delayed) : IsDue(i, s) /\ tab[s] = delayed[i].val

LEMMA MaturedIs ==
  ASSUME NbaTypes
  PROVE  /\ Matured.table \in Tables
         /\ \E m : Kept(Matured.rest, m, Len(delayed))
         /\ \A s \in Signals : Lands(Matured.table, s)
<1> DEFINE n == Len(delayed)
           c == Matured
           l == Len(c.rest)
<1>0. n \in Nat
  BY DelayedIs
<1>1. PICK m : ScanKnows(c, m, n, n)
  BY MaturedKnows
<1> HIDE DEF c, n
<1>2. /\ c \in Scans /\ c.at \in Nat /\ l \in Nat /\ c.rest \in Seq(DelayedValues)
      /\ c.at >= 1 /\ l - c.at + 1 = n - n /\ c.table \in Tables
  BY <1>1 DEF ScanKnows, Scans
<1>3. \A j \in 1 .. l : j < c.at /\ ~ (j >= c.at)
  BY <1>0, <1>2
<1>4. Kept(c.rest, m, n)
  BY <1>1, <1>2, <1>3 DEF ScanKnows, Kept
<1>5. ASSUME NEW s \in Signals PROVE Lands(c.table, s)
  <2>1. \/ /\ c.table[s] = table[s]
           /\ \A i \in 1 .. n : IsDue(i, s) => \E j \in 1 .. l : j >= c.at /\ m[j] = i
        \/ \E i \in 1 .. n : IsDue(i, s) /\ c.table[s] = delayed[i].val
    BY <1>1 DEF ScanKnows
  <2> HIDE DEF l
  <2> QED
    BY <1>3, <2>1 DEF Lands, n
<1> QED
  BY <1>2, <1>4, <1>5 DEF c, n
-----------------------------------------------------------------------------
(***************************************************************************)
(* The inductive invariant: IndexOK, and what the queues will leave.        *)
(***************************************************************************)
\* Threads run blocks that share no signal, each with a queue of its own.
ThreadsOK ==
    /\ phase = "serial" => threads = {}
    /\ \A b \in threads : Pure(b)
    /\ \A b \in Blocks : /\ b \notin threads => out[b] = <<>>
                         /\ \A i \in 1 .. Len(out[b]) : out[b][i].id \in design.layout[b]

\* No queue has an entry of a signal that was not assigned.
AssignedOK ==
    \A s \in Signals : want[s] = NoValue =>
        /\ LastAt(fast, s) = 0
        /\ \A i \in 1 .. Len(queue) : queue[i].id # s
        /\ \A b \in Blocks : LastAt(out[b], s) = 0

\* The queue q makes of v what u assigns to s, which is d now.
MeantBy(q, s, d, u, v) ==
    \A b \in Bits : Ends(q, Len(q), s, b, v[b], Overlay(d, u)[b])
Meant(s, v) == MeantBy(queue, s, table[s], want[s], v)

\* What the thread with entries of s has, or nba_fast if there is none, is meant.
MeantOK ==
    \A s \in Signals : spoiled[s] = {} =>
        /\ (\A b \in threads : LastAt(out[b], s) = 0) => Meant(s, Value(fast, s, table[s]))
        /\ \A b \in threads : LastAt(out[b], s) # 0 => Meant(s, Value(out[b], s, table[s]))

WindowOK == IndexOK /\ ThreadsOK /\ AssignedOK /\ MeantOK

\* Delayed assignments to s for t.
InFast(e, s, t)  == e.id = s /\ e.at = t
InQueue(e, s, t) == e.write.id = s /\ e.at = t

\* The bit b that the first n of q leave of s at t; None if they assign none.
SetsAt(e, s, t, b) == e.at = t /\ Sets(e.write, s, b)
Comes(q, n, s, t, b, y) ==
    \/ y = None /\ \A i \in 1 .. n : ~ SetsAt(q[i], s, t, b)
    \/ \E i \in 1 .. n : /\ SetsAt(q[i], s, t, b) /\ y = q[i].write.val[b]
                         /\ \A j \in 1 .. n : j > i => ~ SetsAt(q[j], s, t, b)

\* One of delayed_nba that comes alone brings the value u; those of
\* delayed_nba_queue, if there is none of delayed_nba, its bits.
Alone(d, q, i, s, t) ==
    /\ InFast(d[i], s, t)
    /\ \A j \in 1 .. Len(d) : InFast(d[j], s, t) => j = i
    /\ \A j \in 1 .. Len(q) : ~ InQueue(q[j], s, t)
Delivers(d, q, s, t, u) ==
    /\ \A i \in 1 .. Len(d) : Alone(d, q, i, s, t) => u = d[i].val
    /\ (\A i \in 1 .. Len(d) : ~ InFast(d[i], s, t)) =>
          \A b \in Bits : Comes(q, Len(q), s, t, b, u[b])

Awaited(d, q, s, t) == \/ \E i \in 1 .. Len(d) : InFast(d[i], s, t)
                       \/ \E i \in 1 .. Len(q) : InQueue(q[i], s, t)

\* Delayed assignments are for now or later, and bring what is expected.
DelayOK ==
    /\ \A i \in 1 .. Len(delayed) : delayed[i].at >= time
    /\ \A i \in 1 .. Len(delayedQueue) : delayedQueue[i].at >= time
    /\ \A s \in Signals, t \in Times :
          /\ wantAt[<<s, t>>] # NoValue => t >= time /\ Awaited(delayed, delayedQueue, s, t)
          /\ Delivers(delayed, delayedQueue, s, t, wantAt[<<s, t>>])

NbaInv == NbaTypes /\ WindowOK /\ DelayOK
-----------------------------------------------------------------------------
(* Lemmas about the parts of it.                                             *)

LEMMA NbaInitOK == NbaInit => NbaInv
<1> SUFFICES ASSUME NbaInit PROVE NbaInv
  OBVIOUS
<1>1. None \notin {0, 1} /\ MaxTime \in Nat /\ Designs \subseteq Design
  BY NbaAssumption
<1>2. NoValue \in Wanted
  BY DEF NoValue, Wanted
<1>3. design \in Design
  BY <1>1 DEF NbaInit
<1>4. /\ design.limit \in Nat /\ 0 \in Times
  BY <1>1, <1>3 DEF Design, Times
<1>5. [b \in Bits |-> 0] \in Values
  BY DEF Values
<1>6. NbaTypes
  BY <1>2, <1>4, <1>5 DEF NbaInit, NbaTypes
<1>7. \A s : LastAt(<<>>, s) = 0 /\ \A d : Value(<<>>, s, d) = d
  BY OfNone
<1>8. IndexOK
  BY <1>7 DEF IndexOK, NbaInit
<1>9. ThreadsOK
  BY DEF ThreadsOK, NbaInit
<1>10. AssignedOK
  BY <1>7 DEF AssignedOK, NbaInit
<1>11. MeantOK
  <2>1. ASSUME NEW s \in Signals PROVE Meant(s, table[s])
    <3>1. Overlay(table[s], want[s]) = table[s]
      BY <1>5, OverlayNone DEF NbaInit
    <3>2. queue = <<>> /\ Len(queue) = 0
      BY DEF NbaInit
    <3> QED
      BY <3>1, <3>2 DEF Meant, MeantBy, Ends
  <2>2. threads = {} /\ \A s \in Signals : Value(fast, s, table[s]) = table[s]
    BY <1>7 DEF NbaInit
  <2> QED
    BY <2>1, <2>2 DEF MeantOK
<1>12. DelayOK
  <2>1. Len(delayed) = 0 /\ Len(delayedQueue) = 0
    BY DEF NbaInit
  <2>2. \A s \in Signals, t \in Times : wantAt[<<s, t>>] = NoValue
    BY DEF NbaInit
  <2>3. \A b \in Bits : NoValue[b] = None
    BY DEF NoValue
  <2> QED
    BY <2>1, <2>2, <2>3 DEF DelayOK, Delivers, Comes
<1> QED
  BY <1>6, <1>8, <1>9, <1>10, <1>11, <1>12 DEF NbaInv, WindowOK

\* A queue without assignments to s leaves it alone.
Without(q, s) == \A i \in 1 .. Len(q) : q[i].id # s

LEMMA MeantNone ==
  ASSUME NEW q, NEW s, Without(q, s), Len(q) \in Nat, NEW d \in Values, NEW u,
         NEW v \in Values
  PROVE  MeantBy(q, s, d, u, v) <=> v = Overlay(d, u)
<1>1. \A b \in Bits, i \in 1 .. Len(q) : ~ Sets(q[i], s, b)
  BY DEF Without, Sets
<1>2. MeantBy(q, s, d, u, v) <=> \A b \in Bits : v[b] = Overlay(d, u)[b]
  BY <1>1 DEF MeantBy, Ends
<1>3. v = [b \in Bits |-> v[b]] /\ Overlay(d, u) = [b \in Bits |-> Overlay(d, u)[b]]
  BY DEF Values, Overlay
<1>4. (\A b \in Bits : v[b] = Overlay(d, u)[b]) => v = Overlay(d, u)
  BY <1>3
<1> QED
  BY <1>2, <1>4

\* One more assignment in it.
LEMMA MeantMore ==
  ASSUME NEW q \in Seq(Writes), NEW s, NEW d, NEW u, NEW v, MeantBy(q, s, d, u, v),
         NEW w \in Writes
  PROVE  MeantBy(Append(q, w), s, d, IF s = w.id THEN Added(u, w) ELSE u, v)
<1> DEFINE r == Append(q, w)
           n == Len(q)
           x == IF s = w.id THEN Added(u, w) ELSE u
<1>1. n \in Nat /\ Len(r) = n + 1 /\ r[n + 1] = w /\ \A i \in 1 .. n : r[i] = q[i]
  BY AppendProperties
<1> HIDE DEF r, n, x
<1>2. ASSUME NEW b \in Bits PROVE Ends(r, n + 1, s, b, v[b], Overlay(d, x)[b])
  <2> DEFINE y == Overlay(d, u)[b]
             z == v[b]
  <2>1. Ends(q, n, s, b, z, y)
    BY DEF MeantBy, n
  <2> HIDE DEF y, z
  <2>2. Ends(r, n, s, b, z, y)
    BY <1>1, <2>1, EndsAlike
  <2>3. Ends(r, n + 1, s, b, z, IF Sets(w, s, b) THEN w.val[b] ELSE y)
    BY <1>1, <2>2, EndsMore
  <2>4. Overlay(d, x)[b] = IF Sets(w, s, b) THEN w.val[b] ELSE y
    <3>1. w.val[b] # None \/ ~ Sets(w, s, b)
      BY NbaAssumption DEF Writes, Values
    <3> QED
      BY <3>1 DEF Overlay, Added, Sets, x, y
  <2> QED
    BY <2>3, <2>4 DEF z
<1> QED
  BY <1>1, <1>2 DEF MeantBy, r, x

LEMMA SpoilIs ==
  ASSUME NbaTypes, NEW s \in Signals, NEW causes \in SUBSET Causes, Spoil(s, causes)
  PROVE  /\ spoiled' \in [Signals -> SUBSET Causes]
         /\ \A t \in Signals : t # s => spoiled'[t] = spoiled[t]
         /\ spoiled'[s] = {} => spoiled[s] = {} /\ causes = {}
BY DEF NbaTypes, Spoil

LEMMA NotQueued ==
  ASSUME NbaTypes, NEW s
  PROVE  /\ queue \in Seq(Writes) /\ Len(queue) \in Nat
         /\ ~ IsQueued(s) <=> Without(queue, s)
BY DEF NbaTypes, IsQueued, Without
-----------------------------------------------------------------------------
(* The steps of a window, and what they do to WindowOK.                      *)

\* What WindowOK is about.
windowVars == <<design, table, fast, index, queue, phase, threads, out, want, spoiled>>

LEMMA WindowKept ==
  ASSUME NbaInv, UNCHANGED windowVars
  PROVE  WindowOK'
BY DEF NbaInv, WindowOK, windowVars, IndexOK, ThreadsOK, AssignedOK, MeantOK, Meant,
       Pure, WritersOf

\* An assignment that nba_fast counts, as far as the reference follows it.
Counted(w) ==
    /\ Indexed /\ Holds(fast, fast', w) /\ Want(w)
    /\ spoiled' \in [Signals -> SUBSET Causes]
    /\ \A t \in Signals : t # w.id => spoiled'[t] = spoiled[t]
    /\ spoiled'[w.id] = {} => /\ spoiled[w.id] = {} /\ Without(queue, w.id)
                              /\ Counts(fast, fast', w, table[w.id])

LEMMA AssignCounts ==
  ASSUME NbaInv, Assign
  PROVE  \E w \in Writes : Counted(w)
<1>0. NbaTypes /\ IndexOK
  BY DEF NbaInv, WindowOK
<1>1. PICK w \in Writes, form \in design.forms :
         /\ \/ form = "compiled" /\ Schedule(w)
            \/ form = "dyn" /\ IsWhole(w) /\ ScheduleDynWhole(w)
            \/ form = "statement" /\ IsWhole(w) /\ ScheduleStatement(w)
         /\ Want(w)
         /\ Spoil(w.id, Also("queue", IsQueued(w.id))
                        \cup Also("dyn", form = "dyn" /\ index[w.id] # 0))
  BY DEF Assign
<1> DEFINE causes == Also("queue", IsQueued(w.id))
                     \cup Also("dyn", form = "dyn" /\ index[w.id] # 0)
<1>2. causes \in SUBSET Causes /\ w.id \in Signals /\ w.val \in Values
  BY DEF Also, Causes, Writes
<1>3. causes = {} => ~ IsQueued(w.id) /\ ~ (form = "dyn" /\ index[w.id] # 0)
  BY DEF Also
<1>4. Spoil(w.id, causes)
  BY <1>1
<1> HIDE DEF causes
<1>5. /\ spoiled' \in [Signals -> SUBSET Causes]
      /\ \A t \in Signals : t # w.id => spoiled'[t] = spoiled[t]
      /\ spoiled'[w.id] = {} => spoiled[w.id] = {} /\ causes = {}
  BY <1>0, <1>2, <1>4, SpoilIs
<1>6. spoiled'[w.id] = {} => spoiled[w.id] = {} /\ Without(queue, w.id)
  BY <1>0, <1>3, <1>5, NotQueued
<1> DEFINE d == table[w.id]
           v == Value(fast, w.id, d)
<1>7. fast \in Seq(Entries) /\ d \in Values /\ index[w.id] = LastAt(fast, w.id)
  BY <1>0, <1>2 DEF NbaTypes, IndexOK
<1>8. v \in Values
  <2> HIDE DEF d
  <2> QED
    BY <1>7, ValueIs
<1>9. Indexed /\ Holds(fast, fast', w)
      /\ (spoiled'[w.id] = {} => Counts(fast, fast', w, table[w.id]))
  <2>1. CASE form = "compiled" /\ Schedule(w)
    BY <1>0, <2>1, ScheduleIs
  <2>2. ASSUME IsWhole(w), Push(w.id, w.val)
        PROVE  Indexed /\ Holds(fast, fast', w) /\ Counts(fast, fast', w, d)
    <3>1. Indexed /\ Holds(fast, fast', w) /\ Value(fast', w.id, d) = w.val
      <4> DEFINE x == w.val
      <4>1. x \in Values /\ Push(w.id, x)
        BY <1>2, <2>2
      <4> HIDE DEF x, d
      <4>2. Indexed /\ Holds(fast, fast', w) /\ Value(fast', w.id, d) = x
        BY <1>0, <4>1, PushIs
      <4> QED
        BY <4>2 DEF x
    <3>2. Merge(v, w) = w.val
      <4> HIDE DEF v
      <4> QED
        BY <1>8, <2>2, MergeIs
    <3> QED
      BY <3>1, <3>2 DEF Counts
  <2>3. CASE form = "dyn" /\ IsWhole(w) /\ ScheduleDynWhole(w)
    <3>1. CASE d = w.val
      <4>1. UNCHANGED fastVars
        BY <2>3, <3>1 DEF ScheduleDynWhole
      <4>2. Indexed /\ Holds(fast, fast', w) /\ fast' = fast
        BY <1>0, <4>1, KeptIs DEF fastVars
      <4>3. ASSUME spoiled'[w.id] = {} PROVE Counts(fast, fast', w, d)
        <5>1. LastAt(fast, w.id) = 0
          BY <1>3, <1>5, <1>7, <2>3, <4>3
        <5>2. v = d
          BY <5>1 DEF Value
        <5>3. Merge(d, w) = w.val
          <6> HIDE DEF d
          <6> QED
            BY <1>7, <2>3, MergeIs
        <5> QED
          BY <3>1, <4>2, <5>2, <5>3 DEF Counts
      <4> QED
        BY <4>2, <4>3
    <3>2. CASE d # w.val
      <4>1. Push(w.id, w.val)
        BY <2>3, <3>2 DEF ScheduleDynWhole
      <4> QED
        BY <2>2, <2>3, <4>1
    <3> QED
      BY <3>1, <3>2
  <2>4. CASE form = "statement" /\ IsWhole(w) /\ ScheduleStatement(w)
    BY <2>2, <2>4 DEF ScheduleStatement
  <2> QED
    BY <1>1, <2>1, <2>3, <2>4
<1>10. Counted(w)
  BY <1>1, <1>5, <1>6, <1>9 DEF Counted
<1> QED
  BY <1>10

LEMMA AssignWindow ==
  ASSUME NbaInv, Assign
  PROVE  WindowOK' /\ NbaTypes'
<1>0. NbaTypes /\ IndexOK /\ ThreadsOK /\ AssignedOK /\ MeantOK
  BY DEF NbaInv, WindowOK
<1>1. PICK w \in Writes : Counted(w)
  BY AssignCounts
<1>2. /\ phase = "serial" /\ threads = {} /\ threads' = threads /\ out' = out
      /\ queue' = queue /\ table' = table /\ design' = design /\ phase' = phase
      /\ delayed' = delayed /\ delayedQueue' = delayedQueue /\ time' = time
      /\ wantAt' = wantAt /\ writes < design.limit /\ writes' = writes + 1
  BY <1>0 DEF Assign, Frame, ThreadsOK, CountWrite
<1>3. /\ Indexed /\ Holds(fast, fast', w)
      /\ \A t \in Signals : t # w.id => spoiled'[t] = spoiled[t]
      /\ spoiled' \in [Signals -> SUBSET Causes]
      /\ spoiled'[w.id] = {} => /\ spoiled[w.id] = {} /\ Without(queue, w.id)
                                /\ Counts(fast, fast', w, table[w.id])
  BY <1>1 DEF Counted
<1>4. /\ want' \in [Signals -> Wanted]
      /\ \A s \in Signals : want'[s] = IF s = w.id THEN Added(want[s], w) ELSE want[s]
      /\ want'[w.id] # NoValue
  BY <1>0, <1>1, WantIs DEF Counted
<1>5. IndexOK'
  BY <1>3 DEF Indexed
<1>6. ThreadsOK'
  BY <1>0, <1>2 DEF ThreadsOK, Pure, WritersOf
<1>7. AssignedOK'
  <2>1. ASSUME NEW s \in Signals, want'[s] = NoValue
        PROVE  /\ LastAt(fast', s) = 0
               /\ \A i \in 1 .. Len(queue') : queue'[i].id # s
               /\ \A b \in Blocks : LastAt(out'[b], s) = 0
    <3>1. s # w.id /\ want[s] = NoValue
      BY <1>4, <2>1
    <3>2. LastAt(fast', s) = LastAt(fast, s)
      BY <1>3, <3>1 DEF Holds
    <3> QED
      BY <1>0, <1>2, <3>1, <3>2 DEF AssignedOK
  <2> QED
    BY <2>1 DEF AssignedOK
<1>8. MeantOK'
  <2>1. ASSUME NEW s \in Signals, spoiled'[s] = {}
        PROVE  MeantBy(queue, s, table[s], want'[s], Value(fast', s, table[s]))
    <3>0. spoiled[s] = {}
      BY <1>3, <2>1
    <3>1. MeantBy(queue, s, table[s], want[s], Value(fast, s, table[s]))
      BY <1>0, <1>2, <3>0 DEF MeantOK, Meant
    <3>2. CASE s # w.id
      <4>1. Value(fast', s, table[s]) = Value(fast, s, table[s])
        BY <1>3, <3>2 DEF Holds
      <4>2. want'[s] = want[s]
        BY <1>4, <3>2
      <4> QED
        BY <3>1, <4>1, <4>2
    <3>3. CASE s = w.id
      <4> DEFINE d == table[s]
                 u == want[s]
                 v == Value(fast, s, d)
                 x == Value(fast', s, d)
      <4>1. Without(queue, s) /\ x = Merge(v, w) /\ Len(queue) \in Nat
        BY <1>0, <1>3, <2>1, <3>3, NotQueued DEF Counts
      <4>2. d \in Values /\ u \in Wanted /\ fast \in Seq(Entries)
        BY <1>0 DEF NbaTypes
      <4>3. v \in Values
        <5> HIDE DEF d
        <5> QED
          BY <4>2, ValueIs
      <4> HIDE DEF d, u, v, x
      <4>4. x \in Values
        BY <4>1, <4>3, MergeIs
      <4>5. v = Overlay(d, u)
        <5>1. MeantBy(queue, s, d, u, v)
          BY <3>1 DEF d, u, v
        <5> QED
          BY <4>1, <4>2, <4>3, <5>1, MeantNone
      <4>6. x = Overlay(d, Added(u, w))
        BY <4>1, <4>2, <4>5, AddedIs
      <4>7. MeantBy(queue, s, d, Added(u, w), x)
        BY <4>1, <4>2, <4>4, <4>6, MeantNone
      <4>8. want'[s] = Added(u, w)
        BY <1>4, <3>3 DEF u
      <4> QED
        BY <4>7, <4>8 DEF d, x
    <3> QED
      BY <3>2, <3>3
  <2> QED
    BY <1>2, <2>1 DEF MeantOK, Meant
<1>9. NbaTypes'
  <2>1. writes' \in 0 .. design'.limit
    BY <1>0, <1>2, NbaAssumption DEF NbaTypes, Design
  <2> QED
    BY <1>0, <1>2, <1>3, <1>4, <2>1 DEF NbaTypes, Indexed
<1> QED
  BY <1>5, <1>6, <1>7, <1>8, <1>9 DEF WindowOK

LEMMA WritesCount ==
  ASSUME NbaTypes, CountWrite, design' = design
  PROVE  writes' \in 0 .. design'.limit
BY NbaAssumption DEF NbaTypes, Design, CountWrite

LEMMA EnqueueWindow ==
  ASSUME NbaInv, Enqueue
  PROVE  WindowOK' /\ NbaTypes'
<1>0. NbaTypes /\ IndexOK /\ ThreadsOK /\ AssignedOK /\ MeantOK
  BY DEF NbaInv, WindowOK
<1>1. PICK w \in Writes : queue' = Append(queue, w) /\ Want(w)
  BY DEF Enqueue
<1>2. /\ phase = "serial" /\ threads = {} /\ threads' = threads /\ out' = out
      /\ fast' = fast /\ index' = index /\ spoiled' = spoiled
      /\ table' = table /\ design' = design /\ phase' = phase
      /\ delayed' = delayed /\ delayedQueue' = delayedQueue /\ time' = time
      /\ wantAt' = wantAt /\ CountWrite
  BY <1>0 DEF Enqueue, Frame, ThreadsOK, fastVars
<1>3. /\ want' \in [Signals -> Wanted]
      /\ \A s \in Signals : want'[s] = IF s = w.id THEN Added(want[s], w) ELSE want[s]
      /\ want'[w.id] # NoValue
  BY <1>0, <1>1, WantIs
<1>4. /\ queue \in Seq(Writes) /\ queue' \in Seq(Writes) /\ Len(queue) \in Nat
      /\ Len(queue') = Len(queue) + 1 /\ queue'[Len(queue) + 1] = w
      /\ \A i \in 1 .. Len(queue) : queue'[i] = queue[i]
  BY <1>0, <1>1, AppendProperties DEF NbaTypes
<1>5. IndexOK' /\ ThreadsOK'
  BY <1>0, <1>2 DEF IndexOK, ThreadsOK, Pure, WritersOf
<1>6. AssignedOK'
  <2>1. ASSUME NEW s \in Signals, want'[s] = NoValue, NEW i \in 1 .. Len(queue')
        PROVE  queue'[i].id # s
    <3>1. s # w.id /\ want[s] = NoValue
      BY <1>3, <2>1
    <3>2. i \in 1 .. Len(queue) \/ i = Len(queue) + 1
      BY <1>4
    <3> QED
      BY <1>0, <1>4, <3>1, <3>2 DEF AssignedOK
  <2>2. \A s \in Signals : want'[s] = NoValue => want[s] = NoValue
    BY <1>3
  <2> QED
    BY <1>0, <1>2, <2>1, <2>2 DEF AssignedOK
<1>7. MeantOK'
  <2>1. ASSUME NEW s \in Signals, spoiled[s] = {}
        PROVE  MeantBy(queue', s, table[s], want'[s], Value(fast, s, table[s]))
    <3> DEFINE d == table[s]
               u == want[s]
               v == Value(fast, s, d)
    <3>1. MeantBy(queue, s, d, u, v)
      BY <1>0, <1>2, <2>1 DEF MeantOK, Meant
    <3>2. want'[s] = IF s = w.id THEN Added(u, w) ELSE u
      BY <1>3
    <3> HIDE DEF d, u, v
    <3>3. MeantBy(Append(queue, w), s, d, IF s = w.id THEN Added(u, w) ELSE u, v)
      BY <1>4, <3>1, MeantMore
    <3> QED
      BY <1>1, <3>2, <3>3 DEF d, v
  <2> QED
    BY <1>2, <2>1 DEF MeantOK, Meant
<1>8. NbaTypes'
  <2>1. writes' \in 0 .. design'.limit
    BY <1>0, <1>2, WritesCount
  <2> QED
    BY <1>0, <1>2, <1>3, <1>4, <2>1 DEF NbaTypes
<1> QED
  BY <1>5, <1>6, <1>7, <1>8 DEF WindowOK

LEMMA BlockingWindow ==
  ASSUME NbaInv, AssignBlocking
  PROVE  WindowOK' /\ NbaTypes'
<1>0. NbaTypes /\ IndexOK /\ ThreadsOK /\ AssignedOK /\ MeantOK
  BY DEF NbaInv, WindowOK
<1>1. PICK w \in Writes : /\ table' = Written(table, w)
                          /\ Spoil(w.id, Also("blocking", Assigned(w.id)))
  BY DEF AssignBlocking, Written
<1>2. /\ phase = "serial" /\ threads = {} /\ threads' = threads /\ out' = out
      /\ fast' = fast /\ index' = index /\ want' = want /\ queue' = queue
      /\ design' = design /\ phase' = phase
      /\ delayed' = delayed /\ delayedQueue' = delayedQueue /\ time' = time
      /\ wantAt' = wantAt /\ CountWrite
  BY <1>0 DEF AssignBlocking, Frame, ThreadsOK, fastVars
<1>3. /\ table' \in [Signals -> Values]
      /\ \A s \in Signals : s # w.id => table'[s] = table[s]
  BY <1>0, <1>1, WrittenIs DEF NbaTypes, Tables
<1>4. /\ spoiled' \in [Signals -> SUBSET Causes]
      /\ \A t \in Signals : t # w.id => spoiled'[t] = spoiled[t]
      /\ spoiled'[w.id] = {} => want[w.id] = NoValue
  <2> DEFINE causes == Also("blocking", Assigned(w.id))
  <2>1. causes \in SUBSET Causes /\ w.id \in Signals
        /\ (causes = {} => want[w.id] = NoValue)
    BY DEF Also, Causes, Writes, Assigned
  <2>2. Spoil(w.id, causes)
    BY <1>1
  <2> HIDE DEF causes
  <2> QED
    BY <1>0, <2>1, <2>2, SpoilIs
<1>5. IndexOK' /\ ThreadsOK' /\ AssignedOK'
  BY <1>0, <1>2 DEF IndexOK, ThreadsOK, AssignedOK, Pure, WritersOf
<1>6. MeantOK'
  <2>1. ASSUME NEW s \in Signals, spoiled'[s] = {}
        PROVE  MeantBy(queue, s, table'[s], want[s], Value(fast, s, table'[s]))
    <3>1. CASE s # w.id
      BY <1>0, <1>2, <1>3, <1>4, <2>1, <3>1 DEF MeantOK, Meant
    <3>2. CASE s = w.id
      <4>1. want[s] = NoValue
        BY <1>4, <2>1, <3>2
      <4>2. LastAt(fast, s) = 0 /\ Without(queue, s)
        BY <1>0, <4>1 DEF AssignedOK, Without
      <4> DEFINE d == table'[s]
      <4>3. d \in Values /\ Len(queue) \in Nat
        BY <1>0, <1>3, NotQueued
      <4> HIDE DEF d
      <4>4. d = Overlay(d, NoValue)
        BY <4>3, OverlayNone
      <4>5. MeantBy(queue, s, d, NoValue, d)
        BY <4>2, <4>3, <4>4, MeantNone
      <4>6. Value(fast, s, d) = d
        BY <4>2 DEF Value
      <4> QED
        BY <4>1, <4>5, <4>6 DEF d
    <3> QED
      BY <3>1, <3>2
  <2> QED
    BY <1>2, <2>1 DEF MeantOK, Meant
<1>7. NbaTypes'
  <2>1. writes' \in 0 .. design'.limit
    BY <1>0, <1>2, WritesCount
  <2> QED
    BY <1>0, <1>2, <1>3, <1>4, <2>1 DEF NbaTypes
<1> QED
  BY <1>5, <1>6, <1>7 DEF WindowOK

LEMMA DispatchWindow ==
  ASSUME NbaInv, Dispatch
  PROVE  WindowOK' /\ NbaTypes'
<1>0. NbaTypes /\ IndexOK /\ ThreadsOK /\ AssignedOK /\ MeantOK
  BY DEF NbaInv, WindowOK
<1>1. /\ phase = "serial" /\ phase' = "threads" /\ threads' \in SUBSET Blocks
      /\ \A b \in threads' : Pure(b)
      /\ UNCHANGED <<design, table, fast, index, queue, delayed, delayedQueue, time,
                     out, want, wantAt, spoiled, writes>>
  BY DEF Dispatch, fastVars
<1>2. threads = {} /\ \A b \in Blocks : out[b] = <<>>
  BY <1>0, <1>1 DEF ThreadsOK
<1>3. \A b \in Blocks, s \in Signals : LastAt(out[b], s) = 0
  BY <1>2, OfNone
<1>4. ThreadsOK'
  BY <1>0, <1>1, <1>2 DEF ThreadsOK, Pure, WritersOf
<1>5. MeantOK'
  BY <1>0, <1>1, <1>2, <1>3 DEF MeantOK, Meant
<1> QED
  BY <1>0, <1>1, <1>4, <1>5 DEF WindowOK, IndexOK, AssignedOK, NbaTypes

LEMMA ThreadsEndWindow ==
  ASSUME NbaInv, ThreadsEnd
  PROVE  WindowOK' /\ NbaTypes'
<1>0. NbaTypes /\ IndexOK /\ ThreadsOK /\ AssignedOK /\ MeantOK
  BY DEF NbaInv, WindowOK
<1>1. /\ phase' = "merge"
      /\ UNCHANGED <<design, table, fast, index, queue, delayed, delayedQueue, time,
                     threads, out, want, wantAt, spoiled, writes>>
  BY DEF ThreadsEnd, fastVars
<1>2. IndexOK' /\ AssignedOK' /\ NbaTypes'
  BY <1>0, <1>1 DEF IndexOK, AssignedOK, NbaTypes
<1>3. ThreadsOK'
  BY <1>0, <1>1 DEF ThreadsOK, Pure, WritersOf
<1>4. MeantOK'
  BY <1>0, <1>1 DEF MeantOK, Meant
<1> QED
  BY <1>2, <1>3, <1>4 DEF WindowOK

\* What a block on a thread does to its queue.
LEMMA IsolatedIs ==
  ASSUME NbaTypes, NEW q \in Seq(Entries), NEW w \in Writes, NEW r, r = Isolated(q, w)
  PROVE  Holds(q, r, w) /\ Counts(q, r, w, table[w.id])
<1> DEFINE d == table[w.id]
           k == LastAt(q, w.id)
<1>1. w.id \in Signals /\ d \in Values
  BY DEF NbaTypes, Writes
<1>2. CASE k # 0
  <2>1. r = Amended(q, k, Merge(q[k].val, w))
    <3>1. k \in DOMAIN q
      BY <1>2, LastAtIs
    <3> QED
      BY <1>2, <3>1 DEF Isolated, Amended
  <2> HIDE DEF d
  <2> QED
    BY <1>1, <1>2, <2>1, HoldsChanged DEF d
<1>3. CASE k = 0
  <2>1. Value(q, w.id, d) = d
    BY <1>3 DEF Value
  <2>2. CASE Merge(d, w) = d
    <3>1. r = q
      BY <1>3, <2>2 DEF Isolated
    <3> QED
      BY <2>1, <2>2, <3>1, HoldsItself DEF Counts
  <2>3. CASE Merge(d, w) # d
    <3> DEFINE v == Merge(d, w)
    <3>1. r = Append(q, Entry(w.id, v))
      BY <1>3, <2>3 DEF Isolated, Entry
    <3>2. Puts(q, r, w, v, d)
      <4>1. v \in Values
        <5> HIDE DEF d
        <5> QED
          BY <1>1, MergeIs
      <4> HIDE DEF v, d
      <4> QED
        BY <3>1, <4>1, HoldsAppended
    <3> QED
      BY <2>1, <3>2 DEF Puts, Counts
  <2> QED
    BY <2>2, <2>3
<1> QED
  BY <1>2, <1>3

\* The entries are of signals of L.
Within(q, L) == \A i \in 1 .. Len(q) : q[i].id \in L

LEMMA IsolatedWithin ==
  ASSUME NbaTypes, NEW q \in Seq(Entries), NEW w \in Writes, NEW L, Within(q, L),
         w.id \in L
  PROVE  Within(Isolated(q, w), L)
<1> DEFINE r == Isolated(q, w)
           k == LastAt(q, w.id)
<1>1. CASE k # 0
  <2>1. k \in 1 .. Len(q)
    BY <1>1, LastAtIs
  <2> DEFINE e == [q[k] EXCEPT !.val = Merge(@, w)]
  <2>2. q[k] \in Entries
    BY <2>1
  <2>3. e.id = q[k].id
    BY <2>2 DEF Entries
  <2>4. r = [q EXCEPT ![k] = e]
    BY <1>1 DEF Isolated
  <2> HIDE DEF e
  <2>5. Len(r) = Len(q) /\ \A i \in 1 .. Len(q) : r[i] = IF i = k THEN e ELSE q[i]
    BY <2>1, <2>4
  <2> HIDE DEF r, k
  <2> QED
    BY <2>1, <2>3, <2>5 DEF Within, r
<1>2. CASE k = 0
  <2>1. CASE r = q
    BY <2>1
  <2>2. CASE r # q
    <3>1. PICK e : r = Append(q, e) /\ e.id = w.id
      BY <1>2, <2>2 DEF Isolated
    <3> HIDE DEF r
    <3>2. /\ Len(q) \in Nat /\ Len(r) = Len(q) + 1 /\ r[Len(q) + 1] = e
          /\ \A i \in 1 .. Len(q) : r[i] = q[i]
      BY <3>1
    <3>3. \A i \in 1 .. Len(r) : i \in 1 .. Len(q) \/ i = Len(q) + 1
      BY <3>2
    <3> QED
      BY <3>1, <3>2, <3>3 DEF Within, r
  <2> QED
    BY <2>1, <2>2
<1> QED
  BY <1>1, <1>2

\* Only one thread has entries of a signal.
LEMMA OneThread ==
  ASSUME NbaTypes, ThreadsOK, NEW b \in threads, NEW s \in Signals,
         s \in design.layout[b], NEW c \in Blocks, c # b
  PROVE  LastAt(out[c], s) = 0
<1>1. c \in threads => s \notin design.layout[c]
  <2>1. Pure(b)
    BY DEF ThreadsOK
  <2>2. WritersOf(s) = {b}
    BY <2>1 DEF Pure
  <2> QED
    BY <2>2 DEF WritersOf
<1>2. CASE c \in threads
  <2>1. \A i \in 1 .. Len(out[c]) : out[c][i].id # s
    BY <1>1, <1>2 DEF ThreadsOK
  <2>2. out[c] \in Seq(Entries)
    BY DEF NbaTypes
  <2>3. LastAt(out[c], s) # 0 => LastAt(out[c], s) \in 1 .. Len(out[c])
                                 /\ out[c][LastAt(out[c], s)].id = s
    BY <2>2, LastAtIs
  <2> QED
    BY <2>1, <2>3
<1>3. CASE c \notin threads
  <2>1. out[c] = <<>>
    BY <1>3 DEF ThreadsOK
  <2> QED
    BY <2>1, OfNone
<1> QED
  BY <1>2, <1>3

\* A thread with entries of a signal is one that assigns it.
LEMMA HasEntries ==
  ASSUME NbaTypes, ThreadsOK, NEW b \in Blocks, NEW s, LastAt(out[b], s) # 0
  PROVE  b \in threads /\ s \in design.layout[b]
<1>1. out[b] \in Seq(Entries)
  BY DEF NbaTypes
<1>2. LastAt(out[b], s) \in 1 .. Len(out[b]) /\ out[b][LastAt(out[b], s)].id = s
  BY <1>1, LastAtIs
<1>3. s \in design.layout[b]
  BY <1>2 DEF ThreadsOK
<1>4. out[b] # <<>>
  BY OfNone
<1> QED
  BY <1>3, <1>4 DEF ThreadsOK

LEMMA ThreadAssignsWindow ==
  ASSUME NbaInv, ThreadAssigns
  PROVE  WindowOK' /\ NbaTypes'
<1>0. NbaTypes /\ IndexOK /\ ThreadsOK /\ AssignedOK /\ MeantOK
  BY DEF NbaInv, WindowOK
<1>1. PICK b \in threads, w \in Writes :
         /\ w.id \in design.layout[b]
         /\ out' = [out EXCEPT ![b] = Isolated(@, w)]
         /\ Want(w)
         /\ Spoil(w.id, Also("isolated", index[w.id] # 0)
                        \cup Also("queue", IsQueued(w.id)))
  BY DEF ThreadAssigns
<1>2. /\ phase = "threads" /\ threads' = threads
      /\ fast' = fast /\ index' = index /\ queue' = queue
      /\ table' = table /\ design' = design /\ phase' = phase
      /\ delayed' = delayed /\ delayedQueue' = delayedQueue /\ time' = time
      /\ wantAt' = wantAt /\ CountWrite
  BY DEF ThreadAssigns, fastVars
<1> DEFINE q == out[b]
           r == Isolated(q, w)
<1>3. b \in Blocks /\ out \in [Blocks -> Seq(Entries)] /\ q \in Seq(Entries) /\ w.id \in Signals
  BY <1>0 DEF NbaTypes, Writes
<1>4. /\ \A c \in Blocks : out'[c] = IF c = b THEN r ELSE out[c]
      /\ Holds(q, r, w) /\ Counts(q, r, w, table[w.id]) /\ Within(r, design.layout[b])
  <2>1. Within(q, design.layout[b])
    BY <1>0, <1>3 DEF ThreadsOK, Within
  <2>2. \A c \in Blocks : out'[c] = IF c = b THEN r ELSE out[c]
    BY <1>1, <1>3
  <2> HIDE DEF q
  <2> QED
    BY <1>0, <1>1, <1>3, <2>1, <2>2, IsolatedIs, IsolatedWithin
<1>5. out' \in [Blocks -> Seq(Entries)]
  <2>1. r \in Seq(Entries)
    BY <1>4 DEF Holds
  <2> HIDE DEF r
  <2>2. out' = [out EXCEPT ![b] = r]
    BY <1>1 DEF r
  <2> QED
    BY <1>3, <2>1, <2>2
<1> HIDE DEF r
<1>6. /\ want' \in [Signals -> Wanted]
      /\ \A s \in Signals : want'[s] = IF s = w.id THEN Added(want[s], w) ELSE want[s]
      /\ want'[w.id] # NoValue
  BY <1>0, <1>1, WantIs
<1>7. /\ spoiled' \in [Signals -> SUBSET Causes]
      /\ \A t \in Signals : t # w.id => spoiled'[t] = spoiled[t]
      /\ spoiled'[w.id] = {} => /\ spoiled[w.id] = {} /\ index[w.id] = 0
                                /\ Without(queue, w.id)
  <2> DEFINE causes == Also("isolated", index[w.id] # 0)
                       \cup Also("queue", IsQueued(w.id))
  <2>1. causes \in SUBSET Causes
        /\ (causes = {} => index[w.id] = 0 /\ ~ IsQueued(w.id))
    BY DEF Also, Causes
  <2>2. Spoil(w.id, causes)
    BY <1>1
  <2> HIDE DEF causes
  <2>3. /\ spoiled' \in [Signals -> SUBSET Causes]
        /\ \A t \in Signals : t # w.id => spoiled'[t] = spoiled[t]
        /\ spoiled'[w.id] = {} => spoiled[w.id] = {} /\ causes = {}
    BY <1>0, <1>3, <2>1, <2>2, SpoilIs
  <2> QED
    BY <1>0, <2>1, <2>3, NotQueued
<1>8. IndexOK'
  BY <1>0, <1>2 DEF IndexOK
<1>9. ThreadsOK'
  <2>1. ASSUME NEW c \in Blocks
        PROVE  /\ c \notin threads => out'[c] = <<>>
               /\ \A i \in 1 .. Len(out'[c]) : out'[c][i].id \in design.layout[c]
    BY <1>0, <1>4 DEF ThreadsOK, Within
  <2> QED
    BY <1>0, <1>2, <2>1 DEF ThreadsOK, Pure, WritersOf
<1>10. \A s \in Signals, c \in Blocks : (s # w.id \/ c # b) =>
           /\ LastAt(out'[c], s) = LastAt(out[c], s)
           /\ Value(out'[c], s, table[s]) = Value(out[c], s, table[s])
  BY <1>4 DEF Holds
<1>11. AssignedOK'
  <2>1. ASSUME NEW s \in Signals, want'[s] = NoValue
        PROVE  s # w.id /\ want[s] = NoValue
    BY <1>6, <2>1
  <2> QED
    BY <1>0, <1>2, <1>10, <2>1 DEF AssignedOK
<1>12. \A c \in threads : c \in Blocks
  BY <1>0 DEF NbaTypes
<1>13. ASSUME NEW s \in Signals, spoiled'[s] = {}
       PROVE  /\ (\A c \in threads : LastAt(out'[c], s) = 0) =>
                    MeantBy(queue, s, table[s], want'[s], Value(fast, s, table[s]))
              /\ \A c \in threads : LastAt(out'[c], s) # 0 =>
                    MeantBy(queue, s, table[s], want'[s], Value(out'[c], s, table[s]))
  <2>1. CASE s # w.id
    <3>1. spoiled[s] = {} /\ want'[s] = want[s]
      BY <1>6, <1>7, <1>13, <2>1
    <3> QED
      BY <1>0, <1>10, <1>12, <2>1, <3>1 DEF MeantOK, Meant
  <2>2. CASE s = w.id
    <3> DEFINE d == table[s]
               u == want[s]
               v == Value(q, s, d)
               x == Value(r, s, d)
    <3>1. /\ spoiled[s] = {} /\ LastAt(fast, s) = 0 /\ Without(queue, s)
          /\ Len(queue) \in Nat /\ x = Merge(v, w)
      BY <1>0, <1>4, <1>7, <1>13, <2>2, NotQueued DEF IndexOK, Counts
    <3>2. d \in Values /\ u \in Wanted
      BY <1>0 DEF NbaTypes
    <3>3. v \in Values
      <4> HIDE DEF d, q
      <4> QED
        BY <1>3, <3>2, ValueIs
    <3>4. Value(fast, s, d) = d
      BY <3>1 DEF Value
    <3>5. MeantBy(queue, s, d, u, v)
      <4>1. CASE LastAt(q, s) # 0
        BY <1>0, <3>1, <4>1 DEF MeantOK, Meant
      <4>2. CASE LastAt(q, s) = 0
        <5>1. \A c \in threads : LastAt(out[c], s) = 0
          <6>1. ASSUME NEW c \in threads, c # b PROVE LastAt(out[c], s) = 0
            BY <1>0, <1>1, <1>12, <2>2, <6>1, OneThread
          <6> QED
            BY <4>2, <6>1
        <5>2. v = d
          BY <4>2 DEF Value
        <5> QED
          BY <1>0, <3>1, <3>4, <5>1, <5>2 DEF MeantOK, Meant
      <4> QED
        BY <4>1, <4>2
    <3> HIDE DEF d, u, v, x
    <3>6. x \in Values
      BY <3>1, <3>3, MergeIs
    <3>7. v = Overlay(d, u)
      BY <3>1, <3>2, <3>3, <3>5, MeantNone
    <3>8. x = Overlay(d, Added(u, w))
      BY <3>1, <3>2, <3>7, AddedIs
    <3>9. MeantBy(queue, s, d, Added(u, w), x)
      BY <3>1, <3>2, <3>6, <3>8, MeantNone
    <3>10. want'[s] = Added(u, w)
      BY <1>6, <2>2 DEF u
    <3>11. LastAt(r, s) = 0 => x = d
      BY DEF Value, x
    <3>12. out'[b] = r
      BY <1>3, <1>4
    <3>13. ASSUME NEW c \in threads, LastAt(out'[c], s) # 0
           PROVE  MeantBy(queue, s, d, want'[s], Value(out'[c], s, d))
      <4>1. c = b
        <5>1. SUFFICES ASSUME c # b PROVE FALSE
          OBVIOUS
        <5>2. LastAt(out'[c], s) = LastAt(out[c], s)
          BY <1>10, <1>12, <5>1
        <5> QED
          BY <1>0, <1>1, <1>12, <2>2, <3>13, <5>1, <5>2, OneThread
      <4> QED
        BY <3>9, <3>10, <3>12, <4>1 DEF x
    <3>14. (\A c \in threads : LastAt(out'[c], s) = 0) =>
              MeantBy(queue, s, d, want'[s], Value(fast, s, d))
      BY <3>4, <3>9, <3>10, <3>11, <3>12
    <3> QED
      BY <3>13, <3>14 DEF d
  <2> QED
    BY <2>1, <2>2
<1>14. MeantOK'
  BY <1>2, <1>13 DEF MeantOK, Meant
<1>15. NbaTypes'
  <2>1. writes' \in 0 .. design'.limit
    BY <1>0, <1>2, WritesCount
  <2> QED
    BY <1>0, <1>2, <1>5, <1>6, <1>7, <2>1 DEF NbaTypes
<1> QED
  BY <1>8, <1>9, <1>11, <1>14, <1>15 DEF WindowOK

LEMMA MergeWindow ==
  ASSUME NbaInv, MergeThread
  PROVE  WindowOK' /\ NbaTypes'
<1>0. NbaTypes /\ IndexOK /\ ThreadsOK /\ AssignedOK /\ MeantOK
  BY DEF NbaInv, WindowOK
<1>1. PICK b \in threads :
         /\ Take(b)
         /\ threads' = threads \ {b}
         /\ out' = [out EXCEPT ![b] = <<>>]
         /\ phase' = IF threads = {b} THEN "serial" ELSE "merge"
  BY DEF MergeThread
<1>2. UNCHANGED <<design, table, queue, delayed, delayedQueue, time, want, wantAt,
                  spoiled, writes>>
  BY DEF MergeThread
<1> DEFINE q == out[b]
<1>3. /\ b \in Blocks /\ out \in [Blocks -> Seq(Entries)] /\ q \in Seq(Entries)
      /\ fast \in Seq(Entries) /\ index \in [Signals -> 0 .. Len(fast)]
      /\ \A c \in threads : c \in Blocks
  BY <1>0 DEF NbaTypes
<1>4. \A s \in Signals :
         /\ fast' \in Seq(Entries) /\ Len(fast') = Len(fast) + Len(q)
         /\ LastAt(fast', s) = IF LastAt(q, s) = 0 THEN LastAt(fast, s)
                               ELSE Len(fast) + LastAt(q, s)
         /\ Value(fast', s, table[s]) = IF LastAt(q, s) = 0 THEN Value(fast, s, table[s])
                                        ELSE Value(q, s, table[s])
  <2> SUFFICES ASSUME NEW s \in Signals
               PROVE  /\ fast' \in Seq(Entries) /\ Len(fast') = Len(fast) + Len(q)
                      /\ LastAt(fast', s) = IF LastAt(q, s) = 0 THEN LastAt(fast, s)
                                            ELSE Len(fast) + LastAt(q, s)
                      /\ Value(fast', s, table[s]) =
                            IF LastAt(q, s) = 0 THEN Value(fast, s, table[s])
                            ELSE Value(q, s, table[s])
    OBVIOUS
  <2>1. fast' = fast \o q
    BY <1>1 DEF Take
  <2> DEFINE d == table[s]
  <2> HIDE DEF q, d
  <2>2. /\ fast \o q \in Seq(Entries) /\ Len(fast \o q) = Len(fast) + Len(q)
        /\ LastAt(fast \o q, s) = IF LastAt(q, s) = 0 THEN LastAt(fast, s)
                                  ELSE Len(fast) + LastAt(q, s)
        /\ Value(fast \o q, s, d) = IF LastAt(q, s) = 0 THEN Value(fast, s, d)
                                    ELSE Value(q, s, d)
    BY <1>3, Joined
  <2> QED
    BY <2>1, <2>2 DEF d
<1>5. fast' \in Seq(Entries) /\ Len(fast) \in Nat /\ Len(q) \in Nat
      /\ Len(fast') = Len(fast) + Len(q)
  BY <1>1, <1>3, ConcatProperties DEF Take
<1>6. IndexOK' /\ index' \in [Signals -> 0 .. Len(fast')]
  <2>1. index' = [s \in Signals |-> IF LastAt(q, s) = 0 THEN index[s]
                                    ELSE Len(fast) + LastAt(q, s)]
    BY <1>1 DEF Take
  <2>2. \A s \in Signals : LastAt(q, s) \in 0 .. Len(q)
    BY <1>3, LastAtIs
  <2> HIDE DEF q
  <2>3. IndexOK'
    BY <1>0, <1>4, <2>1 DEF IndexOK
  <2>4. ASSUME NEW s \in Signals
        PROVE  (IF LastAt(q, s) = 0 THEN index[s] ELSE Len(fast) + LastAt(q, s))
                  \in 0 .. Len(fast')
    BY <1>3, <1>5, <2>2
  <2> QED
    BY <2>1, <2>3, <2>4
<1>7. \A c \in Blocks : out'[c] = IF c = b THEN <<>> ELSE out[c]
  BY <1>1, <1>3
<1>8. ThreadsOK'
  <2>1. \A c \in Blocks : /\ c \notin threads' => out'[c] = <<>>
                          /\ \A i \in 1 .. Len(out'[c]) : out'[c][i].id \in design.layout[c]
    BY <1>0, <1>1, <1>7 DEF ThreadsOK
  <2>2. phase' = "serial" => threads' = {}
    BY <1>1
  <2> QED
    BY <1>0, <1>1, <1>2, <2>1, <2>2 DEF ThreadsOK, Pure, WritersOf
<1>9. \A s \in Signals, c \in Blocks : LastAt(out'[c], s) = IF c = b THEN 0 ELSE LastAt(out[c], s)
  BY <1>7, OfNone
<1>10. AssignedOK'
  <2>1. ASSUME NEW s \in Signals, want[s] = NoValue
        PROVE  LastAt(fast', s) = 0 /\ \A c \in Blocks : LastAt(out'[c], s) = 0
    <3>1. LastAt(fast, s) = 0 /\ \A c \in Blocks : LastAt(out[c], s) = 0
      BY <1>0, <2>1 DEF AssignedOK
    <3>2. LastAt(q, s) = 0
      BY <1>3, <3>1
    <3> HIDE DEF q
    <3>3. LastAt(fast', s) = 0
      BY <1>4, <3>1, <3>2
    <3> QED
      BY <1>9, <3>1, <3>3
  <2> QED
    BY <1>0, <1>2, <2>1 DEF AssignedOK
<1>11. ASSUME NEW s \in Signals, spoiled[s] = {}
       PROVE  /\ (\A c \in threads' : LastAt(out'[c], s) = 0) =>
                    Meant(s, Value(fast', s, table[s]))
              /\ \A c \in threads' : LastAt(out'[c], s) # 0 =>
                    Meant(s, Value(out'[c], s, table[s]))
  <2>1. ASSUME NEW c \in threads', LastAt(out'[c], s) # 0
        PROVE  Meant(s, Value(out'[c], s, table[s]))
    <3>1. c \in threads /\ c # b
      BY <1>1
    <3> QED
      BY <1>0, <1>3, <1>7, <1>11, <2>1, <3>1 DEF MeantOK
  <2>2. ASSUME \A c \in threads' : LastAt(out'[c], s) = 0
        PROVE  Meant(s, Value(fast', s, table[s]))
    <3>1. CASE LastAt(q, s) # 0
      <4>1. Value(fast', s, table[s]) = Value(out[b], s, table[s])
        BY <1>4, <3>1
      <4> QED
        BY <1>0, <1>11, <3>1, <4>1 DEF MeantOK
    <3>2. CASE LastAt(q, s) = 0
      <4>1. Value(fast', s, table[s]) = Value(fast, s, table[s])
        BY <1>4, <3>2
      <4>2. \A c \in threads : LastAt(out[c], s) = 0
        BY <1>1, <1>3, <1>9, <2>2, <3>2
      <4> QED
        BY <1>0, <1>11, <4>1, <4>2 DEF MeantOK
    <3> QED
      BY <3>1, <3>2
  <2> QED
    BY <2>1, <2>2
<1>12. MeantOK'
  BY <1>2, <1>11 DEF MeantOK, Meant
<1>13. NbaTypes'
  <2>1. out' \in [Blocks -> Seq(Entries)]
    BY <1>1, <1>3
  <2> QED
    BY <1>0, <1>1, <1>2, <1>5, <1>6, <2>1 DEF NbaTypes
<1> QED
  BY <1>6, <1>8, <1>10, <1>12, <1>13 DEF WindowOK

\* When everything was committed.
LEMMA Cleared ==
  ASSUME NbaInv, phase = "serial", fast' = <<>>, queue' = <<>>,
         index' = [s \in Signals |-> 0], want' = [s \in Signals |-> NoValue],
         table' \in [Signals -> Values], UNCHANGED <<design, phase, threads, out>>
  PROVE  WindowOK'
<1>0. ThreadsOK /\ AssignedOK
  BY DEF NbaInv, WindowOK
<1>1. threads = {} /\ \A b \in Blocks : out[b] = <<>>
  BY <1>0 DEF ThreadsOK
<1>2. \A s : LastAt(<<>>, s) = 0 /\ \A d : Value(<<>>, s, d) = d
  BY OfNone
<1>3. IndexOK' /\ AssignedOK'
  BY <1>1, <1>2 DEF IndexOK, AssignedOK
<1>4. ThreadsOK'
  BY <1>0, <1>1 DEF ThreadsOK
<1>5. MeantOK'
  <2>1. ASSUME NEW s \in Signals
        PROVE  MeantBy(queue', s, table'[s], want'[s], Value(fast', s, table'[s]))
    <3>1. table'[s] \in Values
      OBVIOUS
    <3>2. Overlay(table'[s], want'[s]) = table'[s]
      BY <3>1, OverlayNone
    <3>3. Len(queue') = 0 /\ Value(fast', s, table'[s]) = table'[s]
      BY <1>2
    <3> QED
      BY <3>2, <3>3 DEF MeantBy, Ends
  <2> QED
    BY <1>1, <2>1 DEF MeantOK, Meant
<1> QED
  BY <1>3, <1>4, <1>5 DEF WindowOK

LEMMA CommitFastIs ==
  ASSUME NbaTypes, NEW tab \in Tables
  PROVE  /\ CommitFast(tab) \in Tables
         /\ \A s \in Signals : CommitFast(tab)[s] = Value(fast, s, tab[s])
<1>1. \A s \in Signals : Value(fast, s, tab[s]) \in Values
  BY ValueIs DEF NbaTypes, Tables
<1>2. CommitFast(tab) = [s \in Signals |-> Value(fast, s, tab[s])]
  BY DEF CommitFast, Value
<1> QED
  BY <1>1, <1>2 DEF Tables

LEMMA DueQueueIs ==
  ASSUME NbaTypes
  PROVE  /\ DueQueue \in Seq(Writes) /\ Len(DueQueue) = Len(Sifted(TRUE))
         /\ \A i \in 1 .. Len(Sifted(TRUE)) : DueQueue[i] = Sifted(TRUE)[i].write
<1> DEFINE f == Sifted(TRUE)
           r == DueQueue
<1>1. f \in Seq(DelayedWrites)
  BY SiftedIs DEF Picked
<1>2. r = [i \in DOMAIN f |-> f[i].write]
  BY DEF DueQueue
<1> HIDE DEF f, r
<1>3. DOMAIN f = 1 .. Len(f) /\ Len(f) \in Nat /\ \A i \in 1 .. Len(f) : f[i] \in DelayedWrites
  BY <1>1
<1>4. \A i \in 1 .. Len(f) : f[i].write \in Writes
  BY <1>3 DEF DelayedWrites
<1>5. r \in [1 .. Len(f) -> Writes] /\ DOMAIN r = 1 .. Len(f)
  BY <1>2, <1>3, <1>4
<1>6. r \in Seq(Writes)
  BY <1>3, <1>5, SeqDef
<1>7. Len(r) = Len(f)
  BY <1>3, <1>5, <1>6, LenProperties
<1> QED
  BY <1>2, <1>3, <1>6, <1>7 DEF f, r

LEMMA ApplyWindow ==
  ASSUME NbaInv, Apply
  PROVE  WindowOK' /\ NbaTypes'
<1>0. NbaTypes
  BY DEF NbaInv
<1>1. /\ phase = "serial" /\ fast' = <<>> /\ queue' = <<>>
      /\ index' = [s \in Signals |-> 0] /\ want' = [s \in Signals |-> NoValue]
      /\ UNCHANGED <<design, time, phase, threads, out>>
      /\ table' = CommitQueue(CommitFast(Matured.table), DueQueue \o queue)
      /\ delayed' = Matured.rest /\ delayedQueue' = Sifted(FALSE)
      /\ wantAt' = [p \in Signals \X Times |-> IF p[2] = time THEN NoValue ELSE wantAt[p]]
      /\ spoiled' = [s \in Signals |-> {}] /\ writes' = 0
  BY DEF Apply
<1>2. table' \in Tables
  <2>1. Matured.table \in Tables
    BY <1>0, MaturedIs
  <2> DEFINE tab == CommitFast(Matured.table)
             q == DueQueue \o queue
  <2>2. tab \in Tables
    BY <1>0, <2>1, CommitFastIs
  <2>3. q \in Seq(Writes)
    BY <1>0, DueQueueIs, NotQueued, ConcatProperties
  <2>4. table' = CommitQueue(tab, q)
    BY <1>1
  <2> HIDE DEF tab, q
  <2> QED
    BY <2>2, <2>3, <2>4, CommitEnds
<1>3. WindowOK'
  BY <1>1, <1>2, Cleared DEF Tables
<1>4. delayed' \in Seq(DelayedValues) /\ delayedQueue' \in Seq(DelayedWrites)
  <2>1. Matured.rest \in Seq(DelayedValues)
    BY <1>0, MaturedIs DEF Kept
  <2>2. Sifted(FALSE) \in Seq(DelayedWrites)
    BY <1>0, SiftedIs DEF Picked
  <2> QED
    BY <1>1, <2>1, <2>2
<1>5. NbaTypes'
  <2>1. NoValue \in Wanted
    BY DEF NoValue, Wanted
  <2>2. writes' \in 0 .. design'.limit
    BY <1>0, <1>1, NbaAssumption DEF NbaTypes, Design
  <2>3. wantAt' \in [Signals \X Times -> Wanted]
    BY <1>0, <1>1, <2>1 DEF NbaTypes
  <2>4. fast' \in Seq(Entries) /\ queue' \in Seq(Writes) /\ Len(fast') = 0
    BY <1>1
  <2> QED
    <3>1. /\ delayed' \in Seq([at : Times, id : Signals, val : Values])
          /\ delayedQueue' \in Seq([at : Times, write : Writes])
          /\ table' \in [Signals -> Values]
      BY <1>2, <1>4 DEF Tables, DelayedValues, DelayedWrites
    <3>2. index' \in [Signals -> 0 .. Len(fast')]
      BY <1>1, <2>4
    <3>3. want' \in [Signals -> Wanted] /\ spoiled' \in [Signals -> SUBSET Causes]
      BY <1>1, <2>1
    <3> QED
      BY <1>0, <1>1, <2>2, <2>3, <2>4, <3>1, <3>2, <3>3 DEF NbaTypes
<1> QED
  BY <1>3, <1>5

LEMMA AdvanceWindow ==
  ASSUME NbaInv, Advance
  PROVE  WindowOK' /\ NbaTypes'
<1>0. NbaTypes /\ IndexOK
  BY DEF NbaInv, WindowOK
<1>1. /\ phase = "serial" /\ NothingPending /\ time < design.last /\ time' = time + 1
      /\ want' = [s \in Signals |-> NoValue]
      /\ spoiled' = [s \in Signals |-> {}] /\ writes' = 0
      /\ UNCHANGED <<design, table, fast, index, queue, delayed, delayedQueue,
                     phase, threads, out, wantAt>>
  BY DEF Advance, fastVars
<1>2. fast' = <<>> /\ queue' = <<>>
  BY <1>1 DEF NothingPending
<1>3. index' = [s \in Signals |-> 0]
  <2>1. \A s \in Signals : index[s] = 0
    BY <1>0, <1>1, <1>2, OfNone DEF IndexOK
  <2> QED
    BY <1>0, <1>1, <2>1 DEF NbaTypes
<1>4. WindowOK'
  BY <1>0, <1>1, <1>2, <1>3, Cleared DEF NbaTypes
<1>5. NbaTypes'
  <2>1. NoValue \in Wanted
    BY DEF NoValue, Wanted
  <2>2. design.limit \in Nat /\ design.last \in 0 .. MaxTime /\ MaxTime \in Nat
    BY <1>0, NbaAssumption DEF NbaTypes, Design
  <2>3. writes' \in 0 .. design'.limit /\ time' \in Times
    BY <1>0, <1>1, <2>2 DEF NbaTypes, Times
  <2> QED
    BY <1>0, <1>1, <2>1, <2>3 DEF NbaTypes
<1> QED
  BY <1>4, <1>5
-----------------------------------------------------------------------------
(* The same of the delayed assignments.                                      *)

\* What DelayOK is about.
delayVars == <<delayed, delayedQueue, time, wantAt>>

LEMMA DelayKept ==
  ASSUME NbaInv, UNCHANGED delayVars
  PROVE  DelayOK'
BY DEF NbaInv, delayVars, DelayOK

\* One more in delayed_nba.
LEMMA BringsFast ==
  ASSUME NEW d \in Seq(DelayedValues), NEW q, NEW e \in DelayedValues,
         NEW s, NEW t, NEW u, Delivers(d, q, s, t, u)
  PROVE  Delivers(Append(d, e), q, s, t, IF InFast(e, s, t) THEN e.val ELSE u)
<1> DEFINE r == Append(d, e)
           n == Len(d)
<1>1. n \in Nat /\ Len(r) = n + 1 /\ r[n + 1] = e /\ \A i \in 1 .. n : r[i] = d[i]
  BY AppendProperties
<1> HIDE DEF r, n
<1>2. n + 1 \in 1 .. n + 1 /\ \A i \in 1 .. n : i \in 1 .. n + 1 /\ i # n + 1
  BY <1>1
<1>3. \A i \in 1 .. n + 1 : i \in 1 .. n \/ i = n + 1
  BY <1>1
<1>4. CASE InFast(e, s, t)
  <2>1. \A i \in 1 .. n + 1 : Alone(r, q, i, s, t) => i = n + 1
    BY <1>1, <1>2, <1>4 DEF Alone
  <2>2. InFast(r[n + 1], s, t)
    BY <1>1, <1>4
  <2>3. Delivers(r, q, s, t, e.val)
    BY <1>1, <1>2, <2>1, <2>2 DEF Delivers
  <2> QED
    BY <1>4, <2>3 DEF r
<1>5. CASE ~ InFast(e, s, t)
  <2>1. ASSUME NEW i \in 1 .. n + 1, Alone(r, q, i, s, t) PROVE u = r[i].val
    <3>1. i \in 1 .. n
      BY <1>1, <1>3, <1>5, <2>1 DEF Alone
    <3>2. Alone(d, q, i, s, t)
      BY <1>1, <1>2, <2>1, <3>1 DEF Alone, n
    <3> QED
      BY <1>1, <3>1, <3>2 DEF Delivers, n
  <2>2. (\A i \in 1 .. n + 1 : ~ InFast(r[i], s, t)) => \A i \in 1 .. n : ~ InFast(d[i], s, t)
    BY <1>1, <1>2
  <2>3. Delivers(r, q, s, t, u)
    BY <1>1, <2>1, <2>2 DEF Delivers, n
  <2> QED
    BY <1>5, <2>3 DEF r
<1> QED
  BY <1>4, <1>5

LEMMA ComesMore ==
  ASSUME NEW q, NEW n \in Nat, NEW s, NEW t, NEW b, NEW y, Comes(q, n, s, t, b, y),
         NEW r, \A i \in 1 .. n : r[i] = q[i]
  PROVE  Comes(r, n + 1, s, t, b,
               IF SetsAt(r[n + 1], s, t, b) THEN r[n + 1].write.val[b] ELSE y)
<1>1. \A i \in 1 .. n + 1 : i \in 1 .. n \/ i = n + 1
  OBVIOUS
<1>2. n + 1 \in 1 .. n + 1 /\ \A i \in 1 .. n : i \in 1 .. n + 1 /\ ~ (i > n + 1)
  OBVIOUS
<1>3. CASE SetsAt(r[n + 1], s, t, b)
  BY <1>1, <1>2, <1>3 DEF Comes
<1>4. CASE ~ SetsAt(r[n + 1], s, t, b)
  BY <1>1, <1>2, <1>4 DEF Comes
<1> QED
  BY <1>3, <1>4

\* One more in delayed_nba_queue.
LEMMA BringsQueue ==
  ASSUME NEW q \in Seq(DelayedWrites), NEW d, NEW e \in DelayedWrites,
         NEW s, NEW t, NEW u, Delivers(d, q, s, t, u)
  PROVE  Delivers(d, Append(q, e), s, t, IF InQueue(e, s, t) THEN Added(u, e.write) ELSE u)
<1> DEFINE r == Append(q, e)
           n == Len(q)
           x == IF InQueue(e, s, t) THEN Added(u, e.write) ELSE u
<1>1. n \in Nat /\ Len(r) = n + 1 /\ r[n + 1] = e /\ \A i \in 1 .. n : r[i] = q[i]
  BY AppendProperties
<1> HIDE DEF r, n, x
<1>2. n + 1 \in 1 .. n + 1 /\ \A i \in 1 .. n : i \in 1 .. n + 1
  BY <1>1
<1>3. ASSUME NEW i \in 1 .. Len(d), Alone(d, r, i, s, t) PROVE x = d[i].val
  <2>1. ~ InQueue(e, s, t)
    BY <1>1, <1>2, <1>3 DEF Alone
  <2>2. Alone(d, q, i, s, t)
    BY <1>1, <1>2, <1>3 DEF Alone, n
  <2> QED
    BY <2>1, <2>2 DEF Delivers, x
<1>4. ASSUME \A i \in 1 .. Len(d) : ~ InFast(d[i], s, t), NEW b \in Bits
      PROVE  Comes(r, n + 1, s, t, b, x[b])
  <2> DEFINE y == u[b]
  <2>1. Comes(q, n, s, t, b, y)
    BY <1>4 DEF Delivers, n
  <2> HIDE DEF y
  <2>2. Comes(r, n + 1, s, t, b, IF SetsAt(e, s, t, b) THEN e.write.val[b] ELSE y)
    BY <1>1, <2>1, ComesMore
  <2>3. x[b] = IF SetsAt(e, s, t, b) THEN e.write.val[b] ELSE y
    BY DEF SetsAt, Sets, InQueue, Added, x, y
  <2> QED
    BY <2>2, <2>3
<1>5. Delivers(d, r, s, t, x)
  BY <1>1, <1>3, <1>4 DEF Delivers
<1> QED
  BY <1>5 DEF r, x

LEMMA AssignDelayedDelay ==
  ASSUME NbaInv, AssignDelayed
  PROVE  DelayOK' /\ NbaTypes'
<1>0. NbaTypes /\ DelayOK
  BY DEF NbaInv
<1>1. PICK s \in Signals, v \in Values, t \in Times :
         /\ t > time
         /\ ScheduleDelayed(s, v, t)
         /\ wantAt' = IF table[s] = v /\ ~HasDelayed(s) THEN wantAt
                      ELSE [wantAt EXCEPT ![<<s, t>>] = v]
  BY DEF AssignDelayed
<1>2. UNCHANGED <<table, fast, index, queue, delayedQueue, want, spoiled, writes,
                  design, time, phase, threads, out>>
  BY DEF AssignDelayed, Frame, fastVars
<1>3. CASE table[s] = v /\ ~HasDelayed(s)
  <2>1. delayed' = delayed /\ wantAt' = wantAt
    BY <1>1, <1>3 DEF ScheduleDelayed
  <2> QED
    BY <1>0, <1>2, <2>1 DEF DelayOK, NbaTypes
<1>4. CASE ~ (table[s] = v /\ ~HasDelayed(s))
  <2> DEFINE e == [at |-> t, id |-> s, val |-> v]
             n == Len(delayed)
  <2>1. delayed' = Append(delayed, e) /\ wantAt' = [wantAt EXCEPT ![<<s, t>>] = v]
    BY <1>1, <1>4 DEF ScheduleDelayed
  <2>2. e \in DelayedValues /\ e.at = t /\ e.id = s /\ e.val = v
    BY DEF DelayedValues
  <2> HIDE DEF e
  <2>3. delayed \in Seq(DelayedValues) /\ n \in Nat
    BY <1>0, DelayedIs
  <2>4. /\ delayed' \in Seq(DelayedValues) /\ Len(delayed') = n + 1 /\ delayed'[n + 1] = e
        /\ \A i \in 1 .. n : delayed'[i] = delayed[i]
    BY <2>1, <2>2, <2>3, AppendProperties
  <2> HIDE DEF n
  <2>5. \A i \in 1 .. n + 1 : i \in 1 .. n \/ i = n + 1
    BY <2>3
  <2>6. n + 1 \in 1 .. n + 1 /\ \A i \in 1 .. n : i \in 1 .. n + 1
    BY <2>3
  <2>7. wantAt' \in [Signals \X Times -> Wanted]
    <3>1. v \in Wanted
      BY DEF Values, Wanted
    <3> QED
      BY <1>0, <2>1, <3>1 DEF NbaTypes
  <2>8. \A p \in Signals, x \in Times :
           wantAt'[<<p, x>>] = IF InFast(e, p, x) THEN v ELSE wantAt[<<p, x>>]
    <3>1. wantAt \in [Signals \X Times -> Wanted]
      BY <1>0 DEF NbaTypes
    <3>2. \A p \in Signals, x \in Times : InFast(e, p, x) <=> <<p, x>> = <<s, t>>
      BY <2>2 DEF InFast
    <3> QED
      BY <2>1, <3>1, <3>2
  <2>9. \A i \in 1 .. n + 1 : delayed'[i].at >= time
    <3>1. \A i \in 1 .. n : delayed[i].at >= time
      BY <1>0 DEF DelayOK, n
    <3>2. t >= time
      BY <1>0, <1>1 DEF NbaTypes, Times
    <3> QED
      BY <2>2, <2>4, <2>5, <3>1, <3>2
  <2>10. ASSUME NEW p \in Signals, NEW x \in Times
         PROVE  /\ wantAt'[<<p, x>>] # NoValue =>
                       x >= time /\ Awaited(delayed', delayedQueue, p, x)
                /\ Delivers(delayed', delayedQueue, p, x, wantAt'[<<p, x>>])
    <3>1. CASE InFast(e, p, x)
      <4>1. x >= time
        BY <1>0, <1>1, <2>2, <3>1 DEF NbaTypes, Times, InFast
      <4>2. Awaited(delayed', delayedQueue, p, x)
        BY <2>4, <2>6, <3>1 DEF Awaited
      <4> QED
        <5> DEFINE u == wantAt[<<p, x>>]
                   z == wantAt'[<<p, x>>]
        <5>1. Delivers(delayed, delayedQueue, p, x, u)
          BY <1>0 DEF DelayOK
        <5>2. z = IF InFast(e, p, x) THEN e.val ELSE u
          BY <2>2, <2>8
        <5> HIDE DEF u, z
        <5>3. Delivers(delayed', delayedQueue, p, x, z)
          BY <2>1, <2>2, <2>3, <5>1, <5>2, BringsFast
        <5> QED
          BY <4>1, <4>2, <5>3 DEF z
    <3>2. CASE ~ InFast(e, p, x)
      <4> DEFINE u == wantAt[<<p, x>>]
                 z == wantAt'[<<p, x>>]
      <4>1. /\ Delivers(delayed, delayedQueue, p, x, u)
            /\ u # NoValue => x >= time /\ Awaited(delayed, delayedQueue, p, x)
        BY <1>0 DEF DelayOK
      <4>2. z = u /\ z = IF InFast(e, p, x) THEN e.val ELSE u
        BY <2>8, <3>2
      <4> HIDE DEF u, z
      <4>3. Delivers(delayed', delayedQueue, p, x, z)
        BY <2>1, <2>2, <2>3, <4>1, <4>2, BringsFast
      <4>4. Awaited(delayed, delayedQueue, p, x) => Awaited(delayed', delayedQueue, p, x)
        BY <2>4, <2>6 DEF Awaited, n
      <4> QED
        BY <4>1, <4>2, <4>3, <4>4 DEF z
    <3> QED
      BY <3>1, <3>2
  <2>11. DelayOK'
    BY <1>0, <1>2, <2>4, <2>9, <2>10 DEF DelayOK
  <2>12. NbaTypes'
    BY <1>0, <1>2, <2>4, <2>7 DEF NbaTypes, DelayedValues
  <2> QED
    BY <2>11, <2>12
<1> QED
  BY <1>3, <1>4

LEMMA EnqueueDelayedDelay ==
  ASSUME NbaInv, EnqueueDelayed
  PROVE  DelayOK' /\ NbaTypes'
<1>0. NbaTypes /\ DelayOK
  BY DEF NbaInv
<1>1. PICK w \in Writes, t \in Times :
         /\ t > time
         /\ delayedQueue' = Append(delayedQueue, [at |-> t, write |-> w])
         /\ wantAt' = [wantAt EXCEPT ![<<w.id, t>>] = Added(wantAt[<<w.id, t>>], w)]
  BY DEF EnqueueDelayed, Added
<1>2. UNCHANGED <<table, fast, index, queue, delayed, want, spoiled, writes,
                  design, time, phase, threads, out>>
  BY DEF EnqueueDelayed, Frame, fastVars
<1> DEFINE e == [at |-> t, write |-> w]
           n == Len(delayedQueue)
<1>3. delayedQueue' = Append(delayedQueue, e)
  BY <1>1
<1>4. e \in DelayedWrites /\ e.at = t /\ e.write = w
  BY DEF DelayedWrites
<1> HIDE DEF e
<1>5. delayedQueue \in Seq(DelayedWrites) /\ n \in Nat /\ w.id \in Signals
      /\ wantAt \in [Signals \X Times -> Wanted]
  BY <1>0, DelayedQueueIs DEF Writes, NbaTypes
<1>6. /\ delayedQueue' \in Seq(DelayedWrites) /\ Len(delayedQueue') = n + 1
      /\ delayedQueue'[n + 1] = e
      /\ \A i \in 1 .. n : delayedQueue'[i] = delayedQueue[i]
  BY <1>3, <1>4, <1>5, AppendProperties
<1> HIDE DEF n
<1>7. \A i \in 1 .. n + 1 : i \in 1 .. n \/ i = n + 1
  BY <1>5
<1>8. n + 1 \in 1 .. n + 1 /\ \A i \in 1 .. n : i \in 1 .. n + 1
  BY <1>5
<1>9. <<w.id, t>> \in Signals \X Times /\ Added(wantAt[<<w.id, t>>], w) \in Wanted
  BY <1>5, AddedIs
<1>10. wantAt' \in [Signals \X Times -> Wanted]
  BY <1>1, <1>5, <1>9
<1>11. \A p \in Signals, x \in Times :
          wantAt'[<<p, x>>] = IF InQueue(e, p, x) THEN Added(wantAt[<<p, x>>], w)
                              ELSE wantAt[<<p, x>>]
  <2>1. \A p \in Signals, x \in Times : InQueue(e, p, x) <=> <<p, x>> = <<w.id, t>>
    BY <1>4 DEF InQueue
  <2> QED
    BY <1>1, <1>5, <2>1
<1>12. \A i \in 1 .. n + 1 : delayedQueue'[i].at >= time
  <2>1. \A i \in 1 .. n : delayedQueue[i].at >= time
    BY <1>0 DEF DelayOK, n
  <2>2. t >= time
    BY <1>0, <1>1 DEF NbaTypes, Times
  <2> QED
    BY <1>4, <1>6, <1>7, <2>1, <2>2
<1>13. ASSUME NEW p \in Signals, NEW x \in Times
       PROVE  /\ wantAt'[<<p, x>>] # NoValue =>
                     x >= time /\ Awaited(delayed, delayedQueue', p, x)
              /\ Delivers(delayed, delayedQueue', p, x, wantAt'[<<p, x>>])
  <2> DEFINE u == wantAt[<<p, x>>]
             z == wantAt'[<<p, x>>]
  <2>1. /\ Delivers(delayed, delayedQueue, p, x, u)
        /\ u # NoValue => x >= time /\ Awaited(delayed, delayedQueue, p, x)
    BY <1>0 DEF DelayOK
  <2>2. z = IF InQueue(e, p, x) THEN Added(u, e.write) ELSE u
    BY <1>4, <1>11
  <2> HIDE DEF u, z
  <2>3. Delivers(delayed, delayedQueue', p, x, z)
    BY <1>3, <1>4, <1>5, <2>1, <2>2, BringsQueue
  <2>4. z # NoValue => x >= time /\ Awaited(delayed, delayedQueue', p, x)
    <3>1. CASE InQueue(e, p, x)
      <4>1. x >= time
        BY <1>0, <1>1, <1>4, <3>1 DEF NbaTypes, Times, InQueue
      <4> QED
        BY <1>6, <1>8, <3>1, <4>1 DEF Awaited
    <3>2. CASE ~ InQueue(e, p, x)
      <4>1. Awaited(delayed, delayedQueue, p, x) => Awaited(delayed, delayedQueue', p, x)
        BY <1>6, <1>8 DEF Awaited, n
      <4> QED
        BY <2>1, <2>2, <3>2, <4>1
    <3> QED
      BY <3>1, <3>2
  <2> QED
    BY <2>3, <2>4 DEF z
<1>14. DelayOK'
  BY <1>0, <1>2, <1>6, <1>12, <1>13 DEF DelayOK
<1>15. NbaTypes'
  <2>1. delayedQueue' \in Seq([at : Times, write : Writes])
    BY <1>6 DEF DelayedWrites
  <2> QED
    BY <1>0, <1>2, <1>10, <2>1 DEF NbaTypes
<1> QED
  BY <1>14, <1>15

\* What is picked brings, of what lands at t, the same.
LEMMA ComesPicked ==
  ASSUME NEW r, NEW m, NEW q, NEW n \in Nat, NEW due, Picked(r, m, q, n, due),
         NEW t, Due(t) = due, NEW s, NEW b, NEW y, Comes(q, n, s, t, b, y)
  PROVE  Comes(r, Len(r), s, t, b, y)
<1> DEFINE l == Len(r)
<1>1. /\ l \in Nat /\ m \in [1 .. l -> 1 .. n]
      /\ \A i, j \in 1 .. l : i < j => m[i] < m[j]
      /\ \A j \in 1 .. l : r[j] = q[m[j]]
      /\ \A i \in 1 .. n : Fits(q[i], due) => \E j \in 1 .. l : m[j] = i
  BY DEF Picked
<1>2. \A i \in 1 .. n : SetsAt(q[i], s, t, b) => Fits(q[i], due)
  BY DEF SetsAt, Fits
<1> HIDE DEF l
<1>3. CASE y = None /\ \A i \in 1 .. n : ~ SetsAt(q[i], s, t, b)
  <2>1. \A j \in 1 .. l : ~ SetsAt(r[j], s, t, b)
    BY <1>1, <1>3
  <2> QED
    BY <1>3, <2>1 DEF Comes, l
<1>4. ASSUME NEW i \in 1 .. n, SetsAt(q[i], s, t, b), y = q[i].write.val[b],
             \A j \in 1 .. n : j > i => ~ SetsAt(q[j], s, t, b)
      PROVE  Comes(r, l, s, t, b, y)
  <2>1. PICK j \in 1 .. l : m[j] = i
    BY <1>1, <1>2, <1>4
  <2>2. r[j] = q[i]
    BY <1>1, <2>1
  <2>3. ASSUME NEW k \in 1 .. l, k > j PROVE ~ SetsAt(r[k], s, t, b)
    <3>1. m[k] \in 1 .. n /\ m[k] > i
      BY <1>1, <2>1, <2>3
    <3> QED
      BY <1>1, <1>4, <3>1
  <2> QED
    BY <1>4, <2>2, <2>3 DEF Comes
<1> QED
  BY <1>3, <1>4 DEF Comes, l

LEMMA BringsLeft ==
  ASSUME NbaTypes, NEW r, NEW m, Kept(r, m, Len(delayed)),
         NEW f, NEW h, Picked(f, h, delayedQueue, Len(delayedQueue), FALSE),
         NEW s, NEW t \in Times, ~ Due(t), NEW u, Delivers(delayed, delayedQueue, s, t, u)
  PROVE  /\ Delivers(r, f, s, t, u)
         /\ Awaited(delayed, delayedQueue, s, t) => Awaited(r, f, s, t)
<1> DEFINE n == Len(delayed)
           k == Len(delayedQueue)
<1>1. /\ m \in [1 .. Len(r) -> 1 .. n] /\ \A j \in 1 .. Len(r) : r[j] = delayed[m[j]]
      /\ \A i \in 1 .. n : ~ Due(delayed[i].at) => \E j \in 1 .. Len(r) : m[j] = i
  BY DEF Kept
<1>2. /\ h \in [1 .. Len(f) -> 1 .. k] /\ \A j \in 1 .. Len(f) : f[j] = delayedQueue[h[j]]
      /\ \A i \in 1 .. k : ~ Due(delayedQueue[i].at) => \E j \in 1 .. Len(f) : h[j] = i
  <2>1. \A i \in 1 .. k : ~ Due(delayedQueue[i].at) => Fits(delayedQueue[i], FALSE)
    BY DEF Fits
  <2> QED
    BY <2>1 DEF Picked
<1>3. \A i \in 1 .. n : InFast(delayed[i], s, t) => ~ Due(delayed[i].at)
  BY DEF InFast
<1>4. \A i \in 1 .. k : InQueue(delayedQueue[i], s, t) => ~ Due(delayedQueue[i].at)
  BY DEF InQueue
<1>5. k \in Nat
  BY DelayedQueueIs
<1>6. \A i \in 1 .. n : InFast(delayed[i], s, t) =>
                           \E j \in 1 .. Len(r) : m[j] = i /\ InFast(r[j], s, t)
  BY <1>1, <1>3
<1>7. \A i \in 1 .. k : InQueue(delayedQueue[i], s, t) =>
                           \E j \in 1 .. Len(f) : h[j] = i /\ InQueue(f[j], s, t)
  BY <1>2, <1>4
<1> HIDE DEF n, k
<1>8. ASSUME NEW j \in 1 .. Len(r), Alone(r, f, j, s, t) PROVE u = r[j].val
  <2>1. m[j] \in 1 .. n /\ r[j] = delayed[m[j]]
    BY <1>1
  <2>2. InFast(delayed[m[j]], s, t)
    BY <1>8, <2>1 DEF Alone
  <2>3. \A i \in 1 .. n : InFast(delayed[i], s, t) => i = m[j]
    BY <1>6, <1>8 DEF Alone
  <2>4. \A i \in 1 .. k : ~ InQueue(delayedQueue[i], s, t)
    BY <1>7, <1>8 DEF Alone
  <2>5. Alone(delayed, delayedQueue, m[j], s, t)
    BY <2>2, <2>3, <2>4 DEF Alone, n, k
  <2> QED
    BY <2>1, <2>5 DEF Delivers, n
<1>9. ASSUME \A j \in 1 .. Len(r) : ~ InFast(r[j], s, t), NEW b \in Bits
      PROVE  Comes(f, Len(f), s, t, b, u[b])
  <2>1. \A i \in 1 .. n : ~ InFast(delayed[i], s, t)
    BY <1>6, <1>9
  <2> DEFINE y == u[b]
  <2>2. Comes(delayedQueue, k, s, t, b, y)
    BY <2>1 DEF Delivers, n, k
  <2> HIDE DEF y
  <2>3. Due(t) = FALSE /\ Picked(f, h, delayedQueue, k, FALSE)
    <3>1. t \in Nat /\ time \in Nat
      BY NbaAssumption DEF NbaTypes, Times
    <3>2. Due(t) \in BOOLEAN
      BY <3>1 DEF Due
    <3> QED
      BY <3>2 DEF k
  <2>4. Comes(f, Len(f), s, t, b, y)
    BY <1>5, <2>2, <2>3, ComesPicked
  <2> QED
    BY <2>4 DEF y
<1>10. Awaited(delayed, delayedQueue, s, t) => Awaited(r, f, s, t)
  BY <1>6, <1>7 DEF Awaited, n, k
<1> QED
  BY <1>8, <1>9, <1>10 DEF Delivers

LEMMA AtTimes ==
  ASSUME NEW r, r \in Seq(DelayedValues) \/ r \in Seq(DelayedWrites),
         NEW i \in 1 .. Len(r)
  PROVE  r[i].at \in Times
<1>1. r[i] \in DelayedValues \/ r[i] \in DelayedWrites
  BY ElementOfSeq
<1> QED
  BY <1>1 DEF DelayedValues, DelayedWrites

LEMMA ApplyDelay ==
  ASSUME NbaInv, Apply
  PROVE  DelayOK'
<1>0. NbaTypes /\ DelayOK /\ time \in Nat /\ Times \subseteq Nat
  BY DEF NbaInv, NbaTypes, Times
<1>1. /\ time' = time /\ delayed' = Matured.rest /\ delayedQueue' = Sifted(FALSE)
      /\ wantAt' = [p \in Signals \X Times |-> IF p[2] = time THEN NoValue ELSE wantAt[p]]
  BY DEF Apply
<1>2. PICK m : Kept(delayed', m, Len(delayed))
  BY <1>0, <1>1, MaturedIs
<1>3. PICK h : Picked(delayedQueue', h, delayedQueue, Len(delayedQueue), FALSE)
  BY <1>0, <1>1, SiftedIs
<1>4. ASSUME NEW i \in 1 .. Len(delayed') PROVE delayed'[i].at > time /\ delayed'[i].at >= time
  <2>1. delayed' \in Seq(DelayedValues) /\ ~ Due(delayed'[i].at)
    BY <1>2 DEF Kept
  <2>2. delayed'[i].at \in Times
    BY <2>1, AtTimes
  <2>3. PICK a \in Nat : a = delayed'[i].at
    BY <1>0, <2>2
  <2>4. ~ (a <= time)
    BY <2>1, <2>3 DEF Due
  <2>5. a > time /\ a >= time
    BY <1>0, <2>4
  <2> QED
    BY <2>3, <2>5
<1>5. ASSUME NEW i \in 1 .. Len(delayedQueue')
      PROVE  delayedQueue'[i].at > time /\ delayedQueue'[i].at >= time
  <2>1. /\ delayedQueue' \in Seq(DelayedWrites)
        /\ delayedQueue'[i] = delayedQueue[h[i]] /\ Fits(delayedQueue[h[i]], FALSE)
    BY <1>3 DEF Picked
  <2>2. delayedQueue'[i].at \in Times
    BY <2>1, AtTimes
  <2>3. ~ Due(delayedQueue'[i].at)
    BY <2>1 DEF Fits
  <2>4. PICK a \in Nat : a = delayedQueue'[i].at
    BY <1>0, <2>2
  <2>5. ~ (a <= time)
    BY <2>3, <2>4 DEF Due
  <2>6. a > time /\ a >= time
    BY <1>0, <2>5
  <2> QED
    BY <2>4, <2>6
<1>6. ASSUME NEW s \in Signals, NEW t \in Times
      PROVE  /\ wantAt'[<<s, t>>] # NoValue =>
                    t >= time /\ Awaited(delayed', delayedQueue', s, t)
             /\ Delivers(delayed', delayedQueue', s, t, wantAt'[<<s, t>>])
  <2> DEFINE u == wantAt[<<s, t>>]
             z == wantAt'[<<s, t>>]
  <2>1. /\ Delivers(delayed, delayedQueue, s, t, u)
        /\ u # NoValue => t >= time /\ Awaited(delayed, delayedQueue, s, t)
    BY <1>0 DEF DelayOK
  <2>2. z = IF t = time THEN NoValue ELSE u
    BY <1>1
  <2> HIDE DEF u, z
  <2>3. CASE t > time
    <3>1. ~ Due(t) /\ z = u
      BY <1>0, <2>2, <2>3 DEF Due
    <3>2. /\ Delivers(delayed', delayedQueue', s, t, u)
          /\ Awaited(delayed, delayedQueue, s, t) => Awaited(delayed', delayedQueue', s, t)
      BY <1>0, <1>2, <1>3, <2>1, <3>1, BringsLeft
    <3> QED
      BY <2>1, <3>1, <3>2 DEF z
  <2>4. CASE ~ (t > time)
    <3>1. z = NoValue
      BY <1>0, <2>1, <2>2, <2>4
    <3>2. \A i \in 1 .. Len(delayed') : ~ InFast(delayed'[i], s, t)
      BY <1>4, <2>4 DEF InFast
    <3>3. \A i \in 1 .. Len(delayedQueue'), b \in Bits :
             ~ SetsAt(delayedQueue'[i], s, t, b)
      BY <1>5, <2>4 DEF SetsAt
    <3>4. \A b \in Bits : NoValue[b] = None
      BY DEF NoValue
    <3> QED
      BY <3>1, <3>2, <3>3, <3>4 DEF Delivers, Alone, Comes, z
  <2> QED
    BY <2>3, <2>4
<1> QED
  BY <1>1, <1>4, <1>5, <1>6 DEF DelayOK

LEMMA AdvanceDelay ==
  ASSUME NbaInv, Advance
  PROVE  DelayOK'
<1>0. NbaTypes /\ DelayOK /\ time \in Nat /\ Times \subseteq Nat
  BY DEF NbaInv, NbaTypes, Times
<1>1. /\ NothingPending /\ time' = time + 1
      /\ UNCHANGED <<delayed, delayedQueue, wantAt>>
  BY DEF Advance
<1>2. \A i \in 1 .. Len(delayed) : delayed[i].at >= time + 1
  <2>1. \A i \in 1 .. Len(delayed) : delayed[i].at \in Nat /\ ~ (delayed[i].at <= time)
    BY <1>0, <1>1, DelayedIs DEF NothingPending, Due, DelayedValues
  <2> QED
    BY <1>0, <2>1
<1>3. \A i \in 1 .. Len(delayedQueue) : delayedQueue[i].at >= time + 1
  <2>1. \A i \in 1 .. Len(delayedQueue) :
           delayedQueue[i].at \in Nat /\ ~ (delayedQueue[i].at <= time)
    BY <1>0, <1>1, DelayedQueueIs DEF NothingPending, Due, DelayedWrites
  <2> QED
    BY <1>0, <2>1
<1>4. \A s \in Signals, t \in Times :
         Awaited(delayed, delayedQueue, s, t) => t >= time + 1
  BY <1>2, <1>3 DEF Awaited, InFast, InQueue
<1> QED
  BY <1>0, <1>1, <1>2, <1>3, <1>4 DEF DelayOK
-----------------------------------------------------------------------------
(***************************************************************************)
(* The theorems.                                                           *)
(***************************************************************************)
LEMMA NbaNextOK == NbaInv /\ [NbaNext]_nbaVars => NbaInv'
<1> SUFFICES ASSUME NbaInv, [NbaNext]_nbaVars PROVE NbaInv'
  OBVIOUS
<1> USE DEF NbaInv
<1>1. CASE Assign
  <2>1. UNCHANGED delayVars
    BY <1>1 DEF Assign, Frame, delayVars
  <2> QED
    BY <1>1, <2>1, AssignWindow, DelayKept
<1>2. CASE Enqueue
  <2>1. UNCHANGED delayVars
    BY <1>2 DEF Enqueue, Frame, delayVars
  <2> QED
    BY <1>2, <2>1, EnqueueWindow, DelayKept
<1>3. CASE AssignBlocking
  <2>1. UNCHANGED delayVars
    BY <1>3 DEF AssignBlocking, Frame, delayVars
  <2> QED
    BY <1>3, <2>1, BlockingWindow, DelayKept
<1>4. CASE AssignDelayed
  <2>1. UNCHANGED windowVars
    BY <1>4 DEF AssignDelayed, Frame, windowVars, fastVars
  <2> QED
    BY <1>4, <2>1, AssignDelayedDelay, WindowKept
<1>5. CASE EnqueueDelayed
  <2>1. UNCHANGED windowVars
    BY <1>5 DEF EnqueueDelayed, Frame, windowVars, fastVars
  <2> QED
    BY <1>5, <2>1, EnqueueDelayedDelay, WindowKept
<1>6. CASE Dispatch
  <2>1. UNCHANGED delayVars
    BY <1>6 DEF Dispatch, delayVars
  <2> QED
    BY <1>6, <2>1, DispatchWindow, DelayKept
<1>7. CASE ThreadAssigns
  <2>1. UNCHANGED delayVars
    BY <1>7 DEF ThreadAssigns, delayVars
  <2> QED
    BY <1>7, <2>1, ThreadAssignsWindow, DelayKept
<1>8. CASE ThreadsEnd
  <2>1. UNCHANGED delayVars
    BY <1>8 DEF ThreadsEnd, delayVars
  <2> QED
    BY <1>8, <2>1, ThreadsEndWindow, DelayKept
<1>9. CASE MergeThread
  <2>1. UNCHANGED delayVars
    BY <1>9 DEF MergeThread, delayVars
  <2> QED
    BY <1>9, <2>1, MergeWindow, DelayKept
<1>10. CASE Apply
  BY <1>10, ApplyWindow, ApplyDelay
<1>11. CASE Advance
  BY <1>11, AdvanceWindow, AdvanceDelay
<1>12. CASE UNCHANGED nbaVars
  <2>1. UNCHANGED delayVars /\ UNCHANGED windowVars
    BY <1>12 DEF nbaVars, delayVars, windowVars
  <2>2. NbaTypes'
    BY <1>12 DEF nbaVars, NbaTypes
  <2> QED
    BY <2>1, <2>2, WindowKept, DelayKept
<1> QED
  BY <1>1, <1>2, <1>3, <1>4, <1>5, <1>6, <1>7, <1>8, <1>9, <1>10, <1>11, <1>12
  DEF NbaNext

LEMMA NbaInvHolds == NbaSpec => []NbaInv
<1>1. NbaInit => NbaInv
  BY NbaInitOK
<1>2. NbaInv /\ [NbaNext]_nbaVars => NbaInv'
  BY NbaNextOK
<1> QED
  BY <1>1, <1>2, PTL DEF NbaSpec

LEMMA InvIsMeant == NbaInv => QueuesAreMeant
<1> SUFFICES ASSUME NbaInv PROVE QueuesAreMeant
  OBVIOUS
<1>0. NbaTypes /\ ThreadsOK /\ MeantOK /\ DelayOK
  BY DEF NbaInv, WindowOK
<1>1. PendingIsMeant
  <2>1. ASSUME phase = "serial", NEW s \in Signals, spoiled[s] = {}, ~ IsQueued(s)
        PROVE  Pending(s) = Overlay(table[s], want[s])
    <3> DEFINE d == table[s]
               u == want[s]
               v == Value(fast, s, d)
    <3>1. MeantBy(queue, s, d, u, v)
      BY <1>0, <2>1 DEF ThreadsOK, MeantOK, Meant
    <3>2. d \in Values /\ fast \in Seq(Entries)
      BY <1>0 DEF NbaTypes
    <3>3. Without(queue, s) /\ Len(queue) \in Nat
      BY <1>0, <2>1, NotQueued
    <3>4. Pending(s) = v
      BY DEF Pending, Value
    <3>5. v \in Values
      <4> HIDE DEF d
      <4> QED
        BY <3>2, ValueIs
    <3> HIDE DEF d, u, v
    <3>6. v = Overlay(d, u)
      BY <3>1, <3>2, <3>3, <3>5, MeantNone
    <3> QED
      BY <3>4, <3>6 DEF d, u
  <2> QED
    BY <2>1 DEF PendingIsMeant
<1>2. DelayedOnTime
  <2>1. DOMAIN delayed = 1 .. Len(delayed) /\ DOMAIN delayedQueue = 1 .. Len(delayedQueue)
    BY <1>0, DelayedIs, DelayedQueueIs
  <2> QED
    BY <1>0, <2>1 DEF DelayedOnTime, DelayOK, Awaited, InFast, InQueue
<1> QED
  BY <1>0, <1>1, <1>2 DEF QueuesAreMeant

\* Between the steps nba_fast says what the assignments of the window made so far
\* say, and delayed_nba and delayed_nba_queue have what is due later, for any signals,
\* blocks and designs (bytecode_runtime.rs:3758, process_scopes.rs:3408).
THEOREM QueuesMeant == NbaSpec => []QueuesAreMeant
BY NbaInvHolds, InvIsMeant, PTL

-----------------------------------------------------------------------------
(* The NBA region.                                                           *)

\* Nothing that is due is for s.
NoFastDue(s)  == \A i \in 1 .. Len(delayed) : ~ IsDue(i, s)
NoQueueDue(s) == \A i \in 1 .. Len(delayedQueue) :
                    delayedQueue[i].write.id = s => ~ Due(delayedQueue[i].at)
OneFastDue(s) == \E i \in 1 .. Len(delayed) :
                    IsDue(i, s) /\ \A j \in 1 .. Len(delayed) : IsDue(j, s) => j = i

LEMMA FewIs ==
  ASSUME NEW n \in Nat, NEW S \in SUBSET (1 .. n)
  PROVE  /\ Cardinality(S) \in Nat
         /\ Cardinality(S) = 0 => S = {}
         /\ Cardinality(S) = 1 => \E x : S = {x}
<1>1. IsFiniteSet(S)
  <2>1. IsFiniteSet(1 .. n)
    BY FS_Interval
  <2> QED
    BY <2>1, FS_Subset
<1>2. Cardinality(S) \in Nat
  BY <1>1, FS_CardinalityType
<1>3. Cardinality(S) = 0 => S = {}
  BY <1>1, FS_EmptySet
<1>4. Cardinality(S) = 1 => \E x : S = {x}
  BY <1>1, FS_Singleton
<1> QED
  BY <1>2, <1>3, <1>4

LEMMA DueCases ==
  ASSUME NbaTypes, NEW s, ~ MeetsDelayed(s)
  PROVE  \/ NoFastDue(s) /\ NoQueueDue(s)
         \/ want[s] = NoValue /\ NoQueueDue(s) /\ OneFastDue(s)
         \/ want[s] = NoValue /\ NoFastDue(s)
<1> DEFINE F == {i \in DOMAIN delayed : delayed[i].id = s /\ Due(delayed[i].at)}
           Q == {i \in DOMAIN delayedQueue :
                    delayedQueue[i].write.id = s /\ Due(delayedQueue[i].at)}
           n == Len(delayed)
           k == Len(delayedQueue)
           f == Cardinality(F)
           q == Cardinality(Q)
<1>1. /\ n \in Nat /\ F \in SUBSET (1 .. n) /\ k \in Nat /\ Q \in SUBSET (1 .. k)
      /\ DOMAIN delayed = 1 .. n /\ DOMAIN delayedQueue = 1 .. k
  BY DelayedIs, DelayedQueueIs
<1>2. /\ DueOf(s) = [fast |-> f, queue |-> q]
  BY DEF DueOf
<1>3. F = {} => NoFastDue(s)
  BY <1>1 DEF NoFastDue, IsDue
<1>4. Q = {} => NoQueueDue(s)
  BY <1>1 DEF NoQueueDue
<1>5. (\E x : F = {x}) => OneFastDue(s)
  <2>1. ASSUME NEW x, F = {x} PROVE OneFastDue(s)
    <3>1. x \in F /\ \A j \in F : j = x
      BY <2>1
    <3>2. x \in 1 .. n /\ IsDue(x, s) /\ \A j \in 1 .. n : IsDue(j, s) => j = x
      BY <1>1, <3>1 DEF IsDue
    <3> QED
      BY <3>2 DEF OneFastDue
  <2> QED
    BY <2>1
<1> HIDE DEF F, Q, n, k
<1>6. /\ f \in Nat /\ (f = 0 => F = {}) /\ (f = 1 => \E x : F = {x})
      /\ q \in Nat /\ (q = 0 => Q = {})
  BY <1>1, FewIs
<1> HIDE DEF f, q
<1>7. /\ want[s] # NoValue => f = 0 /\ q = 0
      /\ ~ (f > 1) /\ ~ (f > 0 /\ q > 0)
  <2>1. DueOf(s).fast = f /\ DueOf(s).queue = q
    BY <1>2
  <2>2. DueOf(s) = [fast |-> 0, queue |-> 0] => f = 0 /\ q = 0
    BY <2>1
  <2> QED
    BY <2>1, <2>2 DEF MeetsDelayed, Assigned
<1>8. (f = 0 \/ f = 1) /\ (f = 1 => q = 0)
  BY <1>6, <1>7
<1> QED
  BY <1>3, <1>4, <1>5, <1>6, <1>7, <1>8

\* Of two queues in a row only one that assigns s counts.
LEMMA EndsSecond ==
  ASSUME NEW d \in Seq(Writes), NEW q \in Seq(Writes), NEW s, Without(d, s),
         NEW b, NEW x, NEW y, Ends(d \o q, Len(d \o q), s, b, x, y)
  PROVE  Ends(q, Len(q), s, b, x, y)
<1> DEFINE r == d \o q
           m == Len(d)
           n == Len(q)
<1>1. /\ m \in Nat /\ n \in Nat /\ Len(r) = m + n
      /\ \A i \in 1 .. m + n : r[i] = IF i <= m THEN d[i] ELSE q[i - m]
  BY ConcatProperties, LenProperties
<1>2. Ends(r, m + n, s, b, x, y)
  BY <1>1
<1>3. \A i \in 1 .. m : ~ Sets(d[i], s, b)
  BY DEF Without, Sets
<1> HIDE DEF r, m, n
<1>4. \A i \in 1 .. n : m + i \in 1 .. m + n /\ r[m + i] = q[i]
  <2>1. ASSUME NEW i \in 1 .. n PROVE m + i \in 1 .. m + n /\ r[m + i] = q[i]
    <3>1. m + i \in 1 .. m + n /\ ~ (m + i <= m) /\ (m + i) - m = i
      BY <1>1
    <3> QED
      BY <1>1, <3>1
  <2> QED
    BY <2>1
<1>5. \A i \in 1 .. m + n : Sets(r[i], s, b) =>
         i - m \in 1 .. n /\ m + (i - m) = i /\ r[i] = q[i - m]
  <2>1. ASSUME NEW i \in 1 .. m + n, Sets(r[i], s, b)
        PROVE  i - m \in 1 .. n /\ m + (i - m) = i /\ r[i] = q[i - m]
    <3>1. ~ (i <= m)
      BY <1>1, <1>3, <2>1
    <3>2. i - m \in 1 .. n /\ m + (i - m) = i
      BY <1>1, <3>1
    <3> QED
      BY <1>1, <3>1, <3>2
  <2> QED
    BY <2>1
<1>6. CASE y = x /\ \A i \in 1 .. m + n : ~ Sets(r[i], s, b)
  <2>1. \A i \in 1 .. n : ~ Sets(q[i], s, b)
    BY <1>4, <1>6
  <2> QED
    BY <1>6, <2>1 DEF Ends, n
<1>7. ASSUME NEW i \in 1 .. m + n, Sets(r[i], s, b), y = r[i].val[b],
             \A j \in 1 .. m + n : j > i => ~ Sets(r[j], s, b)
      PROVE  Ends(q, n, s, b, x, y)
  <2>1. i - m \in 1 .. n /\ r[i] = q[i - m] /\ m + (i - m) = i
    BY <1>5, <1>7
  <2>2. ASSUME NEW j \in 1 .. n, j > i - m PROVE ~ Sets(q[j], s, b)
    <3>1. m + j \in 1 .. m + n /\ r[m + j] = q[j] /\ m + j > i
      BY <1>1, <1>4, <2>1, <2>2
    <3> QED
      BY <1>7, <3>1
  <2> QED
    BY <1>7, <2>1, <2>2 DEF Ends
<1>8. Ends(q, n, s, b, x, y)
  BY <1>2, <1>6, <1>7 DEF Ends, n
<1> QED
  BY <1>8 DEF n

LEMMA EndsFirst ==
  ASSUME NEW d \in Seq(Writes), NEW q \in Seq(Writes), NEW s, Without(q, s),
         NEW b, NEW x, NEW y, Ends(d \o q, Len(d \o q), s, b, x, y)
  PROVE  Ends(d, Len(d), s, b, x, y)
<1> DEFINE r == d \o q
           m == Len(d)
           n == Len(q)
<1>1. /\ m \in Nat /\ n \in Nat /\ Len(r) = m + n
      /\ \A i \in 1 .. m + n : r[i] = IF i <= m THEN d[i] ELSE q[i - m]
  BY ConcatProperties, LenProperties
<1>2. Ends(r, m + n, s, b, x, y)
  BY <1>1
<1>3. \A i \in 1 .. n : ~ Sets(q[i], s, b)
  BY DEF Without, Sets
<1> HIDE DEF r, m, n
<1>4. \A i \in 1 .. m : i \in 1 .. m + n /\ r[i] = d[i]
  BY <1>1
<1>5. \A i \in 1 .. m + n : Sets(r[i], s, b) => i \in 1 .. m
  <2>1. ASSUME NEW i \in 1 .. m + n, ~ (i <= m) PROVE ~ Sets(r[i], s, b)
    <3>1. i - m \in 1 .. n
      BY <1>1, <2>1
    <3> QED
      BY <1>1, <1>3, <2>1, <3>1
  <2>2. \A i \in 1 .. m + n : i <= m => i \in 1 .. m
    BY <1>1
  <2> QED
    BY <2>1, <2>2
<1> QED
  BY <1>2, <1>4, <1>5 DEF Ends, m

\* What the delayed assignments that are due do to a signal.
LEMMA ComesEnds ==
  ASSUME NbaInv, NEW s, NEW b \in Bits, NEW u,
         Comes(Sifted(TRUE), Len(Sifted(TRUE)), s, time, b, u), NEW x
  PROVE  Ends(DueQueue, Len(DueQueue), s, b, x, IF u = None THEN x ELSE u)
<1> DEFINE f == Sifted(TRUE)
           n == Len(f)
           d == DueQueue
<1>0. NbaTypes /\ DelayOK
  BY DEF NbaInv
<1>1. /\ Len(d) = n /\ f \in Seq(DelayedWrites)
      /\ \A i \in 1 .. n : d[i] = f[i].write
  BY <1>0, DueQueueIs, SiftedIs DEF Picked
<1>2. PICK m : Picked(f, m, delayedQueue, Len(delayedQueue), TRUE)
  BY <1>0, SiftedIs
<1> HIDE DEF f, n, d
<1>3. ASSUME NEW i \in 1 .. n PROVE f[i].at = time /\ f[i].write \in Writes
  <2>1. i \in 1 .. Len(f)
    BY DEF n
  <2>2. /\ m[i] \in 1 .. Len(delayedQueue) /\ f[i] = delayedQueue[m[i]]
        /\ Fits(delayedQueue[m[i]], TRUE)
    BY <1>2, <2>1 DEF Picked
  <2>3. f[i].at >= time /\ Due(f[i].at) /\ f[i] \in DelayedWrites
    BY <1>0, <2>2, DelayedQueueIs DEF DelayOK, Fits
  <2>4. f[i].at \in Nat /\ time \in Nat
    BY <1>0, <2>3 DEF DelayedWrites, Times, NbaTypes
  <2> QED
    BY <2>3, <2>4 DEF Due, DelayedWrites
<1>4. \A i \in 1 .. n : SetsAt(f[i], s, time, b) <=> Sets(d[i], s, b)
  BY <1>1, <1>3 DEF SetsAt
<1>5. \A i \in 1 .. n : f[i].write.val[b] # None
  <2>1. \A w \in Writes : w.val[b] # None
    BY NbaAssumption DEF Writes, Values
  <2> QED
    BY <1>3, <2>1
<1>6. Comes(f, n, s, time, b, u)
  BY DEF f, n
<1>7. CASE u = None /\ \A i \in 1 .. n : ~ SetsAt(f[i], s, time, b)
  <2>1. \A i \in 1 .. n : ~ Sets(d[i], s, b)
    BY <1>4, <1>7
  <2> QED
    BY <1>1, <1>7, <2>1 DEF Ends, d
<1>8. ASSUME NEW i \in 1 .. n, SetsAt(f[i], s, time, b), u = f[i].write.val[b],
             \A j \in 1 .. n : j > i => ~ SetsAt(f[j], s, time, b)
      PROVE  Ends(d, n, s, b, x, u) /\ u # None
  BY <1>1, <1>4, <1>5, <1>8 DEF Ends
<1> QED
  BY <1>1, <1>6, <1>7, <1>8 DEF Comes, d

LEMMA OverlayWhole ==
  ASSUME NEW v, NEW u \in Values
  PROVE  Overlay(v, u) = u
BY NbaAssumption DEF Overlay, Values

\* Two values with the same bits.
LEMMA SameBits ==
  ASSUME NEW v \in Values, NEW x, NEW u, \A b \in Bits : v[b] = Overlay(x, u)[b]
  PROVE  v = Overlay(x, u)
<1>1. v = [b \in Bits |-> v[b]] /\ Overlay(x, u) = [b \in Bits |-> Overlay(x, u)[b]]
  BY DEF Values, Overlay
<1> QED
  BY <1>1

\* No delayed assignment is expected where none is due.
LEMMA NotAwaited ==
  ASSUME NbaInv, NEW s \in Signals, NoFastDue(s), NoQueueDue(s)
  PROVE  wantAt[<<s, time>>] = NoValue
<1>1. NbaTypes /\ DelayOK /\ time \in Times /\ time \in Nat
  BY DEF NbaInv, NbaTypes, Times
<1>2. Due(time)
  BY <1>1 DEF Due
<1>3. ~ Awaited(delayed, delayedQueue, s, time)
  BY <1>2 DEF Awaited, InFast, InQueue, NoFastDue, NoQueueDue, IsDue
<1> QED
  BY <1>1, <1>3 DEF DelayOK

LEMMA DueWithout ==
  ASSUME NbaTypes, NEW s, NoQueueDue(s)
  PROVE  Without(DueQueue, s)
<1> DEFINE f == Sifted(TRUE)
<1>1. PICK m : Picked(f, m, delayedQueue, Len(delayedQueue), TRUE)
  BY SiftedIs
<1>2. Len(DueQueue) = Len(f) /\ \A i \in 1 .. Len(f) : DueQueue[i] = f[i].write
  BY DueQueueIs
<1> HIDE DEF f
<1>3. ASSUME NEW i \in 1 .. Len(f) PROVE f[i].write.id # s
  <2>1. /\ m[i] \in 1 .. Len(delayedQueue) /\ f[i] = delayedQueue[m[i]]
        /\ Fits(delayedQueue[m[i]], TRUE)
    BY <1>1 DEF Picked
  <2> QED
    BY <2>1 DEF NoQueueDue, Fits
<1> QED
  BY <1>2, <1>3 DEF Without

\* What the NBA region leaves in s, for the three ways in which what is due and
\* what was assigned can come together.
Leaves(tab, s) ==
    /\ table'[s] \in Values /\ tab[s] = Value(fast, s, Matured.table[s])
    /\ \A b \in Bits : Ends(DueQueue \o queue, Len(DueQueue \o queue), s, b,
                            tab[s][b], table'[s][b])

LEMMA ApplyLeaves ==
  ASSUME NbaInv, Apply
  PROVE  \E tab : \A s \in Signals : Leaves(tab, s)
<1>0. NbaTypes
  BY DEF NbaInv
<1> DEFINE tab == CommitFast(Matured.table)
           q == DueQueue \o queue
<1>1. Matured.table \in Tables
  BY <1>0, MaturedIs
<1>2. tab \in Tables /\ \A s \in Signals : tab[s] = Value(fast, s, Matured.table[s])
  BY <1>0, <1>1, CommitFastIs
<1>3. q \in Seq(Writes)
  BY <1>0, DueQueueIs, NotQueued, ConcatProperties
<1>4. table' = CommitQueue(tab, q)
  BY DEF Apply
<1> HIDE DEF tab, q
<1>5. /\ table' \in Tables
      /\ \A s \in Signals, b \in Bits : Ends(q, Len(q), s, b, tab[s][b], table'[s][b])
  BY <1>2, <1>3, <1>4, CommitEnds
<1>6. \A s \in Signals : Leaves(tab, s)
  BY <1>2, <1>5 DEF Leaves, Tables, q
<1> QED
  BY <1>6

\* Nothing is due: nba_fast and nba_queue leave what was assigned.
LEMMA LeavesAssigned ==
  ASSUME NbaInv, Apply, NEW s \in Signals, spoiled[s] = {},
         NoFastDue(s), NoQueueDue(s), NEW tab, Leaves(tab, s)
  PROVE  table'[s] = Reference(s)
<1>0. NbaTypes /\ ThreadsOK /\ MeantOK
  BY DEF NbaInv, WindowOK
<1> DEFINE x == table[s]
           u == want[s]
           v == Value(fast, s, x)
           y == table'[s]
<1>1. MeantBy(queue, s, x, u, v)
  BY <1>0 DEF ThreadsOK, MeantOK, Meant, Apply
<1>2. Matured.table[s] = x
  <2>1. Lands(Matured.table, s)
    BY <1>0, MaturedIs
  <2> QED
    BY <2>1 DEF Lands, NoFastDue
<1>3. tab[s] = v /\ y \in Values
  BY <1>2 DEF Leaves
<1>4. /\ DueQueue \in Seq(Writes) /\ queue \in Seq(Writes) /\ Without(DueQueue, s)
      /\ Len(queue) \in Nat
  BY <1>0, DueQueueIs, NotQueued, DueWithout
<1>5. ASSUME NEW b \in Bits PROVE y[b] = Overlay(x, u)[b]
  <2> DEFINE n == Len(queue)
             vb == v[b]
             yb == y[b]
             ob == Overlay(x, u)[b]
  <2>1. Ends(DueQueue \o queue, Len(DueQueue \o queue), s, b, vb, yb)
    BY <1>3 DEF Leaves
  <2>2. Ends(queue, n, s, b, vb, ob)
    BY <1>1 DEF MeantBy
  <2> HIDE DEF vb, yb, ob
  <2>3. Ends(queue, n, s, b, vb, yb)
    BY <1>4, <2>1, EndsSecond
  <2> HIDE DEF n
  <2>4. yb = ob
    BY <1>4, <2>2, <2>3, EndsOne DEF n
  <2> QED
    BY <2>4 DEF yb, ob
<1>6. Overlay(x, wantAt[<<s, time>>]) = x
  <2>1. x \in Values /\ wantAt[<<s, time>>] = NoValue
    BY <1>0, NotAwaited DEF NbaTypes
  <2> QED
    BY <2>1, OverlayNone
<1> HIDE DEF x, u, v, y
<1>7. y = Overlay(x, u)
  BY <1>3, <1>5, SameBits
<1> QED
  BY <1>6, <1>7 DEF x, u, y, Reference

\* Nothing was assigned, and one entry of delayed_nba is due.
LEMMA LeavesDelayed ==
  ASSUME NbaInv, Apply, NEW s \in Signals, want[s] = NoValue,
         NoQueueDue(s), OneFastDue(s), NEW tab, Leaves(tab, s)
  PROVE  table'[s] = Reference(s)
<1>0. NbaTypes /\ AssignedOK /\ DelayOK /\ time \in Times /\ time \in Nat
  BY DEF NbaInv, WindowOK, NbaTypes, Times
<1>1. PICK i \in 1 .. Len(delayed) :
         IsDue(i, s) /\ \A j \in 1 .. Len(delayed) : IsDue(j, s) => j = i
  BY DEF OneFastDue
<1> DEFINE u == delayed[i].val
           y == table'[s]
           q == DueQueue \o queue
<1>2. delayed[i].at = time /\ delayed[i].id = s /\ u \in Values
  <2>1. delayed[i] \in DelayedValues
    BY <1>0, DelayedIs
  <2>2. delayed[i].at \in Nat /\ u \in Values
    BY <2>1 DEF DelayedValues, Times
  <2>3. delayed[i].at >= time /\ Due(delayed[i].at) /\ delayed[i].id = s
    BY <1>0, <1>1 DEF DelayOK, IsDue
  <2> QED
    BY <1>0, <2>2, <2>3 DEF Due
<1>3. wantAt[<<s, time>>] = u
  <2>1. Due(time)
    BY <1>0 DEF Due
  <2>2. \A j \in 1 .. Len(delayed) : InFast(delayed[j], s, time) => j = i
    BY <1>1, <2>1 DEF InFast, IsDue
  <2>3. \A j \in 1 .. Len(delayedQueue) : ~ InQueue(delayedQueue[j], s, time)
    BY <2>1 DEF InQueue, NoQueueDue
  <2>4. Alone(delayed, delayedQueue, i, s, time)
    BY <1>2, <2>2, <2>3 DEF Alone, InFast
  <2> QED
    BY <1>0, <2>4 DEF DelayOK, Delivers
<1>4. Matured.table[s] = u
  <2>1. Lands(Matured.table, s)
    BY <1>0, MaturedIs
  <2> QED
    BY <1>1, <2>1 DEF Lands
<1>5. LastAt(fast, s) = 0 /\ Without(queue, s)
  BY <1>0 DEF AssignedOK, Without
<1>6. tab[s] = u /\ y \in Values
  BY <1>4, <1>5 DEF Leaves, Value
<1>7. /\ DueQueue \in Seq(Writes) /\ queue \in Seq(Writes) /\ Without(DueQueue, s)
  BY <1>0, DueQueueIs, NotQueued, DueWithout
<1>8. ASSUME NEW b \in Bits PROVE y[b] = u[b]
  <2> DEFINE ub == u[b]
             yb == y[b]
  <2>1. Ends(q, Len(q), s, b, ub, yb)
    BY <1>6 DEF Leaves
  <2> HIDE DEF ub, yb
  <2>2. Ends(queue, Len(queue), s, b, ub, yb)
    BY <1>7, <2>1, EndsSecond
  <2>3. yb = ub
    BY <1>5, <2>2 DEF Ends, Without, Sets
  <2> QED
    BY <2>3 DEF yb, ub
<1> HIDE DEF u, y
<1>9. y = u
  <2>1. y = [b \in Bits |-> y[b]] /\ u = [b \in Bits |-> u[b]]
    BY <1>2, <1>6 DEF Values
  <2> QED
    BY <1>8, <2>1
<1>10. Overlay(Overlay(table[s], u), NoValue) = u
  <2>1. Overlay(table[s], u) = u
    BY <1>2, OverlayWhole
  <2> QED
    BY <1>2, <2>1, OverlayNone
<1> QED
  BY <1>3, <1>9, <1>10 DEF y, Reference

\* Nothing was assigned, and what is due is in delayed_nba_queue.
LEMMA LeavesQueued ==
  ASSUME NbaInv, Apply, NEW s \in Signals, want[s] = NoValue, NoFastDue(s),
         NEW tab, Leaves(tab, s)
  PROVE  table'[s] = Reference(s)
<1>0. NbaTypes /\ AssignedOK /\ DelayOK /\ time \in Times /\ time \in Nat
  BY DEF NbaInv, WindowOK, NbaTypes, Times
<1> DEFINE x == table[s]
           u == wantAt[<<s, time>>]
           y == table'[s]
           q == DueQueue \o queue
           f == Sifted(TRUE)
<1>1. Matured.table[s] = x
  <2>1. Lands(Matured.table, s)
    BY <1>0, MaturedIs
  <2> QED
    BY <2>1 DEF Lands, NoFastDue
<1>2. LastAt(fast, s) = 0 /\ Without(queue, s)
  BY <1>0 DEF AssignedOK, Without
<1>3. tab[s] = x /\ y \in Values
  BY <1>1, <1>2 DEF Leaves, Value
<1>4. Due(time) = TRUE
  BY <1>0 DEF Due
<1>5. DueQueue \in Seq(Writes) /\ queue \in Seq(Writes) /\ Len(delayedQueue) \in Nat
  BY <1>0, DueQueueIs, NotQueued, DelayedQueueIs
<1>6. PICK m : Picked(f, m, delayedQueue, Len(delayedQueue), TRUE)
  BY <1>0, SiftedIs
<1>7. Len(DueQueue) \in Nat
  BY <1>5, LenProperties
<1>8. ASSUME NEW b \in Bits PROVE y[b] = Overlay(x, u)[b]
  <2> DEFINE ub == u[b]
             xb == x[b]
             yb == y[b]
             zb == IF ub = None THEN xb ELSE ub
             n == Len(delayedQueue)
             t == time
             due == TRUE
  <2>1. Comes(delayedQueue, n, s, t, b, ub)
    <3>1. \A i \in 1 .. Len(delayed) : ~ InFast(delayed[i], s, time)
      BY <1>4 DEF NoFastDue, IsDue, InFast
    <3> QED
      BY <1>0, <3>1 DEF DelayOK, Delivers
  <2>2. Ends(q, Len(q), s, b, xb, yb)
    BY <1>3 DEF Leaves
  <2>3. n \in Nat /\ Picked(f, m, delayedQueue, n, due) /\ Due(t) = due
    BY <1>4, <1>5, <1>6
  <2> HIDE DEF ub, xb, yb, n, t, f, due
  <2>4. Comes(f, Len(f), s, t, b, ub)
    BY <2>1, <2>3, ComesPicked
  <2>5. Ends(DueQueue, Len(DueQueue), s, b, xb, zb)
    <3>1. Comes(Sifted(TRUE), Len(Sifted(TRUE)), s, time, b, ub)
      BY <2>4 DEF f, t
    <3> QED
      BY <3>1, ComesEnds
  <2> HIDE DEF zb
  <2>6. Ends(DueQueue, Len(DueQueue), s, b, xb, yb)
    BY <1>2, <1>5, <2>2, EndsFirst
  <2> DEFINE l == Len(DueQueue)
  <2>7. l \in Nat /\ Ends(DueQueue, l, s, b, xb, yb) /\ Ends(DueQueue, l, s, b, xb, zb)
    BY <1>7, <2>5, <2>6
  <2> HIDE DEF l
  <2>8. yb = zb
    BY <2>7, EndsOne
  <2> QED
    BY <2>8 DEF yb, zb, ub, xb, Overlay
<1> HIDE DEF x, u, y
<1>9. y = Overlay(x, u)
  BY <1>3, <1>8, SameBits
<1>10. Overlay(y, NoValue) = y
  BY <1>3, OverlayNone
<1> QED
  BY <1>9, <1>10 DEF x, u, y, Reference

LEMMA InvLastWins == NbaInv => LastWinsExcept(Causes)
<1> SUFFICES ASSUME NbaInv, Apply, NEW s \in Signals, spoiled[s] \cap Causes = {},
                    ~ MeetsDelayed(s)
             PROVE  table'[s] = Reference(s)
  BY DEF LastWinsExcept
<1>0. NbaTypes
  BY DEF NbaInv
<1>1. spoiled[s] = {}
  <2>1. spoiled[s] \in SUBSET Causes
    BY <1>0 DEF NbaTypes
  <2> QED
    BY <2>1
<1>2. PICK tab : Leaves(tab, s)
  BY ApplyLeaves
<1>3. \/ NoFastDue(s) /\ NoQueueDue(s)
      \/ want[s] = NoValue /\ NoQueueDue(s) /\ OneFastDue(s)
      \/ want[s] = NoValue /\ NoFastDue(s)
  BY <1>0, DueCases
<1>4. CASE NoFastDue(s) /\ NoQueueDue(s)
  BY <1>1, <1>2, <1>4, LeavesAssigned
<1>5. CASE want[s] = NoValue /\ NoQueueDue(s) /\ OneFastDue(s)
  BY <1>2, <1>5, LeavesDelayed
<1>6. CASE want[s] = NoValue /\ NoFastDue(s)
  BY <1>2, <1>6, LeavesQueued
<1> QED
  BY <1>3, <1>4, <1>5, <1>6

\* In the NBA region the last assignment of the window wins, bit by bit, for
\* any signals, blocks and designs, but for the known causes (bytecode_runtime.rs:3607).
THEOREM LastWins == NbaSpec => LastAssignmentWins
<1>1. NbaInv => LastWinsExcept(Causes)
  BY InvLastWins
<1> QED
  BY <1>1, NbaInvHolds, PTL DEF LastAssignmentWins

=============================================================================
