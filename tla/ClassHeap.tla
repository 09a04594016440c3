------------------------------- MODULE ClassHeap -------------------------------
(***************************************************************************)
(* The objects of classes and their reclamation (heap_gc.rs), with the     *)
(* mailboxes whose messages may be the only owners of one (mailboxes.rs).  *)
(*                                                                         *)
(* A handle is an index into the heap and is never given out again.  What  *)
(* a variable, a frame, a list of the scheduler or a forked context holds  *)
(* is traced, all of it, and merged here into `roots`.  Two places are     *)
(* not traced: the native frames of the activation in progress, and the    *)
(* stack of an imported task that waits.  The collector looks at the       *)
(* survivors of the last collection and at what was allocated since.       *)
(***************************************************************************)
EXTENDS Integers, FiniteSets

CONSTANTS MaxHandle,    \* bound: objects allocated during a run
          MaxMessage,   \* bound: messages put during a run
          MaxBoxes,     \* bound: mailboxes allocated during a run
          MaxFrame,     \* bound: handles held in native frames at one time
          MinAllocs,    \* CLASS_GC_MIN_ALLOCS
          Bound,        \* mailbox_bound, the same for every mailbox
          Usages        \* the designs: sets of "mailbox", "task"
                        \* and "stress" (XEZIM_CLASS_GC=stress)

ASSUME HeapAssumption == /\ MaxHandle \in Nat /\ MaxMessage \in Nat
                         /\ MaxBoxes \in Nat /\ MaxFrame \in Nat
                         /\ MinAllocs \in Nat \ {0} /\ Bound \in Nat \ {0}
                         /\ Usages \subseteq SUBSET {"mailbox", "task", "stress"}

Null == 0
Handles == 1 .. MaxHandle
MessageIds == 1 .. MaxMessage

VARIABLES
    uses,        \* what this design uses besides objects
    slots,       \* handles given out: heap.len() - 1
    heap,        \* the handles whose slot holds an object
    boxes,       \* those of mailboxes
    field,       \* the class property of each object, a handle or Null
    roots,       \* held where trace_class_runtime_roots looks
    running,     \* an activation is in progress
    frame,       \* held in the native frames of that activation
    task,        \* dpi_tasks is not empty: an imported task waits
    stack,       \* held on the stack of that task
    messages,    \* what is queued in mailboxes, or parked with a put
    captured,    \* mbx_patterns: the messages whose pattern is kept
    lastId,      \* mbx_msg_seq
    gcLen,       \* class_gc_heap_len
    scanFrom,    \* class_gc_scan_from
    survivors,   \* class_gc_survivors
    gcLive       \* class_gc_live

objects == <<slots, heap, boxes, field>>
mail == <<messages, captured, lastId>>
gc == <<gcLen, scanFrom, survivors, gcLive>>
vars == <<uses, objects, roots, running, frame, task, stack, mail, gc>>

\* A message is a handle, or an assignment pattern kept beside the queue: the
\* queue then has its id only, and `holds` the handles in the pattern.
Messages == [id : MessageIds, box : Handles, parked : BOOLEAN, pattern : BOOLEAN,
             holds : SUBSET Handles]

TypeOK == /\ uses \in Usages
          /\ slots \in 0 .. MaxHandle
          /\ heap \in SUBSET (1 .. slots)
          /\ boxes \in SUBSET Handles
          /\ field \in [Handles -> Handles \cup {Null}]
          /\ roots \in SUBSET Handles /\ frame \in SUBSET Handles
          /\ stack \in SUBSET Handles
          /\ running \in BOOLEAN /\ task \in BOOLEAN
          /\ messages \in SUBSET Messages
          /\ captured \in SUBSET MessageIds
          /\ lastId \in 0 .. MaxMessage
          /\ gcLen \in 0 .. slots + 1
          /\ scanFrom \in 1 .. slots + 1
          /\ survivors \in SUBSET Handles
          /\ gcLive \in 0 .. MaxHandle

-----------------------------------------------------------------------------
(* The graph.                                                              *)

QueuedIn(b) == {m \in messages : m.box = b /\ ~m.parked}
Parked == {m \in messages : m.parked}

\* What a message brings to whoever receives it now: mbx_deliver_pattern finds
\* nothing where the pattern is gone.
Brings(m) == IF m.pattern /\ m.id \notin captured THEN {} ELSE m.holds

FieldOf(h) == {field[h]} \ {Null}
Edges(h) == FieldOf(h) \cup UNION {Brings(m) : m \in QueuedIn(h)}
Waiting == UNION {{m.box} \cup Brings(m) : m \in Parked}

\* The least set that holds S and follows `next` within `among`.
Reach(S, next(_), among) ==
    {h \in among : \A T \in SUBSET among :
                      /\ S \cap among \subseteq T
                      /\ \A o \in T : next(o) \cap among \subseteq T
                      => h \in T}

\* What the program can still reach, whoever looks at it.
Reachable == Reach(roots \cup frame \cup stack \cup Waiting, Edges, Handles)

-----------------------------------------------------------------------------
(* The program.                                                            *)

\* What the activation in progress can name.
Hand == roots \cup frame
HasRoom == Cardinality(frame) < MaxFrame

Activate == /\ ~running
            /\ running' = TRUE
            /\ UNCHANGED <<objects, roots, frame, task, stack, mail, gc>>

\* An activation parks or ends: part of what it held stays, in variables or in
\* the frame that is saved with the process.
Leave(kept) == /\ kept \subseteq frame
               /\ roots' = roots \cup kept
               /\ frame' = {}
               /\ running' = FALSE

End(kept) == /\ running
             /\ Leave(kept)
             /\ UNCHANGED <<objects, task, stack, mail, gc>>

\* `new`, and alloc_builtin_container for a mailbox.
New(mailbox) ==
    /\ running /\ slots < MaxHandle /\ HasRoom
    /\ mailbox => "mailbox" \in uses /\ Cardinality(boxes) < MaxBoxes
    /\ slots' = slots + 1
    /\ heap' = heap \cup {slots + 1}
    /\ boxes' = IF mailbox THEN boxes \cup {slots + 1} ELSE boxes
    /\ field' = [field EXCEPT ![slots + 1] = Null]
    /\ frame' = frame \cup {slots + 1}
    /\ UNCHANGED <<roots, running, task, stack, mail, gc>>

\* A handle is read from a variable, or through an object.
Read(h) == /\ running /\ HasRoom
           /\ h \in (roots \cup UNION {FieldOf(o) : o \in Hand}) \ frame
           /\ frame' = frame \cup {h}
           /\ UNCHANGED <<objects, roots, running, task, stack, mail, gc>>

\* The last variable that holds h gets another value, or its frame goes.
Forget(h) == /\ running
             /\ h \in roots
             /\ roots' = roots \ {h}
             /\ UNCHANGED <<objects, running, frame, task, stack, mail, gc>>

SetField(o, h) == /\ running
                  /\ o \in Hand \ boxes
                  /\ h \in Hand \cup {Null}
                  /\ field' = [field EXCEPT ![o] = h]
                  /\ UNCHANGED <<slots, heap, boxes, roots, running, frame, task,
                                 stack, mail, gc>>

\* put: a full mailbox parks the producer with its message.  A consumer that
\* is parked receives in the same call, which is Get, next.
Put(b, holds, pattern, kept) ==
    /\ running /\ lastId < MaxMessage
    /\ b \in Hand \cap boxes
    /\ holds \subseteq Hand
    /\ LET full == Cardinality(QueuedIn(b)) >= Bound
       IN /\ messages' = messages \cup
                 {[id |-> lastId + 1, box |-> b, parked |-> full,
                   pattern |-> pattern, holds |-> holds]}
          /\ IF full THEN Leave(kept) ELSE UNCHANGED <<running, frame, roots>>
    /\ lastId' = lastId + 1
    /\ captured' = IF pattern THEN captured \cup {lastId + 1} ELSE captured
    /\ UNCHANGED <<objects, task, stack, gc>>

\* get: the oldest message is consumed, its pattern too, and the oldest put that
\* is parked takes its place.
First(S) == {m \in S : \A n \in S : m.id <= n.id}
Admitted(b) == {[m EXCEPT !.parked = FALSE] : m \in First({m \in Parked : m.box = b})}
Get(b) ==
    /\ running /\ HasRoom
    /\ b \in Hand \cap boxes
    /\ \E m \in First(QueuedIn(b)) :
          /\ frame' = frame \cup Brings(m)
          /\ captured' = captured \ {m.id}
          /\ messages' = (messages \ ({m} \cup First({x \in Parked : x.box = b})))
                            \cup Admitted(b)
    /\ UNCHANGED <<objects, roots, running, task, stack, lastId, gc>>

Peek(b) == /\ running /\ HasRoom
           /\ b \in Hand \cap boxes
           /\ \E m \in First(QueuedIn(b)) : frame' = frame \cup Brings(m)
           /\ UNCHANGED <<objects, roots, running, task, stack, mail, gc>>

\* An imported task waits (dpi_suspend): the rest of the activation is on its
\* stack until it is resumed (dpi_task_marker).
TaskWaits(kept) == /\ "task" \in uses
                   /\ running /\ ~task
                   /\ Leave(kept)
                   /\ task' = TRUE
                   /\ stack' = frame
                   /\ UNCHANGED <<objects, mail, gc>>

TaskGoesOn == /\ ~running /\ task
              /\ running' = TRUE
              /\ frame' = stack
              /\ task' = FALSE /\ stack' = {}
              /\ UNCHANGED <<objects, roots, mail, gc>>

-----------------------------------------------------------------------------
(* The collector.                                                          *)

\* Where time moves in the outer event loop, and nowhere else.
\* Mutant: where a nested loop moves it, too.
SafeAnywhere == ~task
SafePoint == ~running /\ ~task

\* Mutant: what was allocated since is enough.
ScannedNew == (scanFrom .. slots) \cap heap
Scanned == (survivors \cup (scanFrom .. slots)) \cap heap

\* class_heap_mark: edges are followed from the scanned objects only.
EdgesTraced(h) == IF h \in Scanned THEN Edges(h) ELSE {}
Marked == Reach(roots \cup Waiting, EdgesTraced, heap)

\* release_class_storage; with nothing to release it returns at once.
CapturedIn(left) == captured \cap {m.id : m \in left}

Release(dead) ==
    LET left == {m \in messages : m.parked \/ m.box \notin dead}
    IN /\ heap' = heap \ dead
       /\ field' = [h \in Handles |-> IF h \in dead THEN Null ELSE field[h]]
       /\ messages' = left
       /\ captured' = IF dead = {} THEN captured ELSE CapturedIn(left)

DueAfter == IF "stress" \in uses THEN 1
            ELSE IF MinAllocs > gcLive THEN MinAllocs ELSE gcLive

\* maybe_collect_class_heap.  A trace that fails leaves all as it is, but the
\* allocations are counted from here.
Collect ==
    /\ SafePoint
    /\ slots + 1 - gcLen >= DueAfter
    /\ gcLen' = slots + 1
    /\ \/ UNCHANGED <<heap, field, messages, captured, scanFrom, survivors, gcLive>>
       \/ /\ Release(Scanned \ Marked)
          /\ survivors' = Scanned \cap Marked
          /\ gcLive' = Cardinality(survivors')
          /\ scanFrom' = slots + 1
    /\ UNCHANGED <<slots, boxes, roots, running, frame, task, stack, lastId>>

-----------------------------------------------------------------------------
Init == /\ uses \in Usages
        /\ slots = 0 /\ heap = {} /\ boxes = {}
        /\ field = [h \in Handles |-> Null]
        /\ roots = {} /\ frame = {} /\ stack = {}
        /\ running = FALSE /\ task = FALSE
        /\ messages = {} /\ captured = {} /\ lastId = 0
        /\ gcLen = 0 /\ scanFrom = 1 /\ survivors = {} /\ gcLive = 0

Program == \/ Activate
           \/ \E mailbox \in BOOLEAN : New(mailbox)
           \/ \E h \in Handles : Read(h) \/ Forget(h)
           \/ \E o \in Handles, h \in Handles \cup {Null} : SetField(o, h)
           \/ \E b, h \in Handles, pattern \in BOOLEAN, kept \in SUBSET Handles :
                 Put(b, {h}, pattern, kept)
           \/ \E b \in Handles : Get(b) \/ Peek(b)
           \/ \E kept \in SUBSET Handles : End(kept) \/ TaskWaits(kept)
           \/ TaskGoesOn

Next == (Program \/ Collect) /\ UNCHANGED uses

Spec == Init /\ [][Next]_vars

-----------------------------------------------------------------------------
(* Properties.                                                             *)

(***************************************************************************)
(* A message that is queued, or parked with its producer, still has the    *)
(* pattern captured for it ("Queued messages and parked puts retain their  *)
(* own tokens").                                                           *)
(***************************************************************************)
MessagesWhole == \A m \in messages : m.pattern => m.id \in captured

(***************************************************************************)
(* No collection takes an object that the program can still reach, through *)
(* a variable, a parked process, a message nobody has received, the        *)
(* pattern captured for one, an object allocated since or one that         *)
(* survived (heap_gc.rs: "an object no handle reaches may be reclaimed").  *)
(* A pattern that is gone would reach nothing, hence MessagesWhole.        *)
(***************************************************************************)
NothingReachableFreed == TypeOK /\ MessagesWhole /\ Reachable \subseteq heap

(***************************************************************************)
(* What a collection leaves is reachable: cycles go, what only a dead      *)
(* mailbox held goes, and so do the patterns of messages that are gone,    *)
(* although each collection looks at the survivors and the newcomers only  *)
(* ("A discarded mailbox ... releases its captured patterns").             *)
(***************************************************************************)
GarbageGoes ==
    [][scanFrom' # scanFrom => /\ heap' \subseteq Reachable
                               /\ captured' \subseteq {m.id : m \in messages'}]_vars
=============================================================================
