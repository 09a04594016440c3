-------------------------------- MODULE FstSink --------------------------------
(***************************************************************************)
(* The FST dump sink (fst_sink.rs): the simulation thread posts the value  *)
(* changes of a time slot into a batch, a writer thread packs them into a  *)
(* block in memory and flushes it to the file now and then, and a guard    *)
(* thread hands partial batches on and, when an interrupt is not taken,    *)
(* closes the dump by itself.  Batch and channel share one mutex: every    *)
(* locked section is a step.  Without threads (mode "inline") the          *)
(* simulation thread calls the writer itself.                              *)
(*                                                                         *)
(* Wall time is left out: a flush is due, TAIL_AFTER or TAIL_WAIT has      *)
(* passed, at any moment at which it may.  A block reaches the file whole  *)
(* or not at all (FstFile), so a kill leaves the file of some state.  The  *)
(* k-th post that has changes is the number k; 0 is the timestep without   *)
(* changes that closes the dump.                                           *)
(***************************************************************************)
EXTENDS Integers, Sequences, FiniteSets

CONSTANTS BatchFlush,  \* posts that fill a batch (FST_BATCH_FLUSH, 64)
          StartTimes,  \* slots in which the dump may be opened
          MaxTime,     \* bound: the last slot
          MaxPosts     \* bound: posts with changes

ASSUME SinkAssumption ==
    /\ BatchFlush \in Nat \ {0}
    /\ MaxTime \in Nat /\ MaxPosts \in Nat
    /\ StartTimes \subseteq 0 .. MaxTime

VARIABLES
    mode,      \* "inline" or "threaded"
    every,     \* whether the time rule is on (XEZIM_FST_FLUSH_SECS)
    time,      \* the simulation time, published to the guard
    posts,     \* history: the slot of each post with changes
    sim,       \* where the simulation thread is
    batch,     \* Pending.batch
    tx,        \* whether Pending.tx holds the sender
    chan,      \* the messages under way to the writer
    closed,    \* Shared.closed
    guard,     \* where the guard thread is
    tail,      \* its tail: time, posts made when it was sent, answered, done
    interrupted, acknowledged,  \* the flags of interrupt.rs
    writer,    \* where the writer thread is
    todo,      \* the rest of the batch it works on
    dump       \* struct Writer and what is in the file: see Dumps

vars == <<mode, every, time, posts, sim, batch, tx, chan, closed, guard, tail,
          interrupted, acknowledged, writer, todo, dump>>

simVars    == <<time, posts, sim, closed>>
guardVars  == <<guard, tail>>
writerVars == <<writer, todo>>
signalVars == <<interrupted, acknowledged>>
fixedVars  == <<mode, every>>

Times == 0 .. MaxTime
Ids   == 0 .. MaxPosts
Timesteps == [time : Times, id : Ids]

Messages == [kind : {"batch"}, list : Seq(Timesteps), time : {0}]
       \cup [kind : {"flush", "finish"}, list : {<<>>}, time : {0}]
       \cup [kind : {"tail"}, list : {<<>>}, time : Times]

Batch(s)   == [kind |-> "batch", list |-> s, time |-> 0]
Plain(k)   == [kind |-> k, list |-> <<>>, time |-> 0]
TailMsg(t) == [kind |-> "tail", list |-> <<>>, time |-> t]

\* block: the changes packed in memory; file: those flushed, up to the end
\* time fileEnd; final: the trailer is written; dropped: history, the posts that
\* apply() left out; tailed: history, the slots that a tail has closed.
Dumps == [block : Seq(Timesteps), lastTime : Times, open : BOOLEAN,
          flushedOnce : BOOLEAN, file : Seq(Timesteps), fileEnd : Times,
          final : BOOLEAN, dropped : SUBSET Ids, tailed : SUBSET Times]

IdsIn(s) == {s[i].id : i \in DOMAIN s}
-----------------------------------------------------------------------------
(* Writer.                                                                   *)
Flush(d) ==
    IF d.open
    THEN [d EXCEPT !.file = @ \o d.block, !.block = <<>>, !.open = FALSE,
                   !.fileEnd = d.lastTime, !.flushedOnce = TRUE]
    ELSE d

\* apply, before its look at the size of the block.
Packed(d, ts) ==
    LET record == IF ts.id = 0 THEN <<>> ELSE <<ts>>
    IN  IF ts.time > d.lastTime
        THEN [d EXCEPT !.lastTime = ts.time, !.open = TRUE,
                       !.block = @ \o record]
        ELSE IF d.flushedOnce /\ ~d.open
        THEN [d EXCEPT !.dropped = @ \cup IdsIn(record)]
        ELSE [d EXCEPT !.block = @ \o record]

\* apply: the block may have reached FST_FLUSH_AT bytes.
Apply(d, ts) == {Packed(d, ts), Flush(Packed(d, ts))}

\* A block may be due by the time rule; the first one is at once.
DueFlush(d) ==
    IF ~(every /\ d.open) THEN {d}
    ELSE IF d.flushedOnce THEN {d, Flush(d)} ELSE {Flush(d)}

Max2(a, b) == IF a > b THEN a ELSE b

\* Writer::tail: a timestep without changes at the slot's time, and a flush.
CloseAt(d, t) ==
    LET closedAt == Flush(Packed(d, [time |-> Max2(t, d.lastTime), id |-> 0]))
    IN  [closedAt EXCEPT !.tailed = @ \cup {closedAt.lastTime}]

Finish(d) == [d EXCEPT !.file = @ \o d.block, !.block = <<>>, !.open = FALSE,
                       !.fileEnd = d.lastTime, !.final = TRUE]
-----------------------------------------------------------------------------
TypeOK ==
    /\ mode \in {"inline", "threaded"} /\ every \in BOOLEAN
    /\ time \in Times
    /\ posts \in Seq(Times) /\ Len(posts) <= MaxPosts
    /\ sim \in {"slot", "end", "shut", "send", "join_guard", "join_writer", "done"}
    /\ batch \in Seq(Timesteps) /\ Len(batch) < BatchFlush
    /\ tx \in BOOLEAN /\ closed \in BOOLEAN
    /\ chan \in Seq(Messages)
    /\ guard \in {"none", "parked", "tick", "look", "time", "send", "wait", "gone"}
    /\ tail \in [time : Times, upto : Ids, answered : BOOLEAN, done : BOOLEAN]
    /\ interrupted \in BOOLEAN /\ acknowledged \in BOOLEAN
    /\ writer \in {"none", "recv", "batch", "finish", "gone"}
    /\ todo \in Seq(Timesteps)
    /\ dump \in Dumps

\* The snapshot taken at `start` is in the block; at time 0 it is no entry of
\* the block's time table.  The guard thread may fail to start.
Init ==
    /\ mode \in {"inline", "threaded"} /\ every \in BOOLEAN
    /\ time \in StartTimes
    /\ posts = <<>> /\ sim = "slot"
    /\ batch = <<>> /\ tx = (mode = "threaded") /\ chan = <<>> /\ closed = FALSE
    /\ guard \in IF mode = "threaded" THEN {"parked", "none"} ELSE {"none"}
    /\ tail = [time |-> 0, upto |-> 0, answered |-> FALSE, done |-> FALSE]
    /\ interrupted = FALSE /\ acknowledged = FALSE
    /\ writer = IF mode = "threaded" THEN "recv" ELSE "none"
    /\ todo = <<>>
    /\ dump = [block |-> <<>>, lastTime |-> time, open |-> time > 0,
               flushedOnce |-> FALSE, file |-> <<>>, fileEnd |-> 0,
               final |-> FALSE, dropped |-> {}, tailed |-> {}]
-----------------------------------------------------------------------------
(* The locked sections.                                                      *)

\* Mutant: the batch is sent and kept.
HandOffKeeps(b, after) ==
    /\ chan' = (IF b # <<>> /\ tx THEN Append(chan, Batch(b)) ELSE chan) \o after
    /\ batch' = IF Len(b) < BatchFlush THEN b ELSE <<>>

\* hand_off of a batch that is now b, and what is sent after it.
HandOff(b, after) ==
    /\ chan' = (IF b # <<>> /\ tx THEN Append(chan, Batch(b)) ELSE chan) \o after
    /\ batch' = <<>>

\* FstSink::post
PostStep(ts) ==
    \/ /\ mode = "inline"
       /\ \E d \in Apply(dump, ts) : dump' \in {d} \cup DueFlush(d)
       /\ UNCHANGED <<batch, chan>>
    \/ /\ mode = "threaded"
       /\ IF Len(batch) + 1 >= BatchFlush
          THEN HandOff(Append(batch, ts), <<>>)
          ELSE batch' = Append(batch, ts) /\ chan' = chan
       /\ dump' = dump
-----------------------------------------------------------------------------
(* The simulation thread.                                                    *)

\* fst_write_changes: every tick of a slot may post.  The bound is MaxPosts.
Post ==
    /\ sim = "slot" /\ Len(posts) < MaxPosts
    /\ posts' = Append(posts, time)
    /\ PostStep([time |-> time, id |-> Len(posts')])
    /\ UNCHANGED <<fixedVars, time, sim, closed, tx, guardVars, signalVars,
                   writerVars>>

\* The clock moves and is published.
Advance ==
    /\ sim = "slot" /\ time < MaxTime
    /\ time' = time + 1
    /\ UNCHANGED <<fixedVars, posts, sim, closed, batch, tx, chan, guardVars,
                   signalVars, writerVars, dump>>

\* $dumpflush
DumpFlush ==
    /\ sim = "slot"
    /\ \/ /\ mode = "inline"
          /\ dump' = Flush(dump)
          /\ UNCHANGED <<batch, chan>>
       \/ /\ mode = "threaded"
          /\ \A i \in DOMAIN chan : chan[i].kind # "flush"  \* bound
          /\ HandOff(batch, <<Plain("flush")>>)
          /\ dump' = dump
    /\ UNCHANGED <<fixedVars, simVars, tx, guardVars, signalVars, writerVars>>

\* The run ends, by itself or because it has taken an interrupt.
Leave ==
    /\ sim = "slot"
    /\ sim' = "end"
    /\ acknowledged' \in {FALSE, interrupted}
    /\ UNCHANGED <<fixedVars, time, posts, closed, batch, tx, chan, guardVars,
                   interrupted, writerVars, dump>>

\* fst_finish closes the wave window at the current time.
PostEnd ==
    /\ sim = "end"
    /\ sim' = "shut"
    /\ PostStep([time |-> time, id |-> 0])
    /\ UNCHANGED <<fixedVars, time, posts, closed, tx, guardVars, signalVars,
                   writerVars>>

ShutInline ==
    /\ sim = "shut" /\ mode = "inline"
    /\ sim' = "done"
    /\ dump' = Finish(dump)
    /\ UNCHANGED <<fixedVars, time, posts, closed, batch, tx, chan, guardVars,
                   signalVars, writerVars>>

\* Mutant: the guard is not told.
ShutThreadedSilently ==
    /\ sim = "shut" /\ mode = "threaded"
    /\ sim' = "send"
    /\ UNCHANGED <<fixedVars, time, posts, closed, batch, tx, chan, guardVars,
                   signalVars, writerVars, dump>>

ShutThreaded ==
    /\ sim = "shut" /\ mode = "threaded"
    /\ sim' = "send"
    /\ closed' = TRUE
    /\ UNCHANGED <<fixedVars, time, posts, batch, tx, chan, guardVars,
                   signalVars, writerVars, dump>>

\* Mutant: the last batch is left behind.
SendFinishOnly ==
    /\ sim = "send"
    /\ sim' = "join_guard"
    /\ chan' = Append(chan, Plain("finish")) /\ batch' = <<>>
    /\ tx' = FALSE
    /\ UNCHANGED <<fixedVars, time, posts, closed, guardVars, signalVars,
                   writerVars, dump>>

SendFinish ==
    /\ sim = "send"
    /\ sim' = "join_guard"
    /\ HandOff(batch, <<Plain("finish")>>)
    /\ tx' = FALSE
    /\ UNCHANGED <<fixedVars, time, posts, closed, guardVars, signalVars,
                   writerVars, dump>>

JoinGuard ==
    /\ sim = "join_guard" /\ guard \in {"none", "gone"}
    /\ sim' = "join_writer"
    /\ UNCHANGED <<fixedVars, time, posts, closed, batch, tx, chan, guardVars,
                   signalVars, writerVars, dump>>

JoinWriter ==
    /\ sim = "join_writer" /\ writer = "gone"
    /\ sim' = "done"
    /\ UNCHANGED <<fixedVars, time, posts, closed, batch, tx, chan, guardVars,
                   signalVars, writerVars, dump>>
-----------------------------------------------------------------------------
(* The guard thread (guard_main, write_tail).                                *)
GuardFrame == UNCHANGED <<fixedVars, simVars, tx, signalVars, writerVars, dump>>

GuardWakes ==
    /\ guard = "parked"
    /\ guard' = IF closed THEN "gone" ELSE "tick"
    /\ UNCHANGED <<tail, batch, chan>> /\ GuardFrame

\* Mutant: the guard looks for an interrupt only.
GuardHandsNothingOff ==
    /\ guard = "tick"
    /\ guard' = "look"
    /\ UNCHANGED <<tail, batch, chan>> /\ GuardFrame

GuardHandsOff ==
    /\ guard = "tick"
    /\ guard' = "look"
    /\ HandOff(batch, <<>>)
    /\ UNCHANGED tail /\ GuardFrame

GuardLooks ==
    /\ guard = "look"
    /\ \/ /\ tail.done \/ ~interrupted
          /\ guard' = "parked" /\ tail' = tail
       \/ /\ ~tail.done /\ interrupted /\ acknowledged
          /\ guard' = "parked" /\ tail' = [tail EXCEPT !.done = TRUE]
       \/ /\ ~tail.done /\ interrupted /\ ~acknowledged
          /\ guard' \in {"parked", "time"} /\ tail' = tail
    /\ UNCHANGED <<batch, chan>> /\ GuardFrame

GuardReadsTime ==
    /\ guard = "time"
    /\ guard' = "send"
    /\ tail' = [tail EXCEPT !.time = time]
    /\ UNCHANGED <<batch, chan>> /\ GuardFrame

\* Mutant: the tail is sent ahead of the batch.
GuardSendsTailOnly ==
    /\ guard = "send"
    /\ guard' = IF tx THEN "wait" ELSE "parked"
    /\ tail' = [tail EXCEPT !.upto = Len(posts), !.done = ~tx]
    /\ chan' = IF tx THEN Append(chan, TailMsg(tail.time)) ELSE chan
    /\ UNCHANGED batch /\ GuardFrame

GuardSendsTail ==
    /\ guard = "send"
    /\ guard' = IF tx THEN "wait" ELSE "parked"
    /\ tail' = [tail EXCEPT !.upto = Len(posts), !.done = ~tx]
    /\ HandOff(batch, IF tx THEN <<TailMsg(tail.time)>> ELSE <<>>)
    /\ GuardFrame

\* The answer, or TAIL_WAIT has passed.
TailDone ==
    /\ guard' = "parked"
    /\ tail' = [tail EXCEPT !.done = TRUE]
    /\ UNCHANGED <<batch, chan>> /\ GuardFrame

GuardIsAnswered == guard = "wait" /\ tail.answered /\ TailDone
GuardGivesUp    == guard = "wait" /\ ~tail.answered /\ TailDone
-----------------------------------------------------------------------------
(* The writer thread (writer_main).                                          *)
WriterFrame == UNCHANGED <<fixedVars, simVars, batch, tx, guard, signalVars>>

Receive ==
    /\ writer = "recv" /\ chan # <<>>
    /\ chan' = Tail(chan)
    /\ LET m == Head(chan)
       IN  \/ /\ m.kind = "batch"
              /\ writer' = "batch" /\ todo' = m.list
              /\ UNCHANGED <<dump, tail>>
           \/ /\ m.kind = "flush"
              /\ dump' = Flush(dump)
              /\ UNCHANGED <<writer, todo, tail>>
           \/ /\ m.kind = "tail"
              /\ dump' = CloseAt(dump, m.time)
              /\ tail' = [tail EXCEPT !.answered = TRUE]
              /\ UNCHANGED <<writer, todo>>
           \/ /\ m.kind = "finish"
              /\ writer' = "finish"
              /\ UNCHANGED <<dump, todo, tail>>
    /\ WriterFrame

\* recv_timeout ends without a message: the open block is due.
IdleFlush ==
    /\ writer = "recv" /\ chan = <<>> /\ dump.open /\ every
    /\ dump' = Flush(dump)
    /\ UNCHANGED <<chan, tail, writer, todo>> /\ WriterFrame

ApplyOne ==
    /\ writer = "batch" /\ todo # <<>>
    /\ dump' \in Apply(dump, Head(todo))
    /\ todo' = Tail(todo)
    /\ UNCHANGED <<chan, tail, writer>> /\ WriterFrame

BatchApplied ==
    /\ writer = "batch" /\ todo = <<>>
    /\ dump' \in DueFlush(dump)
    /\ writer' = "recv"
    /\ UNCHANGED <<chan, tail, todo>> /\ WriterFrame

WriterFinishes ==
    /\ writer = "finish"
    /\ dump' = Finish(dump)
    /\ writer' = "gone"
    /\ UNCHANGED <<chan, tail, todo>> /\ WriterFrame
-----------------------------------------------------------------------------
\* Ctrl-C or SIGTERM; the handler is in Interrupt.tla.
Signal ==
    /\ ~interrupted
    /\ interrupted' = TRUE
    /\ UNCHANGED <<fixedVars, simVars, batch, tx, chan, guardVars, acknowledged,
                   writerVars, dump>>

Closing == PostEnd \/ ShutInline \/ ShutThreaded \/ SendFinish \/ JoinGuard \/ JoinWriter

Guarding == GuardWakes \/ GuardHandsOff \/ GuardLooks \/ GuardReadsTime
            \/ GuardSendsTail \/ GuardIsAnswered

Writing == Receive \/ IdleFlush \/ ApplyOne \/ BatchApplied \/ WriterFinishes

Next == Post \/ Advance \/ DumpFlush \/ Leave \/ Closing
        \/ Guarding \/ GuardGivesUp \/ Writing \/ Signal

\* The three threads are scheduled; the simulation may be stuck in a slot, and
\* the wait for the answer is not cut short.
Spec == /\ Init /\ [][Next]_vars
        /\ WF_vars(Closing) /\ WF_vars(Guarding) /\ WF_vars(Writing)

-----------------------------------------------------------------------------
(* Properties.                                                               *)

\* Written or packed, the changes stand in the order of the posts and each at
\* its own slot, whichever thread has handed them on ("every send happens under
\* the pending mutex and the channel is FIFO", fst_sink.rs:14).
ChangesInOrder ==
    LET written == dump.file \o dump.block
    IN  /\ \A i \in DOMAIN written : written[i].time = posts[written[i].id]
        /\ \A i, j \in DOMAIN written : i < j => written[i].id < written[j].id

\* What the writer left out and what the file has: everything posted, once
\* finish() has returned.
Settled == IdsIn(dump.file) \cup dump.dropped
CloseIsComplete ==
    sim = "done" => dump.final /\ Settled = 1 .. Len(posts)

\* When the guard is told that the tail is written, every change posted before
\* it sent the tail is in the file, and the file ends no earlier than the slot
\* the simulation is stuck in (write_tail).  At time 0 there is no block to write.
TailCoversTheRun ==
    (tail.answered /\ tail.time > 0) => /\ 1 .. tail.upto \subseteq Settled
                                        /\ dump.fileEnd >= tail.time

\* The guard waits only for an answer that will come: its message is in front
\* of any Finish, after which nobody reads the channel.  Otherwise a close would
\* be held up for TAIL_WAIT.
TailIsAnswered ==
    (guard = "wait" /\ ~tail.answered)
        => \E i \in DOMAIN chan :
              /\ chan[i].kind = "tail"
              /\ \A k \in 1 .. i : chan[k].kind # "finish"
              /\ writer \in {"recv", "batch"}

\* Together: the channel carries the batches in order and every request for a
\* tail where the writer still reads it.
ChannelKept == TypeOK /\ ChangesInOrder /\ TailIsAnswered

\* With the guard and the time rule, a change reaches the file although the
\* simulation thread is stuck in a later computation ("no timestep waits on the
\* simulation thread", fst_sink.rs:28).  At time 0 no block is open yet.
Unsettled == {k \in DOMAIN posts : posts[k] > 0} \ Settled
ReachesFile == (every /\ guard # "none") ~> (Unsettled = {})

\* finish() returns: the simulation thread waits for a guard and a writer
\* that both end, also when a tail is being written.
CloseEnds == sim = "end" ~> sim = "done"

\* The comment at fst_sink.rs:188: changes are left out only after a tail flush.
DroppedOnlyAfterTail == \A k \in dump.dropped : posts[k] \in dump.tailed
=============================================================================
