----------------------------- MODULE FstSinkProofs -----------------------------
(***************************************************************************)
(* Proofs about FstSink.tla, for any size of a batch, any number of posts  *)
(* and slots, with threads or without: the changes reach the file in       *)
(* order, a close writes all of them, and the guard's tail means what it   *)
(* says.                                                                   *)
(***************************************************************************)
EXTENDS FstSink, SequenceTheorems, TLAPS

(***************************************************************************)
(* Where a post can be: written (in the file or packed in the block),      *)
(* dropped, or still on its way, which has one place for the rest of the   *)
(* writer's batch, one for each message, and one for the pending batch.    *)
(***************************************************************************)
Written(d)   == d.file \o d.block
SettledOf(d) == IdsIn(d.file) \cup d.dropped
Had(d)       == IdsIn(Written(d)) \cup d.dropped

Places(c) == 0 .. Len(c) + 1
Place(td, c, b, i) == IF i = 0 THEN td ELSE IF i <= Len(c) THEN c[i].list ELSE b

\* What is written is posted, stands at its own slot and is in order.
WrittenOK(ps, d) ==
    LET w == Written(d)
    IN  /\ \A i \in DOMAIN w : w[i].id \in 1 .. Len(ps) /\ w[i].time = ps[w[i].id]
        /\ \A i, j \in DOMAIN w : i < j => w[i].id < w[j].id
        /\ d.dropped \subseteq 1 .. Len(ps)

\* What is on its way is posted, in order, and later than what is written.
OnItsWayOK(ps, d, td, c, b) ==
    /\ \A i \in Places(c) : \A k \in DOMAIN Place(td, c, b, i) :
          LET ts == Place(td, c, b, i)[k]
          IN  ts.id # 0 => /\ ts.id \in 1 .. Len(ps) /\ ts.time = ps[ts.id]
                           /\ \A n \in Had(d) : n < ts.id
    /\ \A i, j \in Places(c) : \A k \in DOMAIN Place(td, c, b, i) :
          \A l \in DOMAIN Place(td, c, b, j) :
             LET one   == Place(td, c, b, i)[k]
                 other == Place(td, c, b, j)[l]
             IN  (i < j \/ (i = j /\ k < l)) /\ one.id # 0 /\ other.id # 0
                    => one.id < other.id

\* No post is lost.
NoneLost(ps, d, td, c, b) ==
    \A n \in 1 .. Len(ps) : n \in Had(d)
        \/ \E i \in Places(c) : n \in IdsIn(Place(td, c, b, i))

DataOK(ps, d, td, c, b) ==
    WrittenOK(ps, d) /\ OnItsWayOK(ps, d, td, c, b) /\ NoneLost(ps, d, td, c, b)

\* The writer's own state: the end time of the file, and what no block holds.
DumpOK(d) ==
    /\ d.fileEnd <= d.lastTime
    /\ ~ d.open => d.fileEnd = d.lastTime
    /\ ~ d.open /\ d.lastTime > 0 => d.block = <<>>
    /\ d.lastTime > 0 => d.open \/ d.flushedOnce \/ d.final
    /\ d.final => d.block = <<>> /\ ~ d.open

\* The phases of the three threads.
PhasesOK ==
    /\ mode = "inline" =>
          /\ writer = "none" /\ guard = "none" /\ chan = <<>> /\ ~ tx
          /\ sim \notin {"send", "join_guard", "join_writer"}
    /\ mode = "threaded" =>
          /\ writer # "none"
          /\ sim \in {"slot", "end", "shut", "send"} => tx
          /\ sim = "done" => writer = "gone"
    /\ sim \in {"join_guard", "join_writer", "done"} => ~ tx
    /\ ~ tx => batch = <<>>
    /\ writer # "batch" => todo = <<>>
    /\ \A i \in DOMAIN chan : chan[i].kind = "finish" => i = Len(chan) /\ ~ tx
    /\ writer \in {"finish", "gone"} => chan = <<>> /\ ~ tx
    /\ dump.final <=> writer = "gone" \/ (mode = "inline" /\ sim = "done")

\* Behind a tail come only posts that were made after it was sent.
TailFirst(td, c, b, t) ==
    \A i \in DOMAIN c : c[i].kind = "tail" =>
        /\ c[i].time = t.time
        /\ \A j \in i + 1 .. Len(c) + 1 : \A k \in DOMAIN Place(td, c, b, j) :
              Place(td, c, b, j)[k].id # 0 => Place(td, c, b, j)[k].id > t.upto

TailSent == \E i \in DOMAIN chan : chan[i].kind = "tail"

\* The guard sends one tail at most.
TailOK ==
    /\ tail.upto <= Len(posts)
    /\ guard \in {"time", "send", "wait"} => ~ tail.done
    /\ tail.answered \/ TailSent => guard = "wait" \/ tail.done
    /\ guard = "wait" => tail.answered \/ TailSent
    /\ TailFirst(todo, chan, batch, tail)
    /\ TailCoversTheRun

IInv == /\ TypeOK /\ PhasesOK /\ DumpOK(dump)
        /\ DataOK(posts, dump, todo, chan, batch)
        /\ TailOK
-----------------------------------------------------------------------------
(* What the operations of the writer do to its state.                        *)

\* The same changes, some of them moved from the block to the file.
Kept(d, e) ==
    /\ e \in Dumps /\ DumpOK(e)
    /\ Written(e) = Written(d) /\ e.dropped = d.dropped
    /\ SettledOf(d) \subseteq SettledOf(e) /\ d.fileEnd <= e.fileEnd

\* A timestep packed or dropped.
Took(d, e, ts) ==
    /\ e \in Dumps /\ DumpOK(e) /\ e.final = d.final
    /\ \/ ts.id = 0 /\ Written(e) = Written(d) /\ e.dropped = d.dropped
       \/ ts.id # 0 /\ Written(e) = Append(Written(d), ts) /\ e.dropped = d.dropped
       \/ ts.id # 0 /\ Written(e) = Written(d) /\ e.dropped = d.dropped \cup {ts.id}
    /\ SettledOf(d) \subseteq SettledOf(e) /\ d.fileEnd <= e.fileEnd

LEMMA AppendToBoth ==
  ASSUME NEW S, NEW s \in Seq(S), NEW t \in Seq(S), NEW x \in S
  PROVE  s \o (t \o <<x>>) = Append(s \o t, x)
<1> DEFINE one == <<x>>
<1>1. one \in Seq(S)
  OBVIOUS
<1>2. s \o t \in Seq(S)
  BY ConcatProperties, Zenon
<1>3. Append(s \o t, x) = (s \o t) \o one
  BY <1>2, AppendIsConcat
<1> HIDE DEF one
<1>4. s \o (t \o one) = (s \o t) \o one
  BY <1>1, ConcatAssociative, SMTT(30)
<1> QED
  BY <1>3, <1>4 DEF one

\* Appending to a list adds to what is in it.
LEMMA IdsOfBoth ==
  ASSUME NEW s \in Seq(Timesteps), NEW t \in Seq(Timesteps)
  PROVE  /\ s \o t \in Seq(Timesteps)
         /\ IdsIn(s \o t) = IdsIn(s) \cup IdsIn(t)
<1>1. s \o t \in Seq(Timesteps) /\ Len(s \o t) = Len(s) + Len(t)
  OBVIOUS
<1>2. \A i \in 1 .. Len(s) : (s \o t)[i] = s[i]
  OBVIOUS
<1>3. \A i \in 1 .. Len(t) : (s \o t)[Len(s) + i] = t[i]
  OBVIOUS
<1>4. ASSUME NEW n \in IdsIn(s \o t) PROVE n \in IdsIn(s) \cup IdsIn(t)
  <2>1. PICK i \in 1 .. Len(s) + Len(t) : n = (s \o t)[i].id
    BY <1>1 DEF IdsIn
  <2>2. CASE i <= Len(s)
    BY <1>2, <2>1, <2>2 DEF IdsIn
  <2>3. CASE i > Len(s)
    <3>1. i - Len(s) \in 1 .. Len(t) /\ i = Len(s) + (i - Len(s))
      BY <2>1, <2>3
    <3>2. n = t[i - Len(s)].id
      BY <1>3, <2>1, <3>1
    <3> QED
      BY <3>1, <3>2 DEF IdsIn
  <2> QED
    BY <2>1, <2>2, <2>3
<1>5. IdsIn(s) \subseteq IdsIn(s \o t)
  BY <1>1, <1>2 DEF IdsIn
<1>6. ASSUME NEW n \in IdsIn(t) PROVE n \in IdsIn(s \o t)
  <2>1. PICK i \in 1 .. Len(t) : n = t[i].id
    BY <1>6 DEF IdsIn
  <2>2. Len(s) + i \in DOMAIN (s \o t) /\ n = (s \o t)[Len(s) + i].id
    BY <1>1, <1>3, <2>1
  <2> QED
    BY <2>2 DEF IdsIn
<1> QED
  BY <1>1, <1>4, <1>5, <1>6

LEMMA FlushKeeps ==
  ASSUME NEW d \in Dumps, DumpOK(d)
  PROVE  /\ Kept(d, Flush(d)) /\ Flush(d).final = d.final
         /\ Flush(d).lastTime = d.lastTime
         /\ d.lastTime > 0 => /\ Flush(d).block = <<>>
                              /\ Flush(d).fileEnd = d.lastTime
<1> DEFINE e == Flush(d)
<1>1. CASE ~ d.open
  BY <1>1 DEF Flush, Kept, DumpOK, Dumps
<1>2. CASE d.open
  <2>1. /\ e.file = d.file \o d.block /\ e.block = <<>> /\ ~ e.open
        /\ e.fileEnd = d.lastTime /\ e.lastTime = d.lastTime /\ e.flushedOnce
        /\ e.final = d.final /\ e.dropped = d.dropped
        /\ d.file \in Seq(Timesteps) /\ d.block \in Seq(Timesteps)
    BY <1>2 DEF Flush, Dumps
  <2>2. e.file \in Seq(Timesteps) /\ IdsIn(d.file) \subseteq IdsIn(e.file)
    BY <2>1, IdsOfBoth
  <2>3. e = [d EXCEPT !.file = d.file \o d.block, !.block = <<>>, !.open = FALSE,
                      !.fileEnd = d.lastTime, !.flushedOnce = TRUE]
    BY <1>2 DEF Flush
  <2>4. e \in Dumps
    <3>1. /\ d.file \o d.block \in Seq(Timesteps) /\ <<>> \in Seq(Timesteps)
          /\ d.lastTime \in Times
      BY <2>1, <2>2 DEF Dumps
    <3> HIDE DEF e
    <3> QED
      BY <2>3, <3>1 DEF Dumps
  <2>5. Written(e) = Written(d)
    BY <2>1, <2>2 DEF Written
  <2>6. DumpOK(e) /\ d.fileEnd <= e.fileEnd
    BY <2>1, <1>2, d \in Dumps DEF DumpOK, Dumps, Times
  <2> QED
    BY <2>1, <2>2, <2>4, <2>5, <2>6 DEF Kept, SettledOf
<1> QED
  BY <1>1, <1>2

LEMMA DueFlushKeeps ==
  ASSUME NEW d \in Dumps, DumpOK(d), NEW e \in DueFlush(d)
  PROVE  Kept(d, e) /\ e.final = d.final
<1>1. e = d \/ e = Flush(d)
  BY DEF DueFlush
<1>2. Kept(d, d)
  BY DEF Kept, Dumps, Times
<1> QED
  BY <1>1, <1>2, FlushKeeps

\* Writer::finish leaves nothing in the block.
LEMMA FinishKeeps ==
  ASSUME NEW d \in Dumps, DumpOK(d)
  PROVE  Kept(d, Finish(d)) /\ Finish(d).final
<1> DEFINE e == Finish(d)
<1>1. /\ e.file = d.file \o d.block /\ e.block = <<>> /\ ~ e.open
      /\ e.fileEnd = d.lastTime /\ e.lastTime = d.lastTime /\ e.final
      /\ e.flushedOnce = d.flushedOnce /\ e.dropped = d.dropped
      /\ d.file \in Seq(Timesteps) /\ d.block \in Seq(Timesteps)
  BY DEF Finish, Dumps
<1>2. e.file \in Seq(Timesteps) /\ IdsIn(d.file) \subseteq IdsIn(e.file)
  BY <1>1, IdsOfBoth
<1>3. e \in Dumps
  <2>1. /\ d.file \o d.block \in Seq(Timesteps) /\ <<>> \in Seq(Timesteps)
        /\ d.lastTime \in Times
    BY <1>1, <1>2 DEF Dumps
  <2> QED
    BY <2>1 DEF Dumps, Finish
<1>4. Written(e) = Written(d)
  BY <1>1, <1>2 DEF Written
<1>5. DumpOK(e) /\ d.fileEnd <= e.fileEnd
  BY <1>1 DEF DumpOK, Dumps, Times
<1> QED
  BY <1>1, <1>2, <1>3, <1>4, <1>5 DEF Kept, SettledOf

\* Writer::apply takes a timestep: it is packed or, after a flush at its own
\* time, left out.
LEMMA PackedTakes ==
  ASSUME NEW d \in Dumps, DumpOK(d), ~ d.final, NEW ts \in Timesteps
  PROVE  /\ Took(d, Packed(d, ts), ts)
         /\ Packed(d, ts).lastTime >= ts.time
         /\ Packed(d, ts).lastTime \in Times
<1> DEFINE e == Packed(d, ts)
           record == IF ts.id = 0 THEN <<>> ELSE <<ts>>
<1>0. /\ d.file \in Seq(Timesteps) /\ d.block \in Seq(Timesteps)
      /\ d.lastTime \in Times /\ d.fileEnd \in Times /\ ts.time \in Times
      /\ ts.id \in Ids /\ d.dropped \in SUBSET Ids
      /\ d.open \in BOOLEAN /\ d.flushedOnce \in BOOLEAN
  BY DEF Dumps, Timesteps
<1>1. record \in Seq(Timesteps)
  OBVIOUS
<1>2. d.block \o record \in Seq(Timesteps)
  BY <1>0, <1>1
<1>3. /\ ts.id = 0 => d.file \o (d.block \o record) = d.file \o d.block
      /\ ts.id # 0 => d.file \o (d.block \o record) = Append(d.file \o d.block, ts)
  <2>1. ts.id = 0 => d.block \o record = d.block
    BY <1>0
  <2>2. d.file \o (d.block \o <<ts>>) = Append(d.file \o d.block, ts)
    <3>1. \A s, t \in Seq(Timesteps) : s \o (t \o <<ts>>) = Append(s \o t, ts)
      BY AppendToBoth
    <3>2. d.file \in Seq(Timesteps) /\ d.block \in Seq(Timesteps)
      BY <1>0
    <3> QED
      BY <3>1, <3>2, Zenon
  <2> QED
    BY <2>1, <2>2
<1>4. CASE ts.time > d.lastTime
  <2>1. e = [d EXCEPT !.lastTime = ts.time, !.open = TRUE,
                      !.block = d.block \o record]
    BY <1>4 DEF Packed
  <2>2. /\ e \in Dumps /\ e.file = d.file /\ e.block = d.block \o record
        /\ e.dropped = d.dropped /\ e.final = d.final /\ e.fileEnd = d.fileEnd
        /\ e.open /\ e.lastTime = ts.time
    BY <1>0, <1>2, <2>1 DEF Dumps
  <2>3. DumpOK(e)
    BY <2>2, <1>0, <1>4 DEF DumpOK, Times
  <2>4. e.lastTime >= ts.time /\ e.lastTime \in Times
    BY <2>2, <1>0 DEF Times
  <2> HIDE DEF e, record
  <2>5. /\ SettledOf(e) = SettledOf(d) /\ d.fileEnd <= e.fileEnd
        /\ ts.id = 0 => Written(e) = Written(d)
        /\ ts.id # 0 => Written(e) = Append(Written(d), ts)
    <3>1. SettledOf(e) = SettledOf(d) /\ d.fileEnd <= e.fileEnd
      BY <2>2, <1>0 DEF SettledOf, Times
    <3>2. Written(e) = d.file \o (d.block \o record)
      BY <2>2 DEF Written
    <3> QED
      BY <3>1, <3>2, <1>3 DEF Written, record
  <2> QED
    BY <2>2, <2>3, <2>4, <2>5 DEF Took, e
<1>5. CASE ~ ts.time > d.lastTime /\ d.flushedOnce /\ ~ d.open
  <2>1. e = [d EXCEPT !.dropped = d.dropped \cup IdsIn(record)]
    BY <1>5 DEF Packed
  <2>2. /\ ts.id = 0 => IdsIn(record) = {}
        /\ ts.id # 0 => IdsIn(record) = {ts.id}
    BY DEF IdsIn
  <2>3. /\ e \in Dumps /\ e.file = d.file /\ e.block = d.block
        /\ e.dropped = d.dropped \cup IdsIn(record)
        /\ e.final = d.final /\ e.fileEnd = d.fileEnd /\ e.open = d.open
        /\ e.lastTime = d.lastTime /\ e.flushedOnce = d.flushedOnce
    BY <1>0, <2>1, <2>2 DEF Dumps
  <2>4. DumpOK(e)
    BY <2>3, <1>0 DEF DumpOK, Times
  <2>5. e.lastTime >= ts.time /\ e.lastTime \in Times
    BY <2>3, <1>0, <1>5 DEF Times
  <2> HIDE DEF e, record
  <2>6. /\ SettledOf(d) \subseteq SettledOf(e) /\ d.fileEnd <= e.fileEnd
        /\ Written(e) = Written(d)
        /\ ts.id = 0 => e.dropped = d.dropped
        /\ ts.id # 0 => e.dropped = d.dropped \cup {ts.id}
    BY <2>2, <2>3, <1>0 DEF Written, SettledOf, Times
  <2> QED
    BY <2>3, <2>4, <2>5, <2>6 DEF Took, e
<1>6. CASE ~ ts.time > d.lastTime /\ ~ (d.flushedOnce /\ ~ d.open)
  <2>1. e = [d EXCEPT !.block = d.block \o record]
    BY <1>6 DEF Packed
  <2>2. /\ e \in Dumps /\ e.file = d.file /\ e.block = d.block \o record
        /\ e.dropped = d.dropped /\ e.final = d.final /\ e.fileEnd = d.fileEnd
        /\ e.open = d.open /\ e.lastTime = d.lastTime
        /\ e.flushedOnce = d.flushedOnce
    BY <1>0, <1>2, <2>1 DEF Dumps
  <2>3. DumpOK(e)
    BY <2>2, <1>0, <1>6 DEF DumpOK, Times
  <2>4. e.lastTime >= ts.time /\ e.lastTime \in Times
    BY <2>2, <1>0, <1>6 DEF Times
  <2> HIDE DEF e, record
  <2>5. /\ SettledOf(e) = SettledOf(d) /\ d.fileEnd <= e.fileEnd
        /\ ts.id = 0 => Written(e) = Written(d)
        /\ ts.id # 0 => Written(e) = Append(Written(d), ts)
    <3>1. SettledOf(e) = SettledOf(d) /\ d.fileEnd <= e.fileEnd
      BY <2>2, <1>0 DEF SettledOf, Times
    <3>2. Written(e) = d.file \o (d.block \o record)
      BY <2>2 DEF Written
    <3> QED
      BY <3>1, <3>2, <1>3 DEF Written, record
  <2> QED
    BY <2>2, <2>3, <2>4, <2>5 DEF Took, e
<1> QED
  BY <1>4, <1>5, <1>6

\* What is packed may be flushed afterwards.
LEMMA TookThenKept ==
  ASSUME NEW d \in Dumps, NEW e \in Dumps, NEW f, NEW ts,
         Took(d, e, ts), Kept(e, f), f.final = e.final
  PROVE  Took(d, f, ts)
  BY SMTT(30) DEF Took, Kept, Dumps, Times

LEMMA ApplyTakes ==
  ASSUME NEW d \in Dumps, DumpOK(d), ~ d.final, NEW ts \in Timesteps,
         NEW e \in Apply(d, ts)
  PROVE  Took(d, e, ts)
<1>1. Took(d, Packed(d, ts), ts)
  BY PackedTakes
<1>2. Packed(d, ts) \in Dumps /\ DumpOK(Packed(d, ts))
  BY <1>1 DEF Took
<1>3. e = Packed(d, ts) \/ e = Flush(Packed(d, ts))
  BY DEF Apply
<1> QED
  BY <1>1, <1>2, <1>3, FlushKeeps, TookThenKept

\* Writer::tail writes all there is, and the file then ends at the slot.
LEMMA CloseKeeps ==
  ASSUME NEW d \in Dumps, DumpOK(d), ~ d.final, NEW t \in Times
  PROVE  LET e == CloseAt(d, t)
         IN  /\ Kept(d, e) /\ e.final = d.final
             /\ t > 0 => e.block = <<>> /\ e.fileEnd >= t
<1> DEFINE ts == [time |-> Max2(t, d.lastTime), id |-> 0]
           p  == Packed(d, ts)
           f  == Flush(p)
           e  == CloseAt(d, t)
<1>1. ts \in Timesteps /\ ts.time >= t /\ ts.id = 0
  <2>1. Max2(t, d.lastTime) \in Times /\ Max2(t, d.lastTime) >= t /\ 0 \in Ids
    BY SinkAssumption DEF Max2, Dumps, Times, Ids
  <2> QED
    BY <2>1 DEF Timesteps
<1>2. Took(d, p, ts) /\ p.lastTime >= t /\ p.lastTime \in Times
  BY <1>1, PackedTakes DEF Times, Timesteps
<1>3. p \in Dumps /\ DumpOK(p)
  BY <1>2 DEF Took
<1>4. /\ Kept(p, f) /\ f.final = p.final /\ f.lastTime = p.lastTime
      /\ p.lastTime > 0 => f.block = <<>> /\ f.fileEnd = p.lastTime
  BY <1>3, FlushKeeps
<1>5. e = [f EXCEPT !.tailed = f.tailed \cup {f.lastTime}]
  BY DEF CloseAt
<1>6. f \in Dumps
  BY <1>4 DEF Kept
<1>7. /\ e \in Dumps /\ e.file = f.file /\ e.block = f.block
      /\ e.dropped = f.dropped /\ e.final = f.final /\ e.fileEnd = f.fileEnd
      /\ e.open = f.open /\ e.lastTime = f.lastTime
      /\ e.flushedOnce = f.flushedOnce
  <2> HIDE DEF e, f, p, ts
  <2> QED
    BY <1>5, <1>6 DEF Dumps
<1>8. DumpOK(e)
  BY <1>4, <1>7 DEF DumpOK, Kept
<1>9. Kept(d, e)
  <2>1. /\ Written(p) = Written(d) /\ p.dropped = d.dropped
        /\ SettledOf(d) \subseteq SettledOf(p) /\ d.fileEnd <= p.fileEnd
    BY <1>1, <1>2 DEF Took
  <2>2. /\ Written(f) = Written(p) /\ f.dropped = p.dropped
        /\ SettledOf(p) \subseteq SettledOf(f) /\ p.fileEnd <= f.fileEnd
    BY <1>4 DEF Kept
  <2>3. Written(e) = Written(f) /\ SettledOf(e) = SettledOf(f)
    BY <1>7 DEF Written, SettledOf
  <2>4. d.fileEnd <= f.fileEnd
    BY <2>1, <2>2, <1>3, <1>6 DEF Dumps, Times
  <2> HIDE DEF e, f, p, ts
  <2> QED
    BY <1>7, <1>8, <2>1, <2>2, <2>3, <2>4 DEF Kept
<1> QED
  BY <1>2, <1>4, <1>7, <1>9 DEF Took, Times
-----------------------------------------------------------------------------
(* What moving a post on does to the order of all.                           *)

\* The lists at the places, when the last of them grows.
LEMMA PlacesAre ==
  ASSUME NEW td \in Seq(Timesteps), NEW c \in Seq(Messages), NEW b \in Seq(Timesteps)
  PROVE  /\ \A i \in Places(c) : Place(td, c, b, i) \in Seq(Timesteps)
         /\ Len(c) \in Nat /\ Len(c) + 1 \in Places(c) /\ 0 \in Places(c)
         /\ Place(td, c, b, 0) = td /\ Place(td, c, b, Len(c) + 1) = b
         /\ \A i \in 1 .. Len(c) : Place(td, c, b, i) = c[i].list
         /\ \A i \in Places(c) : i \in Int /\ (i = 0 \/ i \in 1 .. Len(c) \/ i = Len(c) + 1)
<1>1. Len(c) \in Nat /\ \A i \in 1 .. Len(c) : c[i] \in Messages
  OBVIOUS
<1>2. \A m \in Messages : m.list \in Seq(Timesteps)
  BY EmptySeq DEF Messages
<1>3. \A i \in Places(c) : i \in Int /\ (i = 0 \/ i \in 1 .. Len(c) \/ i = Len(c) + 1)
  BY <1>1 DEF Places
<1>4. /\ Place(td, c, b, 0) = td /\ Place(td, c, b, Len(c) + 1) = b
      /\ \A i \in 1 .. Len(c) : Place(td, c, b, i) = c[i].list
  BY <1>1 DEF Place
<1>5. \A i \in Places(c) : Place(td, c, b, i) \in Seq(Timesteps)
  BY <1>1, <1>2, <1>3, <1>4
<1> QED
  BY <1>1, <1>3, <1>4, <1>5 DEF Places

\* A new post joins the batch.
LEMMA PostAdds ==
  ASSUME NEW ps \in Seq(Times), NEW d \in Dumps, NEW td \in Seq(Timesteps),
         NEW c \in Seq(Messages), NEW b \in Seq(Timesteps),
         DataOK(ps, d, td, c, b), NEW t \in Times, NEW ts \in Timesteps,
         ts.time = t, ts.id = Len(ps) + 1
  PROVE  DataOK(Append(ps, t), d, td, c, Append(b, ts))
<1> DEFINE qs == Append(ps, t)
           b2 == Append(b, ts)
           P(i) == Place(td, c, b, i)
           Q(i) == Place(td, c, b2, i)
<1>1. /\ Len(qs) = Len(ps) + 1 /\ Len(ps) \in Nat
      /\ \A n \in 1 .. Len(ps) : qs[n] = ps[n]
      /\ qs[Len(ps) + 1] = t
  OBVIOUS
<1>2. /\ b2 \in Seq(Timesteps) /\ Len(b2) = Len(b) + 1 /\ Len(b) \in Nat
      /\ \A k \in 1 .. Len(b) : b2[k] = b[k]
      /\ b2[Len(b) + 1] = ts /\ DOMAIN b2 = 1 .. Len(b) + 1 /\ DOMAIN b = 1 .. Len(b)
  OBVIOUS
<1>3. /\ P(Len(c) + 1) = b /\ Q(Len(c) + 1) = b2
      /\ \A i \in Places(c) : i # Len(c) + 1 => Q(i) = P(i) /\ i < Len(c) + 1
      /\ Len(c) + 1 \in Places(c) /\ Len(c) \in Nat
  <2>1. /\ P(0) = td /\ P(Len(c) + 1) = b /\ \A i \in 1 .. Len(c) : P(i) = c[i].list
        /\ \A i \in Places(c) : i \in Int /\ (i = 0 \/ i \in 1 .. Len(c) \/ i = Len(c) + 1)
        /\ Len(c) \in Nat /\ Len(c) + 1 \in Places(c)
    BY PlacesAre
  <2> HIDE DEF b2
  <2>2. /\ Q(0) = td /\ Q(Len(c) + 1) = b2 /\ \A i \in 1 .. Len(c) : Q(i) = c[i].list
    BY <1>2, PlacesAre
  <2> HIDE DEF P, Q
  <2> QED
    BY <2>1, <2>2
<1> HIDE DEF P, Q, b2
<1>4. \A i \in Places(c) : \A k \in DOMAIN Q(i) :
         \/ k \in DOMAIN P(i) /\ Q(i)[k] = P(i)[k]
         \/ i = Len(c) + 1 /\ k = Len(b) + 1 /\ Q(i)[k] = ts
  <2> SUFFICES ASSUME NEW i \in Places(c), NEW k \in DOMAIN Q(i)
               PROVE  \/ k \in DOMAIN P(i) /\ Q(i)[k] = P(i)[k]
                      \/ i = Len(c) + 1 /\ k = Len(b) + 1 /\ Q(i)[k] = ts
    OBVIOUS
  <2>1. CASE i # Len(c) + 1
    BY <1>3, <2>1
  <2>2. CASE i = Len(c) + 1
    <3>1. P(i) = b /\ Q(i) = b2
      BY <1>3, <2>2
    <3>2. k \in 1 .. Len(b) + 1
      BY <1>2, <3>1
    <3>3. CASE k \in 1 .. Len(b)
      BY <1>2, <3>1, <3>3
    <3>4. CASE k = Len(b) + 1
      BY <1>2, <2>2, <3>1, <3>4
    <3> QED
      BY <1>2, <3>2, <3>3, <3>4
  <2> QED
    BY <2>1, <2>2
<1>5. WrittenOK(qs, d)
  BY <1>1 DEF WrittenOK, DataOK
<1>6. \A n \in Had(d) : n \in 1 .. Len(ps)
  BY DEF DataOK, WrittenOK, Had, IdsIn
<1>7. \A i \in Places(c) : \A k \in DOMAIN P(i) :
         P(i)[k].id # 0 => /\ P(i)[k].id \in 1 .. Len(ps)
                           /\ P(i)[k].time = ps[P(i)[k].id]
                           /\ \A n \in Had(d) : n < P(i)[k].id
  BY DEF DataOK, OnItsWayOK, P
<1>8. \A i, j \in Places(c) : \A k \in DOMAIN P(i) : \A l \in DOMAIN P(j) :
         (i < j \/ (i = j /\ k < l)) /\ P(i)[k].id # 0 /\ P(j)[l].id # 0
            => P(i)[k].id < P(j)[l].id
  BY DEF DataOK, OnItsWayOK, P
<1>9. ASSUME NEW i \in Places(c), NEW k \in DOMAIN Q(i), Q(i)[k].id # 0
      PROVE  /\ Q(i)[k].id \in 1 .. Len(qs) /\ Q(i)[k].time = qs[Q(i)[k].id]
             /\ \A n \in Had(d) : n < Q(i)[k].id
  <2>1. CASE k \in DOMAIN P(i) /\ Q(i)[k] = P(i)[k]
    BY <1>1, <1>7, <1>9, <2>1
  <2>2. CASE Q(i)[k] = ts
    BY <1>1, <1>6, <2>2
  <2> QED
    BY <1>4, <2>1, <2>2
<1>10. ASSUME NEW i \in Places(c), NEW j \in Places(c), NEW k \in DOMAIN Q(i),
              NEW l \in DOMAIN Q(j), i < j \/ (i = j /\ k < l),
              Q(i)[k].id # 0, Q(j)[l].id # 0
       PROVE  Q(i)[k].id < Q(j)[l].id
  <2>1. CASE k \in DOMAIN P(i) /\ Q(i)[k] = P(i)[k]
    <3>1. CASE l \in DOMAIN P(j) /\ Q(j)[l] = P(j)[l]
      BY <1>8, <1>10, <2>1, <3>1
    <3>2. CASE Q(j)[l] = ts
      BY <1>7, <1>10, <2>1, <3>2
    <3> QED
      BY <1>4, <3>1, <3>2
  <2>2. CASE i = Len(c) + 1 /\ k = Len(b) + 1
    <3>1. j = Len(c) + 1
      BY <1>3, <1>10, <2>2 DEF Places
    <3>2. l \in 1 .. Len(b) + 1
      BY <3>1, <1>2, <1>3
    <3> QED
      BY <1>2, <1>10, <2>2, <3>1, <3>2
  <2> QED
    BY <1>4, <2>1, <2>2
<1>11. OnItsWayOK(qs, d, td, c, b2)
  BY <1>9, <1>10 DEF OnItsWayOK, Q
<1>12. NoneLost(qs, d, td, c, b2)
  <2> SUFFICES ASSUME NEW n \in 1 .. Len(qs), n \notin Had(d)
               PROVE  \E i \in Places(c) : n \in IdsIn(Q(i))
    BY DEF NoneLost, Q
  <2>1. CASE n = Len(ps) + 1
    <3>1. n \in IdsIn(b2)
      BY <1>2, <2>1 DEF IdsIn
    <3> QED
      BY <1>3, <3>1
  <2>2. CASE n \in 1 .. Len(ps)
    <3>1. PICK i \in Places(c) : n \in IdsIn(P(i))
      BY <2>2 DEF DataOK, NoneLost, P
    <3>2. IdsIn(b) \subseteq IdsIn(b2)
      BY <1>2 DEF IdsIn
    <3>3. n \in IdsIn(Q(i))
      BY <1>3, <3>1, <3>2
    <3> QED
      BY <3>3
  <2> QED
    BY <1>1, <2>1, <2>2
<1> QED
  BY <1>5, <1>11, <1>12 DEF DataOK, b2

\* The closing timestep, which carries no changes, joins the batch.
LEMMA EndAdds ==
  ASSUME NEW ps \in Seq(Times), NEW d \in Dumps, NEW td \in Seq(Timesteps),
         NEW c \in Seq(Messages), NEW b \in Seq(Timesteps),
         DataOK(ps, d, td, c, b), NEW ts \in Timesteps, ts.id = 0
  PROVE  DataOK(ps, d, td, c, Append(b, ts))
<1> DEFINE b2 == Append(b, ts)
           P(i) == Place(td, c, b, i)
           Q(i) == Place(td, c, b2, i)
<1>2. /\ b2 \in Seq(Timesteps) /\ Len(b2) = Len(b) + 1 /\ Len(b) \in Nat
      /\ \A k \in 1 .. Len(b) : b2[k] = b[k]
      /\ b2[Len(b) + 1] = ts /\ DOMAIN b2 = 1 .. Len(b) + 1 /\ DOMAIN b = 1 .. Len(b)
  OBVIOUS
<1>3. /\ P(Len(c) + 1) = b /\ Q(Len(c) + 1) = b2
      /\ \A i \in Places(c) : i # Len(c) + 1 => Q(i) = P(i)
  <2>1. /\ P(0) = td /\ P(Len(c) + 1) = b /\ \A i \in 1 .. Len(c) : P(i) = c[i].list
        /\ \A i \in Places(c) : i \in Int /\ (i = 0 \/ i \in 1 .. Len(c) \/ i = Len(c) + 1)
    BY PlacesAre
  <2> HIDE DEF b2
  <2>2. /\ Q(0) = td /\ Q(Len(c) + 1) = b2 /\ \A i \in 1 .. Len(c) : Q(i) = c[i].list
    BY <1>2, PlacesAre
  <2> HIDE DEF P, Q
  <2> QED
    BY <2>1, <2>2
<1> HIDE DEF P, Q, b2
<1>4. ASSUME NEW i \in Places(c), NEW k \in DOMAIN Q(i), Q(i)[k].id # 0
      PROVE  k \in DOMAIN P(i) /\ Q(i)[k] = P(i)[k]
  <2>1. CASE i # Len(c) + 1
    BY <1>3, <2>1
  <2>2. CASE i = Len(c) + 1
    <3>1. P(i) = b /\ Q(i) = b2
      BY <1>3, <2>2
    <3>2. k \in 1 .. Len(b) + 1 /\ k # Len(b) + 1
      BY <1>2, <1>4, <3>1
    <3>3. k \in 1 .. Len(b)
      BY <1>2, <3>2
    <3> QED
      BY <1>2, <3>1, <3>3
  <2> QED
    BY <2>1, <2>2
<1>5. \A i \in Places(c) : \A k \in DOMAIN P(i) :
         P(i)[k].id # 0 => /\ P(i)[k].id \in 1 .. Len(ps)
                           /\ P(i)[k].time = ps[P(i)[k].id]
                           /\ \A n \in Had(d) : n < P(i)[k].id
  BY DEF DataOK, OnItsWayOK, P
<1>6. \A i, j \in Places(c) : \A k \in DOMAIN P(i) : \A l \in DOMAIN P(j) :
         (i < j \/ (i = j /\ k < l)) /\ P(i)[k].id # 0 /\ P(j)[l].id # 0
            => P(i)[k].id < P(j)[l].id
  BY DEF DataOK, OnItsWayOK, P
<1>7. OnItsWayOK(ps, d, td, c, b2)
  <2>1. ASSUME NEW i \in Places(c), NEW k \in DOMAIN Q(i), Q(i)[k].id # 0
        PROVE  /\ Q(i)[k].id \in 1 .. Len(ps) /\ Q(i)[k].time = ps[Q(i)[k].id]
               /\ \A n \in Had(d) : n < Q(i)[k].id
    BY <1>4, <1>5, <2>1
  <2>2. ASSUME NEW i \in Places(c), NEW j \in Places(c), NEW k \in DOMAIN Q(i),
               NEW l \in DOMAIN Q(j), i < j \/ (i = j /\ k < l),
               Q(i)[k].id # 0, Q(j)[l].id # 0
        PROVE  Q(i)[k].id < Q(j)[l].id
    BY <1>4, <1>6, <2>2
  <2> QED
    BY <2>1, <2>2 DEF OnItsWayOK, Q
<1>8. NoneLost(ps, d, td, c, b2)
  <2> SUFFICES ASSUME NEW n \in 1 .. Len(ps), n \notin Had(d)
               PROVE  \E i \in Places(c) : n \in IdsIn(Q(i))
    BY DEF NoneLost, Q
  <2>1. PICK i \in Places(c) : n \in IdsIn(P(i))
    BY DEF DataOK, NoneLost, P
  <2>2. IdsIn(b) \subseteq IdsIn(b2)
    BY <1>2 DEF IdsIn
  <2> QED
    BY <1>3, <2>1, <2>2
<1> QED
  BY <1>7, <1>8 DEF DataOK, b2

\* Places of the same content in the same order: what hand_off does.
LEMMA SamePlaces ==
  ASSUME NEW ps, NEW d, NEW td, NEW c, NEW b, NEW c2, NEW b2,
         DataOK(ps, d, td, c, b), Places(c) \subseteq Places(c2),
         \A i \in Places(c) : Place(td, c2, b2, i) = Place(td, c, b, i),
         \A i \in Places(c2) \ Places(c) : Place(td, c2, b2, i) = <<>>
  PROVE  DataOK(ps, d, td, c2, b2)
<1> DEFINE P(i) == Place(td, c, b, i)
           Q(i) == Place(td, c2, b2, i)
<1>1. ASSUME NEW i \in Places(c2), NEW k \in DOMAIN Q(i)
      PROVE  i \in Places(c) /\ k \in DOMAIN P(i) /\ Q(i) = P(i)
  BY <1>1
<1>2. \A i \in Places(c) : i \in Places(c2) /\ Q(i) = P(i)
  OBVIOUS
<1>3. /\ \A i \in Places(c) : \A k \in DOMAIN P(i) :
            P(i)[k].id # 0 => /\ P(i)[k].id \in 1 .. Len(ps)
                              /\ P(i)[k].time = ps[P(i)[k].id]
                              /\ \A n \in Had(d) : n < P(i)[k].id
      /\ \A i, j \in Places(c) : \A k \in DOMAIN P(i) : \A l \in DOMAIN P(j) :
            (i < j \/ (i = j /\ k < l)) /\ P(i)[k].id # 0 /\ P(j)[l].id # 0
               => P(i)[k].id < P(j)[l].id
      /\ \A n \in 1 .. Len(ps) : n \in Had(d) \/ \E i \in Places(c) : n \in IdsIn(P(i))
  BY DEF DataOK, OnItsWayOK, NoneLost
<1> HIDE DEF P, Q
<1>4. OnItsWayOK(ps, d, td, c2, b2)
  <2>1. ASSUME NEW i \in Places(c2), NEW k \in DOMAIN Q(i), Q(i)[k].id # 0
        PROVE  /\ Q(i)[k].id \in 1 .. Len(ps) /\ Q(i)[k].time = ps[Q(i)[k].id]
               /\ \A n \in Had(d) : n < Q(i)[k].id
    BY <1>1, <1>3, <2>1
  <2>2. ASSUME NEW i \in Places(c2), NEW j \in Places(c2), NEW k \in DOMAIN Q(i),
               NEW l \in DOMAIN Q(j), i < j \/ (i = j /\ k < l),
               Q(i)[k].id # 0, Q(j)[l].id # 0
        PROVE  Q(i)[k].id < Q(j)[l].id
    BY <1>1, <1>3, <2>2
  <2> QED
    BY <2>1, <2>2 DEF OnItsWayOK, Q
<1>5. NoneLost(ps, d, td, c2, b2)
  BY <1>2, <1>3 DEF NoneLost, Q
<1> QED
  BY <1>4, <1>5 DEF DataOK

\* The channel after a batch b was handed on, and what may be sent after it.
HandedOn(c, b, after) == (IF b # <<>> THEN Append(c, Batch(b)) ELSE c) \o after
NoList(after) == after = <<>> \/ \E m \in Messages : m.list = <<>> /\ after = <<m>>
NoTail(after) == \A x : after = <<x>> => x.kind # "tail"

\* Every list stays at its place when the batch becomes a message, and what is
\* new in the channel is that message and the one sent after it.
Moved(td, c, b, c2, after) ==
    /\ c2 \in Seq(Messages) /\ Len(c2) >= Len(c) /\ Len(c2) \in Nat
    /\ \A i \in 1 .. Len(c) : c2[i] = c[i]
    /\ \A i \in Len(c) + 1 .. Len(c2) :
          c2[i].kind = "batch" \/ (after = <<c2[i]>> /\ i = Len(c2))
    /\ after # <<>> => /\ Len(c2) > Len(c) /\ after = <<c2[Len(c2)]>>
    /\ Places(c) \subseteq Places(c2)
    /\ \A i \in Places(c) : Place(td, c2, <<>>, i) = Place(td, c, b, i)
    /\ \A i \in Places(c2) \ Places(c) : Place(td, c2, <<>>, i) = <<>>

\* hand_off, and what is sent after it.
LEMMA HandOffMoves ==
  ASSUME NEW td \in Seq(Timesteps), NEW c \in Seq(Messages),
         NEW b \in Seq(Timesteps), NEW c2, NEW after,
         NoList(after), c2 = HandedOn(c, b, after)
  PROVE  Moved(td, c, b, c2, after)
<1> DEFINE c1 == IF b # <<>> THEN Append(c, Batch(b)) ELSE c
<1>1. /\ Batch(b) \in Messages /\ Batch(b).list = b /\ Batch(b).kind = "batch"
  BY DEF Batch, Messages
<1> HIDE DEF Batch
<1>2. /\ c1 \in Seq(Messages) /\ Len(c) \in Nat
      /\ \A i \in 1 .. Len(c) : c1[i] = c[i]
      /\ b # <<>> => Len(c1) = Len(c) + 1 /\ c1[Len(c) + 1] = Batch(b)
      /\ b = <<>> => c1 = c
  BY <1>1
<1>3. /\ after \in Seq(Messages) /\ Len(after) \in Nat
      /\ after # <<>> => /\ Len(after) = 1 /\ after[1].list = <<>>
                         /\ after = <<after[1]>>
      /\ after = <<>> => Len(after) = 0
  <2>1. CASE after = <<>>
    BY <2>1
  <2>2. ASSUME NEW m \in Messages, m.list = <<>>, after = <<m>>
        PROVE  /\ after \in Seq(Messages) /\ Len(after) = 1 /\ after[1] = m
    BY <2>2
  <2> QED
    BY <2>1, <2>2 DEF NoList
<1>4. c2 = c1 \o after
  BY DEF HandedOn
<1> HIDE DEF c1
<1>5. /\ c2 \in Seq(Messages) /\ Len(c2) = Len(c1) + Len(after)
      /\ Len(c1) \in Nat
      /\ \A i \in 1 .. Len(c1) : c2[i] = c1[i]
      /\ \A i \in 1 .. Len(after) : c2[Len(c1) + i] = after[i]
  <2>1. /\ c1 \o after \in Seq(Messages) /\ Len(c1 \o after) = Len(c1) + Len(after)
        /\ Len(c1) \in Nat /\ Len(after) \in Nat
        /\ \A i \in 1 .. Len(c1) : (c1 \o after)[i] = c1[i]
        /\ \A i \in 1 .. Len(after) : (c1 \o after)[Len(c1) + i] = after[i]
    <3>1. c1 \in Seq(Messages) /\ after \in Seq(Messages)
      BY <1>2, <1>3
    <3>2. /\ Len(c1 \o after) = Len(c1) + Len(after)
          /\ \A i \in 1 .. Len(c1) + Len(after) :
                (c1 \o after)[i] = IF i <= Len(c1) THEN c1[i] ELSE after[i - Len(c1)]
      BY <3>1, ConcatProperties
    <3>3. c1 \o after \in Seq(Messages) /\ Len(c1) \in Nat /\ Len(after) \in Nat
      BY <3>1, ConcatProperties
    <3>4. ASSUME NEW i \in 1 .. Len(after)
          PROVE  (c1 \o after)[Len(c1) + i] = after[i]
      <4>1. /\ Len(c1) + i \in 1 .. Len(c1) + Len(after) /\ ~ Len(c1) + i <= Len(c1)
            /\ (Len(c1) + i) - Len(c1) = i
        BY <3>3
      <4> QED
        BY <3>2, <4>1
    <3> QED
      BY <3>2, <3>3, <3>4
  <2> QED
    BY <1>4, <2>1
<1>6. /\ Len(c2) >= Len(c) /\ Len(c2) \in Nat
      /\ \A i \in 1 .. Len(c) : c2[i] = c[i]
  BY <1>2, <1>3, <1>5, SMTT(30)
<1>7. ASSUME NEW i \in Len(c1) + 1 .. Len(c2)
      PROVE  /\ i = Len(c2) /\ after = <<c2[i]>> /\ c2[i].list = <<>> /\ after # <<>>
  <2>1. Len(after) = 1 /\ after # <<>> /\ i = Len(c1) + 1
    <3>1. Len(c2) = Len(c1) + Len(after) /\ Len(c1) \in Nat
      BY <1>5
    <3>2. Len(after) = 0 \/ (Len(after) = 1 /\ after # <<>>)
      BY <1>3
    <3>3. \A x \in Nat : \A l \in {0, 1} : \A y \in x + 1 .. x + l : l = 1 /\ y = x + 1
      OBVIOUS
    <3>4. Len(after) \in {0, 1} /\ i \in Len(c1) + 1 .. Len(c1) + Len(after)
      BY <3>1, <3>2, <1>7, Zenon
    <3>5. Len(after) = 1 /\ i = Len(c1) + 1
      BY <3>1, <3>3, <3>4, Zenon
    <3> QED
      BY <3>2, <3>5, 1 # 0
  <2>2. c2[i] = after[1] /\ i = Len(c2)
    <3>1. 1 \in 1 .. Len(after)
      BY <2>1
    <3>2. c2[Len(c1) + 1] = after[1]
      BY <1>5, <3>1
    <3> QED
      BY <1>5, <2>1, <3>2
  <2> QED
    BY <1>3, <2>1, <2>2
<1>8. \A i \in Len(c) + 1 .. Len(c2) :
         \/ c2[i] = Batch(b) /\ i = Len(c) + 1 /\ b # <<>>
         \/ i > Len(c1) /\ after = <<c2[i]>> /\ i = Len(c2) /\ c2[i].list = <<>>
  <2> SUFFICES ASSUME NEW i \in Len(c) + 1 .. Len(c2)
               PROVE  \/ c2[i] = Batch(b) /\ i = Len(c) + 1 /\ b # <<>>
                      \/ i > Len(c1) /\ after = <<c2[i]>> /\ i = Len(c2) /\ c2[i].list = <<>>
    OBVIOUS
  <2>1. CASE i > Len(c1)
    BY <1>2, <1>5, <1>7, <2>1
  <2>2. CASE i <= Len(c1)
    BY <1>2, <1>5, <2>2
  <2> QED
    BY <1>2, <1>5, <2>1, <2>2
<1>9. after # <<>> => Len(c2) > Len(c) /\ after = <<c2[Len(c2)]>>
  <2> SUFFICES ASSUME after # <<>>
               PROVE  Len(c2) > Len(c) /\ after = <<c2[Len(c2)]>>
    OBVIOUS
  <2>1. Len(c1) >= Len(c) /\ Len(c2) = Len(c1) + 1
    <3>1. Len(after) = 1
      BY <1>3
    <3>2. Len(c1) = Len(c) \/ Len(c1) = Len(c) + 1
      BY <1>2
    <3>3. Len(c2) = Len(c1) + 1
      BY <1>5, <3>1
    <3>4. Len(c1) >= Len(c)
      BY <1>2, <3>2
    <3> QED
      BY <3>3, <3>4
  <2>2. Len(c2) \in Len(c1) + 1 .. Len(c2)
    BY <1>5, <2>1
  <2>3. after = <<c2[Len(c2)]>>
    BY <1>7, <2>2
  <2>4. Len(c2) > Len(c)
    BY <1>2, <1>5, <2>1
  <2> QED
    BY <2>3, <2>4
<1>10. Places(c) \subseteq Places(c2)
  BY <1>2, <1>6 DEF Places
<1>11. ASSUME NEW i \in Places(c) PROVE Place(td, c2, <<>>, i) = Place(td, c, b, i)
  <2>1. CASE i <= Len(c)
    BY <1>2, <1>6, <2>1 DEF Place, Places
  <2>2. CASE i = Len(c) + 1
    <3>1. Place(td, c, b, i) = b
      BY <1>2, <2>2 DEF Place
    <3>2. CASE Len(c2) = Len(c)
      <4>1. Place(td, c2, <<>>, i) = <<>>
        <5>1. i # 0 /\ ~ i <= Len(c2)
          BY <1>2, <1>6, <2>2, <3>2
        <5> QED
          BY <5>1 DEF Place
      <4>2. b = <<>>
        BY <1>2, <1>3, <1>5, <3>2
      <4> QED
        BY <3>1, <4>1, <4>2
    <3>3. CASE Len(c2) > Len(c)
      <4>1. Place(td, c2, <<>>, i) = c2[i].list
        <5>1. i # 0 /\ i <= Len(c2)
          BY <1>2, <1>6, <2>2, <3>3
        <5> QED
          BY <5>1 DEF Place
      <4>2. CASE b # <<>>
        <5>1. c2[i] = Batch(b)
          BY <1>2, <1>5, <2>2, <4>2
        <5> QED
          BY <1>1, <3>1, <4>1, <5>1
      <4>3. CASE b = <<>>
        <5>1. c2[i].list = <<>>
          BY <1>2, <1>6, <1>7, <2>2, <3>3, <4>3
        <5> QED
          BY <3>1, <4>1, <4>3, <5>1
      <4> QED
        BY <4>2, <4>3
    <3> QED
      BY <1>2, <1>6, <3>2, <3>3
  <2> QED
    BY <1>2, <2>1, <2>2 DEF Places
<1>12. ASSUME NEW i \in Places(c2), i \notin Places(c)
       PROVE  Place(td, c2, <<>>, i) = <<>>
  <2>1. i > Len(c) + 1 /\ i \in 1 .. Len(c2) + 1
    BY <1>2, <1>6, <1>12 DEF Places
  <2>2. CASE i = Len(c2) + 1
    BY <1>6, <2>1, <2>2 DEF Place
  <2>3. CASE i \in 1 .. Len(c2)
    <3>1. c2[i].list = <<>>
      BY <1>2, <1>8, <2>1, <2>3
    <3> QED
      BY <1>6, <2>1, <2>3, <3>1 DEF Place
  <2>4. i = Len(c2) + 1 \/ i \in 1 .. Len(c2)
    <3>1. \A n \in Nat : \A k \in 1 .. n + 1 : k = n + 1 \/ k \in 1 .. n
      OBVIOUS
    <3> QED
      BY <1>6, <2>1, <3>1, Zenon
  <2> QED
    BY <2>2, <2>3, <2>4
<1> QED
  BY <1>1, <1>5, <1>6, <1>8, <1>9, <1>10, <1>11, <1>12 DEF Moved

\* The writer takes a message: the lists move up by one place.
LEMMA ReceiveMoves ==
  ASSUME NEW c \in Seq(Messages), c # <<>>, NEW b \in Seq(Timesteps)
  PROVE  /\ Tail(c) \in Seq(Messages) /\ Head(c) \in Messages /\ Head(c) = c[1]
         /\ Len(Tail(c)) = Len(c) - 1 /\ Len(c) \in Nat \ {0}
         /\ \A i \in 1 .. Len(c) - 1 : Tail(c)[i] = c[i + 1]
         /\ \A i \in Places(Tail(c)) :
               /\ i + 1 \in Places(c) /\ i \in Int
               /\ Place(Head(c).list, Tail(c), b, i) = Place(<<>>, c, b, i + 1)
         /\ \A i \in Places(c) : i # 0 => i - 1 \in Places(Tail(c)) /\ i = (i - 1) + 1
<1>1. /\ Tail(c) \in Seq(Messages) /\ Head(c) \in Messages /\ Head(c) = c[1]
      /\ Len(Tail(c)) = Len(c) - 1 /\ Len(c) \in Nat \ {0}
      /\ \A i \in 1 .. Len(c) - 1 : Tail(c)[i] = c[i + 1]
  OBVIOUS
<1>2. ASSUME NEW i \in Places(Tail(c))
      PROVE  /\ i + 1 \in Places(c) /\ i \in Int
             /\ Place(Head(c).list, Tail(c), b, i) = Place(<<>>, c, b, i + 1)
  <2>1. i \in 0 .. Len(c) /\ i + 1 # 0
    BY <1>1 DEF Places
  <2>2. CASE i = 0
    BY <1>1, <2>2 DEF Place, Places
  <2>3. CASE i \in 1 .. Len(c) - 1
    <3>1. Place(Head(c).list, Tail(c), b, i) = Tail(c)[i].list
      BY <1>1, <2>3 DEF Place
    <3>2. Place(<<>>, c, b, i + 1) = c[i + 1].list
      BY <1>1, <2>3 DEF Place
    <3> QED
      BY <1>1, <2>3, <3>1, <3>2 DEF Places
  <2>4. CASE i = Len(c)
    BY <1>1, <2>1, <2>4 DEF Place, Places
  <2>5. i = 0 \/ i \in 1 .. Len(c) - 1 \/ i = Len(c)
    <3>1. \A n \in Nat : \A k \in 0 .. n : k = 0 \/ k \in 1 .. n - 1 \/ k = n
      OBVIOUS
    <3>2. Len(c) \in Nat
      OBVIOUS
    <3> QED
      BY <2>1, <3>1, <3>2, Zenon
  <2>6. i \in Int
    BY <1>1, <2>1
  <2> QED
    BY <2>1, <2>2, <2>3, <2>4, <2>5, <2>6
<1>3. ASSUME NEW i \in Places(c), i # 0
      PROVE  i - 1 \in Places(Tail(c)) /\ i = (i - 1) + 1
  BY <1>1, <1>3 DEF Places
<1> QED
  BY <1>1, <1>2, <1>3

LEMMA Receives ==
  ASSUME NEW ps, NEW d, NEW c \in Seq(Messages), c # <<>>, NEW b \in Seq(Timesteps),
         DataOK(ps, d, <<>>, c, b)
  PROVE  DataOK(ps, d, Head(c).list, Tail(c), b)
<1> DEFINE c2 == Tail(c)
           P(i) == Place(<<>>, c, b, i)
           Q(i) == Place(Head(c).list, Tail(c), b, i)
<1>1. /\ \A i \in Places(c2) : i + 1 \in Places(c) /\ i \in Int /\ Q(i) = P(i + 1)
      /\ \A i \in Places(c) : i # 0 => i - 1 \in Places(c2) /\ i = (i - 1) + 1
  BY ReceiveMoves
<1>2. P(0) = <<>>
  BY DEF Place
<1>3. /\ \A i \in Places(c) : \A k \in DOMAIN P(i) :
            P(i)[k].id # 0 => /\ P(i)[k].id \in 1 .. Len(ps)
                              /\ P(i)[k].time = ps[P(i)[k].id]
                              /\ \A n \in Had(d) : n < P(i)[k].id
      /\ \A i, j \in Places(c) : \A k \in DOMAIN P(i) : \A l \in DOMAIN P(j) :
            (i < j \/ (i = j /\ k < l)) /\ P(i)[k].id # 0 /\ P(j)[l].id # 0
               => P(i)[k].id < P(j)[l].id
      /\ \A n \in 1 .. Len(ps) : n \in Had(d) \/ \E i \in Places(c) : n \in IdsIn(P(i))
  BY DEF DataOK, OnItsWayOK, NoneLost
<1> HIDE DEF P, Q, c2
<1>4. OnItsWayOK(ps, d, Head(c).list, c2, b)
  <2>1. ASSUME NEW i \in Places(c2), NEW k \in DOMAIN Q(i), Q(i)[k].id # 0
        PROVE  /\ Q(i)[k].id \in 1 .. Len(ps) /\ Q(i)[k].time = ps[Q(i)[k].id]
               /\ \A n \in Had(d) : n < Q(i)[k].id
    BY <1>1, <1>3, <2>1
  <2>2. ASSUME NEW i \in Places(c2), NEW j \in Places(c2), NEW k \in DOMAIN Q(i),
               NEW l \in DOMAIN Q(j), i < j \/ (i = j /\ k < l),
               Q(i)[k].id # 0, Q(j)[l].id # 0
        PROVE  Q(i)[k].id < Q(j)[l].id
    <3>1. /\ i + 1 \in Places(c) /\ Q(i) = P(i + 1)
          /\ j + 1 \in Places(c) /\ Q(j) = P(j + 1)
          /\ i + 1 < j + 1 \/ (i + 1 = j + 1 /\ k < l)
      BY <1>1, <2>2
    <3> QED
      BY <1>3, <2>2, <3>1
  <2> QED
    BY <2>1, <2>2 DEF OnItsWayOK, Q, c2
<1>5. NoneLost(ps, d, Head(c).list, c2, b)
  <2> SUFFICES ASSUME NEW n \in 1 .. Len(ps), n \notin Had(d)
               PROVE  \E i \in Places(c2) : n \in IdsIn(Q(i))
    BY DEF NoneLost, Q, c2
  <2>1. PICK i \in Places(c) : n \in IdsIn(P(i))
    BY <1>3
  <2>2. i # 0
    BY <1>2, <2>1 DEF IdsIn
  <2>3. i - 1 \in Places(c2) /\ Q(i - 1) = P(i)
    BY <1>1, <2>2
  <2> QED
    BY <2>1, <2>3
<1> QED
  BY <1>4, <1>5 DEF DataOK, c2

\* Taking the first of the writer's batch.
LEMMA Applies ==
  ASSUME NEW ps, NEW d \in Dumps, NEW e, NEW td \in Seq(Timesteps), td # <<>>,
         NEW c \in Seq(Messages), NEW b \in Seq(Timesteps),
         DataOK(ps, d, td, c, b), Took(d, e, Head(td))
  PROVE  DataOK(ps, e, Tail(td), c, b)
<1> DEFINE ts == Head(td)
           t2 == Tail(td)
           P(i) == Place(td, c, b, i)
           Q(i) == Place(t2, c, b, i)
<1>1. /\ ts = td[1] /\ t2 \in Seq(Timesteps) /\ Len(td) \in Nat \ {0}
      /\ DOMAIN td = 1 .. Len(td) /\ DOMAIN t2 = 1 .. Len(td) - 1
      /\ \A k \in 1 .. Len(td) - 1 : t2[k] = td[k + 1]
      /\ ts \in Timesteps
  OBVIOUS
<1>2. /\ 0 \in Places(c) /\ P(0) = td /\ Q(0) = t2
      /\ \A i \in Places(c) : i \in Int /\ i >= 0 /\ (i # 0 => P(i) = Q(i))
  <2>1. Len(c) \in Nat
    OBVIOUS
  <2> QED
    BY <2>1 DEF Places, Place
<1>3. /\ \A i \in Places(c) : \A k \in DOMAIN P(i) :
            P(i)[k].id # 0 => /\ P(i)[k].id \in 1 .. Len(ps)
                              /\ P(i)[k].time = ps[P(i)[k].id]
                              /\ \A n \in Had(d) : n < P(i)[k].id
      /\ \A i, j \in Places(c) : \A k \in DOMAIN P(i) : \A l \in DOMAIN P(j) :
            (i < j \/ (i = j /\ k < l)) /\ P(i)[k].id # 0 /\ P(j)[l].id # 0
               => P(i)[k].id < P(j)[l].id
      /\ \A n \in 1 .. Len(ps) : n \in Had(d) \/ \E i \in Places(c) : n \in IdsIn(P(i))
  BY DEF DataOK, OnItsWayOK, NoneLost
<1> HIDE DEF P, Q, t2, ts
\* What the writer has now.
<1>4. /\ ts.id = 0 => Had(e) = Had(d)
      /\ ts.id # 0 => Had(e) = Had(d) \cup {ts.id}
  <2>1. Written(d) \in Seq(Timesteps)
    BY IdsOfBoth DEF Written, Dumps
  <2>2. IdsIn(Append(Written(d), ts)) = IdsIn(Written(d)) \cup {ts.id}
    <3>1. <<ts>> \in Seq(Timesteps) /\ IdsIn(<<ts>>) = {ts.id}
      BY <1>1 DEF IdsIn
    <3>2. Append(Written(d), ts) = Written(d) \o <<ts>>
      BY <1>1, <2>1, AppendIsConcat
    <3> QED
      BY <2>1, <3>1, <3>2, IdsOfBoth
  <2>3. \/ ts.id = 0 /\ Written(e) = Written(d) /\ e.dropped = d.dropped
        \/ ts.id # 0 /\ Written(e) = Append(Written(d), ts) /\ e.dropped = d.dropped
        \/ ts.id # 0 /\ Written(e) = Written(d) /\ e.dropped = d.dropped \cup {ts.id}
    BY DEF Took, ts
  <2> QED
    BY <2>2, <2>3 DEF Had
<1>5. ts.id # 0 => /\ ts.id \in 1 .. Len(ps) /\ ts.time = ps[ts.id]
                   /\ \A n \in Had(d) : n < ts.id
  BY <1>1, <1>2, <1>3
<1>6. ASSUME NEW i \in Places(c), NEW k \in DOMAIN Q(i)
      PROVE  \E k2 \in DOMAIN P(i) : /\ Q(i)[k] = P(i)[k2]
                                     /\ i = 0 => k2 = k + 1 /\ k \in Int
                                     /\ i # 0 => k2 = k
  <2>1. CASE i # 0
    BY <1>2, <2>1
  <2>2. CASE i = 0
    <3>1. k \in 1 .. Len(td) - 1 /\ k + 1 \in DOMAIN td /\ t2[k] = td[k + 1]
      BY <1>1, <1>2, <2>2
    <3> QED
      BY <1>2, <2>2, <3>1
  <2> QED
    BY <2>1, <2>2
\* Whatever is still on its way is later than what was taken.
<1>7. ASSUME NEW i \in Places(c), NEW k \in DOMAIN Q(i), Q(i)[k].id # 0
      PROVE  /\ Q(i)[k].id \in 1 .. Len(ps) /\ Q(i)[k].time = ps[Q(i)[k].id]
             /\ \A n \in Had(e) : n < Q(i)[k].id
  <2>1. PICK k2 \in DOMAIN P(i) : /\ Q(i)[k] = P(i)[k2]
                                  /\ i = 0 => k2 = k + 1 /\ k \in Int
                                  /\ i # 0 => k2 = k
    BY <1>6
  <2>2. /\ Q(i)[k].id \in 1 .. Len(ps) /\ Q(i)[k].time = ps[Q(i)[k].id]
        /\ \A n \in Had(d) : n < Q(i)[k].id
    BY <1>3, <1>7, <2>1
  <2>3. ts.id # 0 => ts.id < Q(i)[k].id
    <3> SUFFICES ASSUME ts.id # 0 PROVE ts.id < Q(i)[k].id
      OBVIOUS
    <3>1. 0 \in Places(c) /\ 1 \in DOMAIN P(0) /\ P(0)[1] = ts
      BY <1>1, <1>2
    <3>2. CASE i = 0
      <4>1. 1 < k2
        BY <1>1, <1>2, <2>1, <3>2
      <4> QED
        BY <1>3, <1>7, <2>1, <3>1, <3>2, <4>1
    <3>3. CASE i # 0
      <4>1. 0 < i
        BY <1>2, <3>3
      <4> QED
        BY <1>3, <1>7, <2>1, <3>1, <4>1
    <3> QED
      BY <3>2, <3>3
  <2> QED
    BY <1>4, <2>2, <2>3
<1>8. ASSUME NEW i \in Places(c), NEW j \in Places(c), NEW k \in DOMAIN Q(i),
             NEW l \in DOMAIN Q(j), i < j \/ (i = j /\ k < l),
             Q(i)[k].id # 0, Q(j)[l].id # 0
      PROVE  Q(i)[k].id < Q(j)[l].id
  <2>1. PICK k2 \in DOMAIN P(i) : /\ Q(i)[k] = P(i)[k2]
                                  /\ i = 0 => k2 = k + 1 /\ k \in Int
                                  /\ i # 0 => k2 = k
    BY <1>6
  <2>2. PICK l2 \in DOMAIN P(j) : /\ Q(j)[l] = P(j)[l2]
                                  /\ j = 0 => l2 = l + 1 /\ l \in Int
                                  /\ j # 0 => l2 = l
    BY <1>6
  <2>3. i < j \/ (i = j /\ k2 < l2)
    BY <1>8, <2>1, <2>2
  <2> QED
    BY <1>3, <1>8, <2>1, <2>2, <2>3
<1>9. OnItsWayOK(ps, e, t2, c, b)
  BY <1>7, <1>8 DEF OnItsWayOK, Q
<1>10. NoneLost(ps, e, t2, c, b)
  <2> SUFFICES ASSUME NEW n \in 1 .. Len(ps), n \notin Had(e)
               PROVE  \E i \in Places(c) : n \in IdsIn(Q(i))
    BY DEF NoneLost, Q
  <2>1. n \notin Had(d) /\ n # ts.id
    BY <1>4
  <2>2. PICK i \in Places(c) : n \in IdsIn(P(i))
    BY <1>3, <2>1
  <2>3. CASE i # 0
    BY <1>2, <2>2, <2>3
  <2>4. CASE i = 0
    <3>1. PICK k \in DOMAIN td : n = td[k].id
      BY <1>2, <2>2, <2>4 DEF IdsIn
    <3>2. k # 1
      BY <1>1, <2>1, <3>1
    <3>3. k - 1 \in DOMAIN t2 /\ t2[k - 1] = td[k]
      BY <1>1, <3>1, <3>2
    <3>4. n \in IdsIn(t2)
      BY <3>1, <3>3 DEF IdsIn
    <3> QED
      BY <1>2, <3>4
  <2> QED
    BY <2>3, <2>4
<1>11. WrittenOK(ps, e)
  <2>1. /\ \A i \in DOMAIN Written(d) :
              Written(d)[i].id \in 1 .. Len(ps) /\ Written(d)[i].time = ps[Written(d)[i].id]
        /\ \A i, j \in DOMAIN Written(d) : i < j => Written(d)[i].id < Written(d)[j].id
        /\ d.dropped \subseteq 1 .. Len(ps)
    BY DEF DataOK, WrittenOK
  <2>2. \/ ts.id = 0 /\ Written(e) = Written(d) /\ e.dropped = d.dropped
        \/ ts.id # 0 /\ Written(e) = Append(Written(d), ts) /\ e.dropped = d.dropped
        \/ ts.id # 0 /\ Written(e) = Written(d) /\ e.dropped = d.dropped \cup {ts.id}
    BY DEF Took, ts
  <2>3. CASE Written(e) = Written(d)
    BY <1>5, <2>1, <2>2, <2>3 DEF WrittenOK
  <2>4. CASE ts.id # 0 /\ Written(e) = Append(Written(d), ts) /\ e.dropped = d.dropped
    <3> DEFINE w == Written(d)
               v == Append(w, ts)
    <3>1. w \in Seq(Timesteps)
      BY IdsOfBoth DEF Written, Dumps
    <3>2. /\ DOMAIN w = 1 .. Len(w) /\ DOMAIN v = 1 .. Len(w) + 1 /\ Len(w) \in Nat
          /\ \A i \in 1 .. Len(w) : v[i] = w[i]
          /\ v[Len(w) + 1] = ts
      BY <1>1, <3>1
    <3>3. \A i \in DOMAIN w : w[i].id < ts.id
      BY <1>5, <2>4 DEF Had, IdsIn
    <3> HIDE DEF w, v
    <3>4. ASSUME NEW i \in DOMAIN v
          PROVE  v[i].id \in 1 .. Len(ps) /\ v[i].time = ps[v[i].id]
      <4>1. CASE i \in 1 .. Len(w)
        BY <2>1, <3>2, <4>1 DEF w
      <4>2. CASE i = Len(w) + 1
        BY <1>5, <2>4, <3>2, <4>2
      <4> QED
        BY <3>2, <4>1, <4>2
    <3>5. ASSUME NEW i \in DOMAIN v, NEW j \in DOMAIN v, i < j
          PROVE  v[i].id < v[j].id
      <4>1. i \in 1 .. Len(w)
        BY <3>2, <3>5
      <4>2. CASE j \in 1 .. Len(w)
        BY <2>1, <3>2, <3>5, <4>1, <4>2 DEF w
      <4>3. CASE j = Len(w) + 1
        BY <3>2, <3>3, <4>1, <4>3
      <4> QED
        BY <3>2, <4>2, <4>3
    <3> QED
      BY <2>1, <2>4, <3>4, <3>5 DEF WrittenOK, w, v
  <2> QED
    BY <2>2, <2>3, <2>4
<1> QED
  BY <1>9, <1>10, <1>11 DEF DataOK, t2

\* A flush changes nothing of this.
LEMMA KeptData ==
  ASSUME NEW ps, NEW d, NEW e, NEW td, NEW c, NEW b,
         DataOK(ps, d, td, c, b), Kept(d, e)
  PROVE  DataOK(ps, e, td, c, b)
<1>1. Written(e) = Written(d) /\ Had(e) = Had(d) /\ e.dropped = d.dropped
  BY DEF Kept, Had
<1>2. WrittenOK(ps, e) /\ OnItsWayOK(ps, e, td, c, b) /\ NoneLost(ps, e, td, c, b)
  BY <1>1 DEF DataOK, WrittenOK, OnItsWayOK, NoneLost
<1> QED
  BY <1>2 DEF DataOK

-----------------------------------------------------------------------------
(* What it does to the tail's place in the order.                            *)

\* A tail looks at what is behind it only, not at the writer's batch.
LEMMA TailIgnoresTodo ==
  ASSUME NEW td, NEW td2, NEW c \in Seq(Messages), NEW b, NEW t, TailFirst(td, c, b, t)
  PROVE  TailFirst(td2, c, b, t)
<1> SUFFICES ASSUME NEW i \in DOMAIN c, c[i].kind = "tail"
             PROVE  /\ c[i].time = t.time
                    /\ \A j \in i + 1 .. Len(c) + 1 : \A k \in DOMAIN Place(td2, c, b, j) :
                          Place(td2, c, b, j)[k].id # 0
                             => Place(td2, c, b, j)[k].id > t.upto
  BY DEF TailFirst
<1>1. i \in 1 .. Len(c) /\ Len(c) \in Nat
  OBVIOUS
<1>2. ASSUME NEW j \in i + 1 .. Len(c) + 1
      PROVE  Place(td2, c, b, j) = Place(td, c, b, j)
  <2>1. j # 0
    BY <1>1
  <2> QED
    BY <2>1 DEF Place
<1> QED
  BY <1>2 DEF TailFirst

LEMMA TailKeepsItsPlace ==
  ASSUME NEW td, NEW c \in Seq(Messages), NEW b, NEW c2 \in Seq(Messages), NEW b2,
         NEW t, TailFirst(td, c, b, t), Len(c2) >= Len(c),
         \A i \in 1 .. Len(c) : c2[i] = c[i],
         \A i \in Len(c) + 1 .. Len(c2) : c2[i].kind # "tail",
         \A i \in Places(c) : Place(td, c2, b2, i) = Place(td, c, b, i),
         \A i \in Places(c2) \ Places(c) : Place(td, c2, b2, i) = <<>>
  PROVE  TailFirst(td, c2, b2, t)
<1> SUFFICES ASSUME NEW i \in DOMAIN c2, c2[i].kind = "tail"
             PROVE  /\ c2[i].time = t.time
                    /\ \A j \in i + 1 .. Len(c2) + 1 : \A k \in DOMAIN Place(td, c2, b2, j) :
                          Place(td, c2, b2, j)[k].id # 0
                             => Place(td, c2, b2, j)[k].id > t.upto
  BY DEF TailFirst
<1>1. Len(c) \in Nat /\ Len(c2) \in Nat /\ DOMAIN c2 = 1 .. Len(c2) /\ DOMAIN c = 1 .. Len(c)
  OBVIOUS
<1>2. i \in DOMAIN c /\ c[i] = c2[i]
  BY <1>1
<1>3. /\ c[i].time = t.time
      /\ \A j \in i + 1 .. Len(c) + 1 : \A k \in DOMAIN Place(td, c, b, j) :
            Place(td, c, b, j)[k].id # 0 => Place(td, c, b, j)[k].id > t.upto
  BY <1>2 DEF TailFirst
<1>4. ASSUME NEW j \in i + 1 .. Len(c2) + 1
      PROVE  \/ j \in i + 1 .. Len(c) + 1 /\ Place(td, c2, b2, j) = Place(td, c, b, j)
             \/ Place(td, c2, b2, j) = <<>>
  <2>1. CASE j \in Places(c)
    BY <1>1, <1>2, <2>1 DEF Places
  <2>2. CASE j \notin Places(c)
    <3>1. j \in Places(c2)
      BY <1>1, <1>2 DEF Places
    <3> QED
      BY <2>2, <3>1
  <2> QED
    BY <2>1, <2>2
<1> QED
  BY <1>2, <1>3, <1>4

LEMMA TailBeforePost ==
  ASSUME NEW td \in Seq(Timesteps), NEW c \in Seq(Messages), NEW b \in Seq(Timesteps),
         NEW t, TailFirst(td, c, b, t), NEW ts \in Timesteps,
         ts.id = 0 \/ ts.id > t.upto
  PROVE  TailFirst(td, c, Append(b, ts), t)
<1> DEFINE b2 == Append(b, ts)
<1> SUFFICES ASSUME NEW i \in DOMAIN c, c[i].kind = "tail", NEW j \in i + 1 .. Len(c) + 1,
                    NEW k \in DOMAIN Place(td, c, b2, j), Place(td, c, b2, j)[k].id # 0
             PROVE  c[i].time = t.time /\ Place(td, c, b2, j)[k].id > t.upto
  <2> HIDE DEF b2
  <2>1. \A i \in DOMAIN c : c[i].kind = "tail" => c[i].time = t.time
    BY DEF TailFirst
  <2> QED
    BY <2>1 DEF TailFirst, b2
<1>1. /\ i \in 1 .. Len(c) /\ Len(c) \in Nat /\ Len(b) \in Nat
      /\ DOMAIN b = 1 .. Len(b) /\ DOMAIN b2 = 1 .. Len(b) + 1
      /\ \A n \in 1 .. Len(b) : b2[n] = b[n]
      /\ b2[Len(b) + 1] = ts
  OBVIOUS
<1>2. /\ c[i].time = t.time
      /\ \A n \in DOMAIN Place(td, c, b, j) :
            Place(td, c, b, j)[n].id # 0 => Place(td, c, b, j)[n].id > t.upto
  BY DEF TailFirst
<1> HIDE DEF b2
<1>3. CASE j <= Len(c)
  <2>1. Place(td, c, b2, j) = Place(td, c, b, j)
    BY <1>1, <1>3 DEF Place
  <2> QED
    BY <1>2, <2>1
<1>4. CASE j = Len(c) + 1
  <2>1. Place(td, c, b2, j) = b2 /\ Place(td, c, b, j) = b
    BY <1>1, <1>4 DEF Place
  <2>2. CASE k \in 1 .. Len(b)
    BY <1>1, <1>2, <2>1, <2>2
  <2>3. CASE k = Len(b) + 1
    BY <1>1, <1>2, <2>1, <2>3
  <2> QED
    BY <1>1, <2>1, <2>2, <2>3
<1> QED
  BY <1>1, <1>3, <1>4

LEMMA TailMovesUp ==
  ASSUME NEW c \in Seq(Messages), c # <<>>, NEW b \in Seq(Timesteps), NEW t,
         TailFirst(<<>>, c, b, t)
  PROVE  TailFirst(Head(c).list, Tail(c), b, t)
<1> DEFINE c2 == Tail(c)
           P(i) == Place(<<>>, c, b, i)
           Q(i) == Place(Head(c).list, Tail(c), b, i)
<1>1. /\ Len(c2) = Len(c) - 1 /\ Len(c) \in Nat \ {0} /\ DOMAIN c2 = 1 .. Len(c) - 1
      /\ \A i \in 1 .. Len(c) - 1 : c2[i] = c[i + 1] /\ i + 1 \in DOMAIN c
  OBVIOUS
<1>2. \A i \in Places(c2) : Q(i) = P(i + 1)
  BY ReceiveMoves
<1>3. \A i \in DOMAIN c : c[i].kind = "tail" =>
        /\ c[i].time = t.time
        /\ \A j \in i + 1 .. Len(c) + 1 : \A k \in DOMAIN P(j) :
              P(j)[k].id # 0 => P(j)[k].id > t.upto
  BY DEF TailFirst
<1> HIDE DEF P, Q, c2
<1>4. ASSUME NEW i \in DOMAIN c2, c2[i].kind = "tail"
      PROVE  /\ c2[i].time = t.time
             /\ \A j \in i + 1 .. Len(c2) + 1 : \A k \in DOMAIN Q(j) :
                   Q(j)[k].id # 0 => Q(j)[k].id > t.upto
  <2>1. i + 1 \in DOMAIN c /\ c2[i] = c[i + 1] /\ i \in 1 .. Len(c) - 1
    BY <1>1
  <2>2. ASSUME NEW j \in i + 1 .. Len(c2) + 1
        PROVE  Q(j) = P(j + 1) /\ j + 1 \in (i + 1) + 1 .. Len(c) + 1
    <3>1. j \in Places(c2)
      BY <1>1, <2>1 DEF Places
    <3> QED
      BY <1>1, <1>2, <2>1, <3>1
  <2> QED
    BY <1>3, <1>4, <2>1, <2>2
<1> QED
  BY <1>4 DEF TailFirst, Q, c2

-----------------------------------------------------------------------------
(* The locked sections keep the order.                                       *)

\* A range and the first part of it.
LEMMA Parts ==
  \A m, n \in Nat : n >= m => /\ \A i \in 1 .. n : i \in 1 .. m \/ i \in m + 1 .. n
                              /\ \A i \in 1 .. m : i \in 1 .. n
  OBVIOUS

\* hand_off: nothing is lost when there is a sender.
LEMMA HandOffLosesNone ==
  ASSUME NEW ps, NEW d, NEW t, NEW after, NEW b \in Seq(Timesteps),
         todo \in Seq(Timesteps), chan \in Seq(Messages),
         DataOK(ps, d, todo, chan, b), TailFirst(todo, chan, b, t),
         b # <<>> => tx, HandOff(b, after),
         NoList(after), NoTail(after)
  PROVE  /\ DataOK(ps, d, todo, chan', batch')
         /\ TailFirst(todo, chan', batch', t)
         /\ chan' \in Seq(Messages) /\ batch' = <<>>
         /\ TailSent' <=> TailSent
         /\ \A i \in DOMAIN chan' : chan'[i].kind = "finish" =>
               \/ i \in DOMAIN chan /\ chan[i].kind = "finish"
               \/ after = <<chan'[i]>> /\ i = Len(chan')
<1> DEFINE c2 == HandedOn(chan, b, after)
<1>1. chan' = c2 /\ batch' = <<>>
  BY DEF HandOff, HandedOn
<1>2. Moved(todo, chan, b, c2, after)
  BY HandOffMoves
<1> HIDE DEF c2
<1>3. /\ c2 \in Seq(Messages) /\ Len(c2) >= Len(chan) /\ Len(c2) \in Nat
      /\ \A i \in 1 .. Len(chan) : c2[i] = chan[i]
      /\ \A i \in Len(chan) + 1 .. Len(c2) :
            c2[i].kind = "batch" \/ (after = <<c2[i]>> /\ i = Len(c2))
      /\ Places(chan) \subseteq Places(c2)
      /\ \A i \in Places(chan) : Place(todo, c2, <<>>, i) = Place(todo, chan, b, i)
      /\ \A i \in Places(c2) \ Places(chan) : Place(todo, c2, <<>>, i) = <<>>
  BY <1>2 DEF Moved
<1>4. DataOK(ps, d, todo, c2, <<>>)
  BY <1>3, SamePlaces
<1>5. \A i \in Len(chan) + 1 .. Len(c2) : c2[i].kind # "tail"
  BY <1>3 DEF NoTail
<1>6. TailFirst(todo, c2, <<>>, t)
  BY <1>3, <1>5, TailKeepsItsPlace
<1>7. /\ DOMAIN c2 = 1 .. Len(c2) /\ DOMAIN chan = 1 .. Len(chan) /\ Len(chan) \in Nat
  BY <1>3
<1>8. (\E i \in DOMAIN c2 : c2[i].kind = "tail") <=> TailSent
  <2>1. \A i \in DOMAIN c2 : i \in DOMAIN chan \/ i \in Len(chan) + 1 .. Len(c2)
    BY <1>3, <1>7, Parts, Zenon
  <2>2. \A i \in DOMAIN chan : i \in DOMAIN c2 /\ c2[i] = chan[i]
    BY <1>3, <1>7, Parts, Zenon
  <2> QED
    BY <1>5, <2>1, <2>2 DEF TailSent
<1>9. \A i \in DOMAIN c2 : c2[i].kind = "finish" =>
         \/ i \in DOMAIN chan /\ chan[i].kind = "finish"
         \/ after = <<c2[i]>> /\ i = Len(c2)
  <2>1. \A i \in DOMAIN c2 : i \in DOMAIN chan \/ i \in Len(chan) + 1 .. Len(c2)
    BY <1>3, <1>7, Parts, Zenon
  <2>2. \A i \in DOMAIN chan : c2[i] = chan[i]
    BY <1>3, <1>7
  <2> QED
    BY <1>3, <2>1, <2>2
<1> QED
  <2>1. DataOK(ps, d, todo, chan', batch') /\ TailFirst(todo, chan', batch', t)
    BY <1>1, <1>4, <1>6
  <2>2. TailSent' <=> TailSent
    BY <1>1, <1>8 DEF TailSent
  <2>3. \A i \in DOMAIN chan' : chan'[i].kind = "finish" =>
           \/ i \in DOMAIN chan /\ chan[i].kind = "finish"
           \/ after = <<chan'[i]>> /\ i = Len(chan')
    BY <1>1, <1>9
  <2> QED
    BY <1>1, <1>3, <2>1, <2>2, <2>3

\* post: the timestep is in the batch, handed on, or packed at once.
LEMMA PostStepKeeps ==
  ASSUME IInv, sim \in {"slot", "end"}, NEW ts \in Timesteps, PostStep(ts),
         NEW ps \in Seq(Times), DataOK(ps, dump, todo, chan, Append(batch, ts)),
         ts.id = 0 \/ ts.id > tail.upto
  PROVE  /\ DataOK(ps, dump', todo, chan', batch')
         /\ TailFirst(todo, chan', batch', tail)
         /\ chan' \in Seq(Messages)
         /\ batch' \in Seq(Timesteps) /\ Len(batch') < BatchFlush
         /\ TailSent' <=> TailSent
         /\ \A i \in DOMAIN chan' : chan'[i].kind # "finish"
         /\ mode = "inline" => chan' = <<>> /\ batch' = <<>>
         /\ dump' \in Dumps /\ DumpOK(dump') /\ dump'.final = dump.final
         /\ SettledOf(dump) \subseteq SettledOf(dump') /\ dump.fileEnd <= dump'.fileEnd
<1> DEFINE b == Append(batch, ts)
<1>1. /\ todo \in Seq(Timesteps) /\ chan \in Seq(Messages) /\ batch \in Seq(Timesteps)
      /\ b \in Seq(Timesteps) /\ b # <<>> /\ Len(b) = Len(batch) + 1
      /\ Len(batch) < BatchFlush /\ BatchFlush \in Nat \ {0} /\ dump \in Dumps
      /\ mode \in {"inline", "threaded"}
  <2>1. /\ todo \in Seq(Timesteps) /\ chan \in Seq(Messages) /\ batch \in Seq(Timesteps)
        /\ Len(batch) < BatchFlush /\ BatchFlush \in Nat \ {0} /\ dump \in Dumps
        /\ mode \in {"inline", "threaded"}
    BY SinkAssumption DEF IInv, TypeOK
  <2>2. b \in Seq(Timesteps) /\ b # <<>> /\ Len(b) = Len(batch) + 1
    BY <2>1, AppendProperties
  <2> QED
    BY <2>1, <2>2
<1>2. TailFirst(todo, chan, batch, tail)
  BY DEF IInv, TailOK
<1>3. TailFirst(todo, chan, b, tail)
  BY <1>1, <1>2, TailBeforePost
<1>4. DumpOK(dump) /\ SettledOf(dump) \subseteq SettledOf(dump) /\ dump.fileEnd <= dump.fileEnd
  BY <1>1 DEF IInv, Dumps, Times
<1>5. CASE mode = "threaded"
  <2>1. tx /\ \A i \in DOMAIN chan : chan[i].kind # "finish"
    BY <1>5 DEF IInv, PhasesOK
  <2>2. dump' = dump /\ mode # "inline"
    BY <1>5 DEF PostStep
  <2>3. CASE Len(batch) + 1 >= BatchFlush
    <3>1. HandOff(b, <<>>)
      BY <1>5, <2>3 DEF PostStep
    <3> DEFINE after == <<>>
    <3>0. NoList(after) /\ NoTail(after)
      BY DEF NoList, NoTail
    <3>2. /\ HandOff(b, after) /\ after = <<>> /\ b # <<>> /\ b \in Seq(Timesteps)
          /\ DataOK(ps, dump, todo, chan, b)
      BY <1>1, <3>1
    <3> HIDE DEF after, b
    <3>3. /\ DataOK(ps, dump, todo, chan', batch')
          /\ TailFirst(todo, chan', batch', tail)
          /\ chan' \in Seq(Messages) /\ batch' = <<>>
          /\ TailSent' <=> TailSent
          /\ \A i \in DOMAIN chan' : chan'[i].kind = "finish" =>
                \/ i \in DOMAIN chan /\ chan[i].kind = "finish"
                \/ after = <<chan'[i]>> /\ i = Len(chan')
      BY <1>1, <1>3, <2>1, <3>0, <3>2, HandOffLosesNone
    <3>4. Len(batch') < BatchFlush /\ batch' \in Seq(Timesteps)
      BY <1>1, <3>3
    <3> QED
      BY <1>1, <1>4, <2>1, <2>2, <3>2, <3>3, <3>4
  <2>4. CASE ~ Len(batch) + 1 >= BatchFlush
    <3>1. batch' = b /\ chan' = chan
      BY <1>5, <2>4 DEF PostStep
    <3>2. Len(b) < BatchFlush
      BY <1>1, <2>4
    <3> QED
      BY <1>1, <1>3, <1>4, <2>1, <2>2, <3>1, <3>2 DEF TailSent
  <2> QED
    BY <2>3, <2>4
<1>6. CASE mode = "inline"
  <2>1. /\ chan = <<>> /\ batch = <<>> /\ todo = <<>> /\ ~ dump.final
    BY <1>6 DEF IInv, PhasesOK
  <2>2. UNCHANGED <<batch, chan>>
    BY <1>6 DEF PostStep
  <2>3. PICK d \in Apply(dump, ts) : dump' \in {d} \cup DueFlush(d)
    BY <1>6 DEF PostStep
  <2>4. Took(dump, d, ts)
    BY <1>1, <1>4, <2>1, ApplyTakes
  <2>5. d \in Dumps /\ DumpOK(d)
    BY <2>4 DEF Took
  <2>6. Took(dump, dump', ts)
    <3>1. CASE dump' = d
      BY <2>4, <3>1
    <3>2. CASE dump' \in DueFlush(d)
      <4>1. Kept(d, dump') /\ dump'.final = d.final
        BY <2>5, <3>2, DueFlushKeeps
      <4> QED
        BY <1>1, <2>4, <2>5, <4>1, TookThenKept
    <3> QED
      BY <2>3, <3>1, <3>2
  \* As if the timestep were handed on and received.
  <2>7. DataOK(ps, dump, b, <<>>, <<>>)
    <3> DEFINE one == <<Batch(b)>>
               none == <<>>
    <3>1. /\ Batch(b) \in Messages /\ Batch(b).list = b
      BY <1>1 DEF Batch, Messages
    <3>2. /\ one \in Seq(Messages) /\ none \in Seq(Messages) /\ one # <<>>
          /\ Len(one) = 1 /\ Len(none) = 0 /\ one[1].list = b /\ Head(one).list = b
          /\ Tail(one) = <<>> /\ none \in Seq(Timesteps)
      BY <3>1
    <3>3. Places(none) = {0, 1} /\ Places(one) = {0, 1, 2}
      BY <3>2 DEF Places
    <3>4. /\ Place(none, none, b, 0) = none /\ Place(none, none, b, 1) = b
          /\ Place(none, one, none, 0) = none /\ Place(none, one, none, 1) = b
          /\ Place(none, one, none, 2) = none
      BY <3>2 DEF Place
    <3>5. DataOK(ps, dump, none, none, b)
      BY <2>1
    <3> HIDE DEF one, b
    <3>6. DataOK(ps, dump, none, one, none)
      <4>1. /\ Places(none) \subseteq Places(one)
            /\ \A i \in Places(none) : Place(none, one, none, i) = Place(none, none, b, i)
            /\ \A i \in Places(one) \ Places(none) : Place(none, one, none, i) = <<>>
        BY <3>3, <3>4
      <4> HIDE DEF none
      <4> QED
        BY <3>5, <4>1, SamePlaces
    <3>7. DataOK(ps, dump, Head(one).list, Tail(one), none)
      BY <3>2, <3>6, Receives
    <3> QED
      BY <3>2, <3>7
  <2>8. DataOK(ps, dump', <<>>, <<>>, <<>>)
    <3>1. Head(b) = ts /\ Tail(b) = <<>>
      BY <1>1, <2>1
    <3>2. DataOK(ps, dump', Tail(b), <<>>, <<>>)
      <4> DEFINE none == <<>>
      <4>1. none \in Seq(Messages) /\ none \in Seq(Timesteps)
        OBVIOUS
      <4>2. DataOK(ps, dump, b, none, none) /\ Took(dump, dump', Head(b))
        BY <2>6, <2>7, <3>1
      <4> HIDE DEF none, b
      <4>3. DataOK(ps, dump', Tail(b), none, none)
        BY <1>1, <4>1, <4>2, Applies
      <4> QED
        BY <4>3 DEF none
    <3> QED
      BY <3>1, <3>2
  <2> QED
    BY <1>1, <1>2, <1>6, <2>1, <2>2, <2>6, <2>8 DEF TailSent, Took
<1> QED
  BY <1>1, <1>5, <1>6

-----------------------------------------------------------------------------
(* The steps keep the invariant.                                             *)

\* A step that leaves the changes where they are.
LEMMA OnlyPhasesMove ==
  ASSUME IInv, TypeOK', PhasesOK',
         UNCHANGED <<posts, dump, todo, chan, batch>>,
         tail'.upto = tail.upto, tail'.answered = tail.answered,
         tail.answered \/ TailSent => tail'.time = tail.time,
         guard' \in {"time", "send", "wait"} => ~ tail'.done,
         tail.answered \/ TailSent => guard' = "wait" \/ tail'.done,
         guard' = "wait" => tail.answered \/ TailSent
  PROVE  IInv'
<1>1. TailSent' <=> TailSent
  BY DEF TailSent
<1>2. DumpOK(dump') /\ DataOK(posts', dump', todo', chan', batch')
  BY DEF IInv
<1>3. TailFirst(todo', chan', batch', tail')
  <2>1. TailFirst(todo, chan, batch, tail)
    BY DEF IInv, TailOK
  <2>2. TailFirst(todo, chan, batch, tail')
    BY <2>1 DEF TailFirst, TailSent
  <2> QED
    BY <2>2
<1>4. TailCoversTheRun'
  BY DEF IInv, TailOK, TailCoversTheRun, Settled
<1>5. TailOK'
  BY <1>1, <1>3, <1>4 DEF IInv, TailOK
<1> QED
  BY <1>2, <1>5 DEF IInv

\* What the file has stays there, and so does what an answered tail promised.
LEMMA AnswerStands ==
  ASSUME TypeOK, TailCoversTheRun, dump' \in Dumps, UNCHANGED tail,
         SettledOf(dump) \subseteq SettledOf(dump'), dump.fileEnd <= dump'.fileEnd
  PROVE  TailCoversTheRun'
<1>1. tail.time \in Times /\ dump.fileEnd \in Times /\ dump'.fileEnd \in Times
  BY DEF TypeOK, Dumps
<1>2. Settled = SettledOf(dump) /\ Settled' = SettledOf(dump')
  BY DEF Settled, SettledOf
<1> QED
  BY <1>1, <1>2 DEF TailCoversTheRun, Times

LEMMA PostKeeps ==
  ASSUME IInv, Post
  PROVE  IInv'
<1> DEFINE ts == [time |-> time, id |-> Len(posts')]
<1>1. /\ posts \in Seq(Times) /\ time \in Times /\ MaxPosts \in Nat
      /\ todo \in Seq(Timesteps) /\ chan \in Seq(Messages) /\ batch \in Seq(Timesteps)
      /\ dump \in Dumps /\ tail.upto \in Ids
  BY SinkAssumption DEF IInv, TypeOK
<1>2. sim = "slot" /\ Len(posts) < MaxPosts /\ posts' = Append(posts, time) /\ PostStep(ts)
  BY DEF Post
<1>3. /\ posts' \in Seq(Times) /\ Len(posts') = Len(posts) + 1 /\ Len(posts) \in Nat
  BY <1>1, <1>2, AppendProperties
<1>4. ts \in Timesteps /\ ts.time = time /\ ts.id = Len(posts) + 1 /\ ts.id # 0
  BY <1>1, <1>2, <1>3 DEF Timesteps, Ids
<1>5. UNCHANGED <<fixedVars, time, sim, closed, tx, guardVars, signalVars, writerVars>>
  BY DEF Post
<1>6. ts.id > tail.upto
  BY <1>1, <1>3, <1>4 DEF IInv, TailOK, Ids
<1> HIDE DEF ts
<1>7. DataOK(posts', dump, todo, chan, Append(batch, ts))
  BY <1>1, <1>2, <1>4, PostAdds DEF IInv
<1>8. /\ DataOK(posts', dump', todo, chan', batch')
      /\ TailFirst(todo, chan', batch', tail)
      /\ chan' \in Seq(Messages)
      /\ batch' \in Seq(Timesteps) /\ Len(batch') < BatchFlush
      /\ TailSent' <=> TailSent
      /\ \A i \in DOMAIN chan' : chan'[i].kind # "finish"
      /\ mode = "inline" => chan' = <<>> /\ batch' = <<>>
      /\ dump' \in Dumps /\ DumpOK(dump') /\ dump'.final = dump.final
      /\ SettledOf(dump) \subseteq SettledOf(dump') /\ dump.fileEnd <= dump'.fileEnd
  BY <1>2, <1>3, <1>4, <1>6, <1>7, PostStepKeeps
<1>9. TypeOK'
  BY <1>1, <1>2, <1>3, <1>5, <1>8 DEF IInv, TypeOK, fixedVars, guardVars, signalVars, writerVars
<1>10. PhasesOK'
  <2>1. writer \notin {"finish", "gone"} /\ (mode = "threaded" => tx)
    BY <1>2 DEF IInv, PhasesOK, TypeOK
  <2> QED
    BY <1>2, <1>5, <1>8, <2>1 DEF IInv, PhasesOK, TypeOK, fixedVars, guardVars, writerVars
<1>11. TailCoversTheRun'
  BY <1>5, <1>8, AnswerStands DEF IInv, TailOK, guardVars
<1>12. TailOK'
  BY <1>1, <1>3, <1>5, <1>8, <1>11 DEF IInv, TailOK, guardVars, writerVars, Ids
<1> QED
  BY <1>5, <1>8, <1>9, <1>10, <1>12 DEF IInv, writerVars

LEMMA PostEndKeeps ==
  ASSUME IInv, PostEnd
  PROVE  IInv'
<1> DEFINE ts == [time |-> time, id |-> 0]
<1>1. /\ posts \in Seq(Times) /\ time \in Times /\ MaxPosts \in Nat
      /\ todo \in Seq(Timesteps) /\ chan \in Seq(Messages) /\ batch \in Seq(Timesteps)
      /\ dump \in Dumps
  BY SinkAssumption DEF IInv, TypeOK
<1>2. sim = "end" /\ sim' = "shut" /\ PostStep(ts)
  BY DEF PostEnd
<1>3. ts \in Timesteps /\ ts.id = 0
  BY <1>1 DEF Timesteps, Ids
<1>4. UNCHANGED <<fixedVars, time, posts, closed, tx, guardVars, signalVars, writerVars>>
  BY DEF PostEnd
<1> HIDE DEF ts
<1>5. DataOK(posts, dump, todo, chan, Append(batch, ts))
  BY <1>1, <1>3, EndAdds DEF IInv
<1>6. /\ DataOK(posts, dump', todo, chan', batch')
      /\ TailFirst(todo, chan', batch', tail)
      /\ chan' \in Seq(Messages)
      /\ batch' \in Seq(Timesteps) /\ Len(batch') < BatchFlush
      /\ TailSent' <=> TailSent
      /\ \A i \in DOMAIN chan' : chan'[i].kind # "finish"
      /\ mode = "inline" => chan' = <<>> /\ batch' = <<>>
      /\ dump' \in Dumps /\ DumpOK(dump') /\ dump'.final = dump.final
      /\ SettledOf(dump) \subseteq SettledOf(dump') /\ dump.fileEnd <= dump'.fileEnd
  BY <1>1, <1>2, <1>3, <1>5, PostStepKeeps
<1>7. TypeOK'
  BY <1>1, <1>2, <1>4, <1>6 DEF IInv, TypeOK, fixedVars, guardVars, signalVars, writerVars
<1>8. PhasesOK'
  <2>1. writer \notin {"finish", "gone"} /\ (mode = "threaded" => tx)
    BY <1>2 DEF IInv, PhasesOK, TypeOK
  <2> QED
    BY <1>2, <1>4, <1>6, <2>1 DEF IInv, PhasesOK, TypeOK, fixedVars, guardVars, writerVars
<1>9. TailCoversTheRun'
  BY <1>4, <1>6, AnswerStands DEF IInv, TailOK, guardVars
<1>10. TailOK'
  BY <1>4, <1>6, <1>9 DEF IInv, TailOK, guardVars, writerVars
<1> QED
  BY <1>4, <1>6, <1>7, <1>8, <1>10 DEF IInv, writerVars

LEMMA DumpFlushKeeps ==
  ASSUME IInv, DumpFlush
  PROVE  IInv'
<1>1. /\ todo \in Seq(Timesteps) /\ chan \in Seq(Messages) /\ batch \in Seq(Timesteps)
      /\ dump \in Dumps /\ DumpOK(dump) /\ BatchFlush \in Nat \ {0}
      /\ mode \in {"inline", "threaded"}
  BY SinkAssumption DEF IInv, TypeOK
<1>2. /\ sim = "slot"
      /\ UNCHANGED <<fixedVars, simVars, tx, guardVars, signalVars, writerVars>>
  BY DEF DumpFlush
<1>3. CASE mode = "inline"
  <2>1. dump' = Flush(dump) /\ UNCHANGED <<batch, chan>>
    BY <1>3 DEF DumpFlush
  <2>2. Kept(dump, dump') /\ dump'.final = dump.final
    BY <1>1, <2>1, FlushKeeps
  <2>3. /\ DataOK(posts, dump', todo, chan, batch) /\ DumpOK(dump') /\ dump' \in Dumps
    BY <2>2, KeptData DEF IInv, Kept
  <2>4. TailCoversTheRun'
    BY <1>2, <2>2, <2>3, AnswerStands DEF IInv, TailOK, guardVars, Kept
  <2>5. TypeOK'
    BY <1>2, <2>1, <2>3 DEF IInv, TypeOK, fixedVars, simVars, guardVars, signalVars, writerVars
  <2>6. PhasesOK'
    BY <1>2, <2>1, <2>2 DEF IInv, PhasesOK, fixedVars, simVars, guardVars, writerVars
  <2>7. TailOK'
    BY <1>2, <2>1, <2>4 DEF IInv, TailOK, TailSent, simVars, guardVars, writerVars
  <2> QED
    BY <1>2, <2>1, <2>3, <2>5, <2>6, <2>7 DEF IInv, simVars, writerVars
<1>4. CASE mode = "threaded"
  <2> DEFINE after == <<Plain("flush")>>
  <2>1. HandOff(batch, after) /\ dump' = dump
    BY <1>4 DEF DumpFlush
  <2>2. NoList(after) /\ NoTail(after) /\ \A x : after = <<x>> => x.kind # "finish"
    <3>1. Plain("flush") \in Messages
      BY EmptySeq DEF Plain, Messages
    <3> QED
      BY <3>1 DEF NoList, NoTail, Plain
  <2>3. tx /\ \A i \in DOMAIN chan : chan[i].kind # "finish"
    BY <1>2, <1>4 DEF IInv, PhasesOK
  <2>4. DataOK(posts, dump, todo, chan, batch) /\ TailFirst(todo, chan, batch, tail)
    BY DEF IInv, TailOK
  <2> HIDE DEF after
  <2>5. /\ DataOK(posts, dump, todo, chan', batch')
        /\ TailFirst(todo, chan', batch', tail)
        /\ chan' \in Seq(Messages) /\ batch' = <<>>
        /\ TailSent' <=> TailSent
        /\ \A i \in DOMAIN chan' : chan'[i].kind = "finish" =>
              \/ i \in DOMAIN chan /\ chan[i].kind = "finish"
              \/ after = <<chan'[i]>> /\ i = Len(chan')
    BY <1>1, <2>1, <2>2, <2>3, <2>4, HandOffLosesNone
  <2>6. \A i \in DOMAIN chan' : chan'[i].kind # "finish"
    BY <2>2, <2>3, <2>5
  <2>7. TypeOK'
    <3>1. batch' \in Seq(Timesteps) /\ Len(batch') < BatchFlush
      BY <1>1, <2>5
    <3> QED
      BY <1>2, <2>1, <2>5, <3>1 DEF IInv, TypeOK, fixedVars, simVars, guardVars, signalVars, writerVars
  <2>8. PhasesOK'
    <3>1. writer \notin {"finish", "gone"}
      BY <2>3 DEF IInv, PhasesOK
    <3> QED
      BY <1>2, <1>4, <2>1, <2>3, <2>5, <2>6, <3>1 DEF IInv, PhasesOK, fixedVars, simVars, guardVars, writerVars
  <2>9. TailCoversTheRun'
    BY <1>2, <2>1 DEF IInv, TailOK, TailCoversTheRun, Settled, guardVars
  <2>10. TailOK'
    BY <1>2, <2>5, <2>9 DEF IInv, TailOK, simVars, guardVars, writerVars
  <2> QED
    BY <1>2, <2>1, <2>5, <2>7, <2>8, <2>10 DEF IInv, simVars, writerVars
<1> QED
  BY <1>1, <1>3, <1>4

\* The steps that move a thread along and no change.
LEMMA SimulationMovesOn ==
  ASSUME IInv, Advance \/ Leave \/ ShutThreaded \/ JoinGuard \/ JoinWriter
  PROVE  IInv'
<1>1. /\ UNCHANGED <<posts, dump, todo, chan, batch, tail, guard, tx, mode, writer>>
  BY DEF Advance, Leave, ShutThreaded, JoinGuard, JoinWriter, fixedVars, guardVars,
         signalVars, writerVars
<1>2. TypeOK'
  <2>1. time' \in Times
    <3>1. time \in Nat /\ time \in Times /\ MaxTime \in Nat
      BY SinkAssumption DEF IInv, TypeOK, Times
    <3>2. time' = time \/ (time' = time + 1 /\ time < MaxTime)
      BY DEF Advance, Leave, ShutThreaded, JoinGuard, JoinWriter
    <3> QED
      BY <3>1, <3>2 DEF Times
  <2>2. /\ every' = every /\ interrupted' = interrupted
        /\ acknowledged' \in {acknowledged, FALSE, interrupted}
        /\ closed' \in {closed, TRUE}
        /\ sim' \in {"slot", "end", "send", "join_writer", "done"}
    BY DEF Advance, Leave, ShutThreaded, JoinGuard, JoinWriter, fixedVars, signalVars
  <2>3. TypeOK
    BY DEF IInv
  <2>4. mode' \in {"inline", "threaded"} /\ every' \in BOOLEAN /\ closed' \in BOOLEAN
        /\ interrupted' \in BOOLEAN /\ acknowledged' \in BOOLEAN
    BY <1>1, <2>2, <2>3 DEF TypeOK
  <2>5. posts' \in Seq(Times) /\ Len(posts') <= MaxPosts
    BY <1>1, <2>3 DEF TypeOK
  <2> QED
    BY <1>1, <2>1, <2>2, <2>3, <2>4, <2>5 DEF TypeOK
<1>3. PhasesOK'
  BY <1>1 DEF IInv, PhasesOK, TypeOK, Advance, Leave, ShutThreaded, JoinGuard,
              JoinWriter
<1> QED
  BY <1>1, <1>2, <1>3, OnlyPhasesMove DEF IInv, TailOK

LEMMA SignalKeeps ==
  ASSUME IInv, Signal
  PROVE  IInv'
<1>1. UNCHANGED <<posts, dump, todo, chan, batch, tail, guard, tx, mode, writer, sim>>
  BY DEF Signal, simVars, fixedVars, guardVars, writerVars
<1>2. TypeOK' /\ PhasesOK'
  BY <1>1 DEF IInv, TypeOK, PhasesOK, Signal, simVars, fixedVars, guardVars,
              writerVars
<1> QED
  BY <1>1, <1>2, OnlyPhasesMove DEF IInv, TailOK

\* The guard looks around, reads the time, or is done with the tail.
LEMMA GuardMovesOn ==
  ASSUME IInv, GuardWakes \/ GuardLooks \/ GuardReadsTime \/ GuardIsAnswered
                 \/ GuardGivesUp
  PROVE  IInv'
<1>1. UNCHANGED <<mode, every, time, posts, sim, closed, tx, interrupted,
                  acknowledged, writer, todo, dump, chan, batch>>
  BY DEF GuardWakes, GuardLooks, GuardReadsTime, GuardIsAnswered, GuardGivesUp,
         TailDone, GuardFrame, fixedVars, simVars, signalVars, writerVars
<1>2. /\ tail \in [time : Times, upto : Ids, answered : BOOLEAN, done : BOOLEAN]
      /\ time \in Times /\ (guard # "none" => mode = "threaded")
  BY DEF IInv, TypeOK, PhasesOK
<1>3. guard # "none"
  BY DEF GuardWakes, GuardLooks, GuardReadsTime, GuardIsAnswered, GuardGivesUp
<1>4. /\ tail' \in [time : Times, upto : Ids, answered : BOOLEAN, done : BOOLEAN]
      /\ tail'.upto = tail.upto /\ tail'.answered = tail.answered
      /\ tail.done => tail'.done
      /\ guard' \in {"parked", "tick", "gone", "time", "send"}
      /\ guard' \in {"time", "send"} => ~ tail'.done /\ guard \in {"look", "time"}
      /\ guard # "time" => tail'.time = tail.time
      /\ guard = "wait" => tail'.done
  <2>1. guard \in {"time", "send", "wait"} => ~ tail.done
    BY DEF IInv, TailOK
  <2>2. CASE GuardWakes
    BY <1>2, <2>1, <2>2 DEF GuardWakes
  <2>3. CASE GuardLooks
    BY <1>2, <2>1, <2>3 DEF GuardLooks
  <2>4. CASE GuardReadsTime
    BY <1>2, <2>1, <2>4 DEF GuardReadsTime
  <2>5. CASE GuardIsAnswered \/ GuardGivesUp
    BY <1>2, <2>1, <2>5 DEF GuardIsAnswered, GuardGivesUp, TailDone
  <2> QED
    BY <2>2, <2>3, <2>4, <2>5
<1>5. TypeOK' /\ PhasesOK'
  BY <1>1, <1>2, <1>3, <1>4 DEF IInv, TypeOK, PhasesOK
<1>6. tail.answered \/ TailSent => guard = "wait" \/ tail.done
  BY DEF IInv, TailOK
<1>7. guard = "time" => ~ (tail.answered \/ TailSent)
  BY DEF IInv, TailOK
<1> QED
  BY <1>1, <1>4, <1>5, <1>6, <1>7, OnlyPhasesMove

\* finish without threads.
LEMMA ShutInlineKeeps ==
  ASSUME IInv, ShutInline
  PROVE  IInv'
<1>1. /\ dump \in Dumps /\ DumpOK(dump) /\ TypeOK /\ TailCoversTheRun
      /\ DataOK(posts, dump, todo, chan, batch) /\ TailOK
  BY DEF IInv, TypeOK, TailOK
<1>2. /\ UNCHANGED <<mode, every, time, posts, closed, batch, tx, chan, guard, tail,
                     interrupted, acknowledged, writer, todo>>
      /\ sim' = "done" /\ mode = "inline" /\ dump' = Finish(dump)
  BY DEF ShutInline, fixedVars, guardVars, signalVars, writerVars
<1>3. Kept(dump, dump') /\ dump'.final
  BY <1>1, <1>2, FinishKeeps
<1>4. DataOK(posts, dump', todo, chan, batch)
  BY <1>1, <1>3, KeptData
<1>5. dump' \in Dumps /\ DumpOK(dump')
  BY <1>3 DEF Kept
<1>6. TypeOK'
  BY <1>1, <1>2, <1>5 DEF TypeOK
<1>7. PhasesOK'
  BY <1>2, <1>3 DEF IInv, PhasesOK
<1>8. TailCoversTheRun'
  BY <1>1, <1>2, <1>3, AnswerStands DEF Kept
<1>9. TailOK'
  BY <1>1, <1>2, <1>8 DEF TailOK, TailSent
<1> QED
  BY <1>2, <1>4, <1>5, <1>6, <1>7, <1>9 DEF IInv

\* close_shared: the rest of the batch and the finish behind it.
LEMMA SendFinishKeeps ==
  ASSUME IInv, SendFinish
  PROVE  IInv'
<1> DEFINE after == <<Plain("finish")>>
<1>1. /\ todo \in Seq(Timesteps) /\ chan \in Seq(Messages) /\ batch \in Seq(Timesteps)
      /\ dump \in Dumps /\ BatchFlush \in Nat \ {0}
      /\ DataOK(posts, dump, todo, chan, batch) /\ TailFirst(todo, chan, batch, tail)
  BY SinkAssumption DEF IInv, TypeOK, TailOK
<1>2. /\ UNCHANGED <<mode, every, time, posts, closed, guard, tail, interrupted,
                     acknowledged, writer, todo, dump>>
      /\ sim = "send" /\ sim' = "join_guard" /\ tx' = FALSE /\ HandOff(batch, after)
  BY DEF SendFinish, fixedVars, guardVars, signalVars, writerVars
<1>3. mode = "threaded" /\ tx
  BY <1>2 DEF IInv, PhasesOK, TypeOK
<1>4. NoList(after) /\ NoTail(after)
  <2>1. Plain("finish") \in Messages
    BY EmptySeq DEF Plain, Messages
  <2> QED
    BY <2>1 DEF NoList, NoTail, Plain
<1> HIDE DEF after
<1>5. /\ DataOK(posts, dump, todo, chan', batch')
      /\ TailFirst(todo, chan', batch', tail)
      /\ chan' \in Seq(Messages) /\ batch' = <<>>
      /\ TailSent' <=> TailSent
      /\ \A i \in DOMAIN chan' : chan'[i].kind = "finish" =>
            \/ i \in DOMAIN chan /\ chan[i].kind = "finish"
            \/ after = <<chan'[i]>> /\ i = Len(chan')
  BY <1>1, <1>2, <1>3, <1>4, HandOffLosesNone
<1>6. \A i \in DOMAIN chan : chan[i].kind # "finish"
  BY <1>3 DEF IInv, PhasesOK
<1>7. writer \notin {"finish", "gone"}
  BY <1>3 DEF IInv, PhasesOK
<1>8. TypeOK'
  <2>1. batch' \in Seq(Timesteps) /\ Len(batch') < BatchFlush
    BY <1>1, <1>5
  <2>2. sim' \in {"slot", "end", "shut", "send", "join_guard", "join_writer", "done"}
        /\ tx' \in BOOLEAN
    BY <1>2
  <2> QED
    BY <1>2, <1>5, <2>1, <2>2 DEF IInv, TypeOK
<1>9. PhasesOK'
  BY <1>2, <1>3, <1>5, <1>6, <1>7 DEF IInv, PhasesOK
<1>10. TailCoversTheRun'
  BY <1>2 DEF IInv, TailOK, TailCoversTheRun, Settled
<1>11. TailOK'
  BY <1>2, <1>5, <1>10 DEF IInv, TailOK
<1> QED
  BY <1>2, <1>5, <1>8, <1>9, <1>11 DEF IInv

\* The guard hands a partial batch on.
LEMMA GuardHandsOffKeeps ==
  ASSUME IInv, GuardHandsOff
  PROVE  IInv'
<1> DEFINE after == <<>>
<1>1. /\ todo \in Seq(Timesteps) /\ chan \in Seq(Messages) /\ batch \in Seq(Timesteps)
      /\ dump \in Dumps /\ BatchFlush \in Nat \ {0}
      /\ DataOK(posts, dump, todo, chan, batch) /\ TailFirst(todo, chan, batch, tail)
  BY SinkAssumption DEF IInv, TypeOK, TailOK
<1>2. /\ UNCHANGED <<mode, every, time, posts, closed, tail, interrupted, sim, tx,
                     acknowledged, writer, todo, dump>>
      /\ guard = "tick" /\ guard' = "look" /\ HandOff(batch, after)
  BY DEF GuardHandsOff, GuardFrame, fixedVars, simVars, signalVars, writerVars
<1>3. mode = "threaded" /\ (batch # <<>> => tx)
  BY <1>2 DEF IInv, PhasesOK, TypeOK
<1>4. NoList(after) /\ NoTail(after) /\ \A x : after # <<x>>
  BY DEF NoList, NoTail
<1>5. ~ tx => HandedOn(chan, batch, after) = chan /\ chan' = chan
  <2>1. ~ tx => chan' = chan \o after
    BY <1>2, <1>3 DEF HandOff
  <2>2. chan \o after = chan
    BY <1>1
  <2> QED
    BY <2>1, <2>2, <1>3 DEF HandedOn
<1> HIDE DEF after
<1>6. /\ DataOK(posts, dump, todo, chan', batch')
      /\ TailFirst(todo, chan', batch', tail)
      /\ chan' \in Seq(Messages) /\ batch' = <<>>
      /\ TailSent' <=> TailSent
      /\ \A i \in DOMAIN chan' : chan'[i].kind = "finish" =>
            \/ i \in DOMAIN chan /\ chan[i].kind = "finish"
            \/ after = <<chan'[i]>> /\ i = Len(chan')
  BY <1>1, <1>2, <1>3, <1>4, HandOffLosesNone
<1>7. TypeOK'
  <2>1. batch' \in Seq(Timesteps) /\ Len(batch') < BatchFlush
    BY <1>1, <1>6
  <2> QED
    BY <1>2, <1>6, <2>1 DEF IInv, TypeOK
<1>8. PhasesOK'
  <2>1. CASE tx
    <3>1. /\ \A i \in DOMAIN chan : chan[i].kind # "finish"
          /\ writer \notin {"finish", "gone"}
      BY <2>1 DEF IInv, PhasesOK
    <3> QED
      BY <1>2, <1>3, <1>4, <1>6, <2>1, <3>1 DEF IInv, PhasesOK
  <2>2. CASE ~ tx
    BY <1>2, <1>3, <1>5, <1>6, <2>2 DEF IInv, PhasesOK
  <2> QED
    BY <2>1, <2>2
<1>9. TailCoversTheRun'
  BY <1>2 DEF IInv, TailOK, TailCoversTheRun, Settled
<1>10. TailOK'
  BY <1>2, <1>6, <1>9 DEF IInv, TailOK
<1> QED
  BY <1>2, <1>6, <1>7, <1>8, <1>10 DEF IInv

\* write_tail: the batch and, behind it, the request to close the slot.
LEMMA GuardSendsTailKeeps ==
  ASSUME IInv, GuardSendsTail
  PROVE  IInv'
<1> DEFINE after == IF tx THEN <<TailMsg(tail.time)>> ELSE <<>>
<1>1. /\ todo \in Seq(Timesteps) /\ chan \in Seq(Messages) /\ batch \in Seq(Timesteps)
      /\ dump \in Dumps /\ BatchFlush \in Nat \ {0} /\ Len(posts) \in Ids
      /\ tail \in [time : Times, upto : Ids, answered : BOOLEAN, done : BOOLEAN]
      /\ DataOK(posts, dump, todo, chan, batch) /\ TailFirst(todo, chan, batch, tail)
  <2>1. Len(posts) \in Ids
    BY SinkAssumption, LenProperties DEF IInv, TypeOK, Ids
  <2> QED
    BY <2>1, SinkAssumption DEF IInv, TypeOK, TailOK
<1>2. /\ UNCHANGED <<mode, every, time, posts, closed, interrupted, sim, tx,
                     acknowledged, writer, todo, dump>>
      /\ guard = "send" /\ guard' = (IF tx THEN "wait" ELSE "parked")
      /\ tail' = [tail EXCEPT !.upto = Len(posts), !.done = ~ tx]
      /\ HandOff(batch, after)
  BY DEF GuardSendsTail, GuardFrame, fixedVars, simVars, signalVars, writerVars
<1>3. mode = "threaded" /\ (batch # <<>> => tx) /\ tx \in BOOLEAN
  BY <1>2 DEF IInv, PhasesOK, TypeOK
<1>4. ~ tail.answered /\ ~ TailSent
  BY <1>2 DEF IInv, TailOK
<1>5. /\ tail' \in [time : Times, upto : Ids, answered : BOOLEAN, done : BOOLEAN]
      /\ tail'.upto = Len(posts) /\ tail'.time = tail.time /\ ~ tail'.answered
      /\ tail'.done <=> ~ tx
  BY <1>1, <1>2, <1>3, <1>4
<1>6. batch' = <<>> /\ batch' \in Seq(Timesteps) /\ Len(batch') < BatchFlush
  <2>1. batch' = <<>>
    BY <1>2 DEF HandOff
  <2> QED
    BY <1>1, <2>1
<1>7. chan' = HandedOn(chan, batch, after)
  BY <1>2, <1>3 DEF HandOff, HandedOn
<1>8. NoList(after)
  <2>1. TailMsg(tail.time) \in Messages /\ TailMsg(tail.time).list = <<>>
    BY <1>1, EmptySeq DEF TailMsg, Messages
  <2> QED
    BY <2>1 DEF NoList
<1>9. \A x : after = <<x>> => tx /\ x = TailMsg(tail.time) /\ x.kind = "tail" /\ x.time = tail.time
  BY DEF TailMsg
<1>10. tx => after # <<>>
  OBVIOUS
<1>11. ~ tx => chan' = chan
  <2>1. ~ tx => chan' = chan \o <<>>
    BY <1>2, <1>3 DEF HandOff
  <2>2. chan \o <<>> = chan
    BY <1>1
  <2> QED
    BY <2>1, <2>2
<1> HIDE DEF after
<1>12. /\ chan' \in Seq(Messages) /\ Len(chan') >= Len(chan) /\ Len(chan') \in Nat
       /\ \A i \in 1 .. Len(chan) : chan'[i] = chan[i]
       /\ \A i \in Len(chan) + 1 .. Len(chan') :
             chan'[i].kind = "batch" \/ (after = <<chan'[i]>> /\ i = Len(chan'))
       /\ after # <<>> => /\ Len(chan') > Len(chan) /\ after = <<chan'[Len(chan')]>>
       /\ Places(chan) \subseteq Places(chan')
       /\ \A i \in Places(chan) : Place(todo, chan', <<>>, i) = Place(todo, chan, batch, i)
       /\ \A i \in Places(chan') \ Places(chan) : Place(todo, chan', <<>>, i) = <<>>
  <2> DEFINE c2 == HandedOn(chan, batch, after)
  <2>1. Moved(todo, chan, batch, c2, after)
    BY <1>1, <1>8, HandOffMoves
  <2> HIDE DEF c2
  <2>2. chan' = c2
    BY <1>7 DEF c2
  <2> QED
    BY <2>1, <2>2 DEF Moved
<1>13. DataOK(posts, dump, todo, chan', batch')
  BY <1>1, <1>6, <1>12, SamePlaces
<1>14. Len(chan) \in Nat /\ DOMAIN chan = 1 .. Len(chan) /\ DOMAIN chan' = 1 .. Len(chan')
  BY <1>1, <1>12
<1>15. \A i \in DOMAIN chan' : i \in DOMAIN chan \/ i \in Len(chan) + 1 .. Len(chan')
  BY <1>12, <1>14, Parts, Zenon
<1>16. \A i \in DOMAIN chan' : chan'[i].kind = "tail" =>
          i = Len(chan') /\ chan'[i].time = tail.time
  <2>1. \A i \in DOMAIN chan : chan'[i].kind # "tail"
    BY <1>4, <1>12, <1>14 DEF TailSent
  <2> QED
    BY <1>9, <1>12, <1>15, <2>1
<1>17. TailFirst(todo, chan', batch', tail')
  <2> SUFFICES ASSUME NEW i \in DOMAIN chan', chan'[i].kind = "tail"
               PROVE  /\ chan'[i].time = tail'.time
                      /\ \A j \in i + 1 .. Len(chan') + 1 :
                            Place(todo, chan', batch', j) = <<>>
    BY DEF TailFirst
  <2>1. i = Len(chan') /\ chan'[i].time = tail.time
    BY <1>16
  <2>2. ASSUME NEW j \in i + 1 .. Len(chan') + 1
        PROVE  Place(todo, chan', batch', j) = <<>>
    <3>1. j = Len(chan') + 1 /\ j # 0 /\ ~ j <= Len(chan')
      BY <1>12, <2>1
    <3> QED
      BY <1>6, <3>1 DEF Place
  <2> QED
    BY <1>5, <2>1, <2>2
<1>18. \A i \in DOMAIN chan' : chan'[i].kind = "finish" => ~ tx /\ i = Len(chan')
  <2>1. ASSUME NEW i \in DOMAIN chan', chan'[i].kind = "finish"
        PROVE  ~ tx /\ i = Len(chan')
    <3>1. CASE tx
      <4>1. i \in DOMAIN chan
        BY <1>9, <1>12, <1>15, <2>1
      <4>2. chan[i].kind = "finish"
        BY <1>12, <1>14, <2>1, <4>1
      <4> QED
        BY <3>1, <4>1, <4>2 DEF IInv, PhasesOK
    <3>2. CASE ~ tx
      BY <1>11, <2>1, <3>2 DEF IInv, PhasesOK
    <3> QED
      BY <3>1, <3>2
  <2> QED
    BY <2>1
<1>19. TypeOK'
  BY <1>2, <1>5, <1>6, <1>12 DEF IInv, TypeOK
<1>20. PhasesOK'
  BY <1>2, <1>3, <1>6, <1>11, <1>18 DEF IInv, PhasesOK
<1>21. TailSent' <=> tx
  <2>1. CASE tx
    <3>1. after # <<>>
      BY <1>10, <2>1
    <3>2. Len(chan') > Len(chan) /\ after = <<chan'[Len(chan')]>> /\ Len(chan') \in Nat
      BY <1>12, <3>1
    <3>3. chan'[Len(chan')].kind = "tail"
      BY <1>9, <3>2
    <3>4. Len(chan') \in DOMAIN chan'
      BY <1>14, <3>2
    <3> QED
      BY <2>1, <3>3, <3>4 DEF TailSent
  <2>2. CASE ~ tx
    BY <1>4, <1>11, <2>2 DEF TailSent
  <2> QED
    BY <2>1, <2>2
<1>22. TailCoversTheRun'
  BY <1>5 DEF TailCoversTheRun
<1>23. TailOK'
  BY <1>1, <1>2, <1>3, <1>5, <1>17, <1>21, <1>22, SinkAssumption DEF TailOK, Ids
<1> QED
  BY <1>2, <1>13, <1>19, <1>20, <1>23 DEF IInv

\* The writer flushes, or ends.
LEMMA WriterSettles ==
  ASSUME IInv, Kept(dump, dump'),
         UNCHANGED <<mode, every, time, posts, sim, closed, batch, tx, chan, guard,
                     tail, interrupted, acknowledged, todo>>,
         writer' \in {"recv", "gone"}, writer' = "gone" => writer = "finish",
         dump'.final <=> writer' = "gone",
         writer = "recv" \/ writer' = "gone" \/ todo = <<>>, writer \notin {"none", "gone"}
  PROVE  IInv'
<1>1. TypeOK /\ TailCoversTheRun /\ DataOK(posts, dump, todo, chan, batch) /\ TailOK
  BY DEF IInv, TailOK
<1>2. DataOK(posts, dump', todo, chan, batch)
  BY <1>1, KeptData
<1>3. dump' \in Dumps /\ DumpOK(dump')
  BY DEF Kept
<1>4. TypeOK'
  BY <1>1, <1>3 DEF TypeOK
<1>5. PhasesOK'
  <2>1. PhasesOK /\ mode # "inline"
    BY DEF IInv, PhasesOK
  <2>2. writer' # "batch" /\ writer' # "none" /\ todo = <<>>
    BY <2>1 DEF PhasesOK
  <2>3. writer' = "gone" => chan = <<>> /\ ~ tx
    BY <2>1 DEF PhasesOK
  <2>4. sim # "done" /\ (sim \in {"slot", "end", "shut", "send"} => tx)
    BY <2>1, <1>1 DEF PhasesOK, TypeOK
  <2> QED
    BY <2>1, <2>2, <2>3, <2>4 DEF PhasesOK
<1>6. TailCoversTheRun'
  BY <1>1, <1>3, AnswerStands DEF Kept
<1>7. TailOK'
  BY <1>1, <1>6 DEF TailOK, TailSent
<1> QED
  BY <1>2, <1>3, <1>4, <1>5, <1>7 DEF IInv

LEMMA WriterFlushesOrEnds ==
  ASSUME IInv, IdleFlush \/ BatchApplied \/ WriterFinishes
  PROVE  IInv'
<1>1. dump \in Dumps /\ DumpOK(dump)
  BY DEF IInv, TypeOK
<1>2. UNCHANGED <<mode, every, time, posts, sim, closed, batch, tx, chan, guard,
                  tail, interrupted, acknowledged, todo>>
  BY DEF IdleFlush, BatchApplied, WriterFinishes, WriterFrame, fixedVars, simVars,
         signalVars
<1>3. /\ writer \in {"recv", "batch"} => ~ dump.final
      /\ writer # "batch" => todo = <<>>
  BY DEF IInv, PhasesOK
<1>4. CASE IdleFlush
  <2>1. dump' = Flush(dump) /\ writer = "recv" /\ writer' = writer
    BY <1>4 DEF IdleFlush
  <2>2. Kept(dump, dump') /\ dump'.final = dump.final
    BY <1>1, <2>1, FlushKeeps
  <2> QED
    BY <1>2, <1>3, <2>1, <2>2, WriterSettles
<1>5. CASE BatchApplied
  <2>1. dump' \in DueFlush(dump) /\ writer = "batch" /\ todo = <<>> /\ writer' = "recv"
    BY <1>5 DEF BatchApplied
  <2>2. Kept(dump, dump') /\ dump'.final = dump.final
    BY <1>1, <2>1, DueFlushKeeps
  <2> QED
    BY <1>2, <1>3, <2>1, <2>2, WriterSettles
<1>6. CASE WriterFinishes
  <2>1. dump' = Finish(dump) /\ writer = "finish" /\ writer' = "gone"
    BY <1>6 DEF WriterFinishes
  <2>2. Kept(dump, dump') /\ dump'.final
    BY <1>1, <2>1, FinishKeeps
  <2> QED
    BY <1>2, <1>3, <2>1, <2>2, WriterSettles
<1> QED
  BY <1>4, <1>5, <1>6

LEMMA ApplyOneKeeps ==
  ASSUME IInv, ApplyOne
  PROVE  IInv'
<1>1. /\ TypeOK /\ dump \in Dumps /\ DumpOK(dump) /\ todo \in Seq(Timesteps)
      /\ chan \in Seq(Messages) /\ batch \in Seq(Timesteps)
      /\ DataOK(posts, dump, todo, chan, batch) /\ TailOK /\ TailCoversTheRun
      /\ TailFirst(todo, chan, batch, tail)
  BY DEF IInv, TypeOK, TailOK
<1>2. /\ UNCHANGED <<mode, every, time, posts, sim, closed, batch, tx, chan, guard,
                     tail, interrupted, acknowledged, writer>>
      /\ writer = "batch" /\ todo # <<>> /\ dump' \in Apply(dump, Head(todo))
      /\ todo' = Tail(todo)
  BY DEF ApplyOne, WriterFrame, fixedVars, simVars, signalVars
<1>3. ~ dump.final
  BY <1>2 DEF IInv, PhasesOK
<1>4. Head(todo) \in Timesteps /\ todo' \in Seq(Timesteps)
  BY <1>1, <1>2
<1>5. Took(dump, dump', Head(todo))
  BY <1>1, <1>2, <1>3, <1>4, ApplyTakes
<1>6. DataOK(posts, dump', Tail(todo), chan, batch)
  BY <1>1, <1>2, <1>5, Applies
<1>7. TailFirst(Tail(todo), chan, batch, tail)
  BY <1>1, TailIgnoresTodo
<1>8. /\ dump' \in Dumps /\ DumpOK(dump') /\ dump'.final = dump.final
      /\ SettledOf(dump) \subseteq SettledOf(dump') /\ dump.fileEnd <= dump'.fileEnd
  BY <1>5 DEF Took
<1>9. TypeOK'
  BY <1>1, <1>2, <1>4, <1>8 DEF TypeOK
<1>10. PhasesOK'
  BY <1>2, <1>8 DEF IInv, PhasesOK
<1>11. TailCoversTheRun'
  BY <1>1, <1>2, <1>8, AnswerStands
<1>12. TailOK'
  BY <1>1, <1>2, <1>7, <1>11 DEF TailOK, TailSent
<1> QED
  BY <1>2, <1>6, <1>8, <1>9, <1>10, <1>12 DEF IInv

\* The tail's message is the next one: nothing posted before it was sent is
\* on its way any more.
LEMMA TailIsNext ==
  ASSUME IInv, chan # <<>>, chan[1].kind = "tail", todo = <<>>
  PROVE  chan[1].time = tail.time /\ 1 .. tail.upto \subseteq Had(dump)
<1>1. /\ chan \in Seq(Messages) /\ batch \in Seq(Timesteps) /\ todo \in Seq(Timesteps)
      /\ NoneLost(posts, dump, todo, chan, batch) /\ TailFirst(todo, chan, batch, tail)
      /\ tail.upto <= Len(posts) /\ tail.upto \in Nat /\ Len(posts) \in Nat
  BY LenProperties, SinkAssumption DEF IInv, TypeOK, DataOK, TailOK, Ids
<1>2. /\ 1 \in DOMAIN chan /\ Len(chan) \in Nat \ {0} /\ chan[1] \in Messages
      /\ chan[1].list = <<>>
  <2>1. 1 \in DOMAIN chan /\ Len(chan) \in Nat \ {0} /\ chan[1] \in Messages
    BY <1>1
  <2>2. \A m \in Messages : m.kind = "tail" => m.list = <<>>
    BY DEF Messages
  <2> QED
    BY <2>1, <2>2
<1>3. /\ chan[1].time = tail.time
      /\ \A j \in 2 .. Len(chan) + 1 : \A k \in DOMAIN Place(todo, chan, batch, j) :
            Place(todo, chan, batch, j)[k].id # 0
               => Place(todo, chan, batch, j)[k].id > tail.upto
  BY <1>1, <1>2 DEF TailFirst
<1>4. ASSUME NEW n \in 1 .. tail.upto, NEW j \in Places(chan)
      PROVE  n \notin IdsIn(Place(todo, chan, batch, j))
  <2>1. CASE j = 0
    BY <1>1, <2>1 DEF Place, IdsIn
  <2>2. CASE j = 1
    <3>1. Place(todo, chan, batch, j) = <<>>
      BY <1>2, <2>2 DEF Place
    <3> QED
      BY <3>1 DEF IdsIn
  <2>3. CASE j \in 2 .. Len(chan) + 1
    <3>1. ASSUME NEW k \in DOMAIN Place(todo, chan, batch, j),
                 n = Place(todo, chan, batch, j)[k].id
          PROVE  FALSE
      <4>1. n # 0 /\ ~ n > tail.upto
        BY <1>1
      <4> QED
        BY <1>3, <2>3, <3>1, <4>1
    <3> QED
      BY <3>1 DEF IdsIn
  <2> QED
    BY <1>2, <2>1, <2>2, <2>3 DEF Places
<1>5. \A n \in 1 .. tail.upto : n \in 1 .. Len(posts)
  BY <1>1
<1> QED
  BY <1>1, <1>3, <1>4, <1>5 DEF NoneLost

LEMMA ReceiveKeeps ==
  ASSUME IInv, Receive
  PROVE  IInv'
<1> DEFINE m == Head(chan)
<1>1. /\ TypeOK /\ dump \in Dumps /\ DumpOK(dump) /\ todo \in Seq(Timesteps)
      /\ chan \in Seq(Messages) /\ batch \in Seq(Timesteps)
      /\ DataOK(posts, dump, todo, chan, batch) /\ TailOK /\ TailCoversTheRun
      /\ TailFirst(todo, chan, batch, tail)
      /\ tail \in [time : Times, upto : Ids, answered : BOOLEAN, done : BOOLEAN]
  BY DEF IInv, TypeOK, TailOK
<1>2. /\ UNCHANGED <<mode, every, time, posts, sim, closed, batch, tx, guard,
                     interrupted, acknowledged>>
      /\ writer = "recv" /\ chan # <<>> /\ chan' = Tail(chan)
      /\ \/ /\ m.kind = "batch"
            /\ writer' = "batch" /\ todo' = m.list
            /\ UNCHANGED <<dump, tail>>
         \/ /\ m.kind = "flush"
            /\ dump' = Flush(dump)
            /\ UNCHANGED <<writer, todo, tail>>
         \/ /\ m.kind = "tail"
            /\ dump' = CloseAt(dump, m.time)
            /\ tail' = [tail EXCEPT !.answered = TRUE]
            /\ UNCHANGED <<writer, todo>>
         \/ /\ m.kind = "finish"
            /\ writer' = "finish"
            /\ UNCHANGED <<dump, todo, tail>>
  BY DEF Receive, WriterFrame, fixedVars, simVars, signalVars
<1>3. /\ Tail(chan) \in Seq(Messages) /\ m \in Messages /\ m = chan[1]
      /\ Len(Tail(chan)) = Len(chan) - 1 /\ Len(chan) \in Nat \ {0}
      /\ \A i \in 1 .. Len(chan) - 1 : Tail(chan)[i] = chan[i + 1]
  BY <1>1, <1>2, ReceiveMoves
<1>4. /\ todo = <<>> /\ mode = "threaded" /\ ~ dump.final
      /\ \A i \in DOMAIN chan : chan[i].kind = "finish" => i = Len(chan) /\ ~ tx
  BY <1>1, <1>2 DEF IInv, PhasesOK, TypeOK
<1>5. /\ m.kind # "batch" => m.list = <<>>
      /\ m.list \in Seq(Timesteps) /\ m.time \in Times
      /\ m.kind \in {"batch", "flush", "finish", "tail"}
  <2>1. 0 \in Times
    BY SinkAssumption DEF Times
  <2> QED
    BY <1>3, <2>1, EmptySeq DEF Messages
<1>6. DataOK(posts, dump, m.list, chan', batch)
  BY <1>1, <1>2, <1>4, Receives
<1>7. TailFirst(m.list, chan', batch, tail)
  BY <1>1, <1>2, <1>4, TailMovesUp
<1>8. /\ DOMAIN chan' = 1 .. Len(chan) - 1 /\ chan' \in Seq(Messages)
      /\ Len(chan') = Len(chan) - 1 /\ DOMAIN chan = 1 .. Len(chan)
      /\ \A i \in DOMAIN chan' : i + 1 \in DOMAIN chan /\ chan'[i] = chan[i + 1]
      /\ \A i \in DOMAIN chan : i # 1 => i - 1 \in DOMAIN chan' /\ chan[i] = chan'[i - 1]
      /\ 1 \in DOMAIN chan
  <2>1. /\ DOMAIN chan' = 1 .. Len(chan) - 1 /\ chan' \in Seq(Messages)
        /\ Len(chan') = Len(chan) - 1 /\ DOMAIN chan = 1 .. Len(chan)
    BY <1>1, <1>2, <1>3
  <2>2. \A i \in 1 .. Len(chan) - 1 : i + 1 \in 1 .. Len(chan)
    BY <1>3
  <2>3. \A i \in 1 .. Len(chan) : i # 1 => i - 1 \in 1 .. Len(chan) - 1 /\ i = (i - 1) + 1
    BY <1>3
  <2>4. 1 \in 1 .. Len(chan)
    BY <1>3
  <2> QED
    BY <1>2, <1>3, <2>1, <2>2, <2>3, <2>4, Zenon
<1>9. /\ TailSent' => TailSent
      /\ m.kind # "tail" /\ TailSent => TailSent'
      /\ m.kind = "tail" => TailSent
  <2>1. TailSent' => TailSent
    BY <1>8 DEF TailSent
  <2>2. m.kind # "tail" /\ TailSent => TailSent'
    BY <1>3, <1>8 DEF TailSent
  <2>3. m.kind = "tail" => TailSent
    BY <1>3, <1>8 DEF TailSent
  <2> QED
    BY <2>1, <2>2, <2>3
<1>10. \A i \in DOMAIN chan' : chan'[i].kind = "finish" => i = Len(chan') /\ ~ tx
  <2>1. ASSUME NEW i \in DOMAIN chan', chan'[i].kind = "finish"
        PROVE  i = Len(chan') /\ ~ tx
    <3>1. i + 1 \in DOMAIN chan /\ chan[i + 1].kind = "finish"
      BY <1>8, <2>1
    <3>2. i + 1 = Len(chan) /\ ~ tx
      BY <1>4, <3>1
    <3>3. i \in Int /\ Len(chan') = Len(chan) - 1
      BY <1>3, <1>8
    <3> QED
      BY <1>3, <3>2, <3>3
  <2> QED
    BY <2>1
<1> HIDE DEF m
<1>11. CASE m.kind = "batch"
  <2>1. writer' = "batch" /\ todo' = m.list /\ UNCHANGED <<dump, tail>>
    BY <1>2, <1>11
  <2>2. TypeOK'
    BY <1>1, <1>2, <1>5, <1>8, <2>1 DEF TypeOK
  <2>3. PhasesOK'
    BY <1>2, <1>4, <1>10, <2>1 DEF IInv, PhasesOK
  <2>4. TailCoversTheRun'
    BY <1>1, <2>1 DEF TailCoversTheRun, Settled
  <2>5. TailOK'
    BY <1>1, <1>2, <1>7, <1>9, <1>11, <2>1, <2>4 DEF TailOK
  <2> QED
    BY <1>1, <1>2, <1>6, <2>1, <2>2, <2>3, <2>5 DEF IInv
<1>12. CASE m.kind = "flush"
  <2>1. dump' = Flush(dump) /\ UNCHANGED <<writer, todo, tail>> /\ todo = m.list
    BY <1>2, <1>4, <1>5, <1>12
  <2>2. Kept(dump, dump') /\ dump'.final = dump.final
    BY <1>1, <2>1, FlushKeeps
  <2>3. dump' \in Dumps /\ DumpOK(dump')
    BY <2>2 DEF Kept
  <2>4. DataOK(posts, dump', todo, chan', batch)
    BY <1>6, <2>1, <2>2, KeptData
  <2>5. TypeOK'
    BY <1>1, <1>2, <1>8, <2>1, <2>3 DEF TypeOK
  <2>6. PhasesOK'
    BY <1>2, <1>4, <1>10, <2>1, <2>2 DEF IInv, PhasesOK
  <2>7. TailCoversTheRun'
    BY <1>1, <2>1, <2>2, AnswerStands DEF Kept
  <2>8. TailOK'
    BY <1>1, <1>2, <1>7, <1>9, <1>12, <2>1, <2>7 DEF TailOK
  <2> QED
    BY <1>1, <1>2, <2>1, <2>3, <2>4, <2>5, <2>6, <2>8 DEF IInv
<1>13. CASE m.kind = "tail"
  <2>1. /\ dump' = CloseAt(dump, m.time) /\ UNCHANGED <<writer, todo>>
        /\ tail' = [tail EXCEPT !.answered = TRUE] /\ todo = m.list
    BY <1>2, <1>4, <1>5, <1>13
  <2>2. /\ tail' \in [time : Times, upto : Ids, answered : BOOLEAN, done : BOOLEAN]
        /\ tail'.time = tail.time /\ tail'.upto = tail.upto /\ tail'.answered
        /\ tail'.done <=> tail.done
    BY <1>1, <2>1
  <2>3. /\ Kept(dump, dump') /\ dump'.final = dump.final
        /\ m.time > 0 => dump'.block = <<>> /\ dump'.fileEnd >= m.time
    BY <1>1, <1>4, <1>5, <2>1, CloseKeeps
  <2>4. dump' \in Dumps /\ DumpOK(dump')
    BY <2>3 DEF Kept
  <2>5. DataOK(posts, dump', todo, chan', batch)
    BY <1>6, <2>1, <2>3, KeptData
  <2>6. m.time = tail.time /\ 1 .. tail.upto \subseteq Had(dump)
    BY <1>2, <1>3, <1>4, <1>13, TailIsNext
  <2>7. ASSUME m.time > 0 PROVE Had(dump) = Settled'
    <3>1. dump'.block = <<>> /\ Had(dump') = Had(dump) /\ dump'.file \in Seq(Timesteps)
      BY <2>3, <2>4, <2>7 DEF Kept, Had, Dumps
    <3>2. Written(dump') = dump'.file
      BY <3>1 DEF Written
    <3> QED
      BY <3>1, <3>2 DEF Had, Settled
  <2>8. TailCoversTheRun'
    BY <2>2, <2>3, <2>6, <2>7 DEF TailCoversTheRun
  <2>9. TypeOK'
    BY <1>1, <1>2, <1>8, <2>1, <2>2, <2>4 DEF TypeOK
  <2>10. PhasesOK'
    BY <1>2, <1>4, <1>10, <2>1, <2>3 DEF IInv, PhasesOK
  <2>11. TailFirst(todo, chan', batch, tail')
    BY <1>7, <2>1, <2>2 DEF TailFirst
  <2>12. TailOK'
    <3>1. guard = "wait" \/ tail.done
      BY <1>1, <1>9, <1>13 DEF TailOK
    <3> QED
      BY <1>1, <1>2, <2>1, <2>2, <2>8, <2>11, <3>1 DEF TailOK
  <2> QED
    BY <1>1, <1>2, <2>1, <2>4, <2>5, <2>9, <2>10, <2>12 DEF IInv
<1>14. CASE m.kind = "finish"
  <2>1. writer' = "finish" /\ UNCHANGED <<dump, todo, tail>> /\ todo = m.list
    BY <1>2, <1>4, <1>5, <1>14
  <2>2. 1 = Len(chan) /\ ~ tx
    BY <1>3, <1>4, <1>8, <1>14
  <2>3. chan' = <<>>
    <3>1. Len(chan') = 0
      BY <1>3, <1>8, <2>2
    <3> QED
      BY <1>8, <3>1
  <2>4. TypeOK'
    BY <1>1, <1>2, <1>8, <2>1 DEF TypeOK
  <2>5. PhasesOK'
    BY <1>2, <1>4, <2>1, <2>2, <2>3 DEF IInv, PhasesOK
  <2>6. TailCoversTheRun'
    BY <1>1, <2>1 DEF TailCoversTheRun, Settled
  <2>7. TailOK'
    BY <1>1, <1>2, <1>7, <1>9, <1>14, <2>1, <2>6 DEF TailOK
  <2> QED
    BY <1>1, <1>2, <1>6, <2>1, <2>4, <2>5, <2>7 DEF IInv
<1> QED
  BY <1>5, <1>11, <1>12, <1>13, <1>14

LEMMA InitHolds == Init => IInv
<1> SUFFICES ASSUME Init PROVE IInv
  OBVIOUS
<1> DEFINE none == <<>>
<1>1. /\ 0 \in Times /\ 0 \in Ids /\ time \in Times /\ MaxPosts \in Nat
      /\ BatchFlush \in Nat \ {0} /\ time >= 0
  BY SinkAssumption DEF Init, Times, Ids
<1>2. /\ none \in Seq(Timesteps) /\ none \in Seq(Times) /\ none \in Seq(Messages)
      /\ Len(none) = 0 /\ DOMAIN none = {} /\ none \o none = none /\ IdsIn(none) = {}
      /\ 1 .. 0 = {}
  BY DEF IdsIn
<1>3. /\ posts = none /\ batch = none /\ chan = none /\ todo = none
      /\ dump.file = none /\ dump.block = none /\ dump.dropped = {}
      /\ dump.lastTime = time /\ dump.fileEnd = 0 /\ (dump.open <=> time > 0)
      /\ dump.final = FALSE /\ dump.flushedOnce = FALSE
  BY DEF Init
<1>4. dump \in Dumps
  BY <1>1, <1>2 DEF Init, Dumps
<1>5. TypeOK
  <2>1. /\ mode \in {"inline", "threaded"} /\ every \in BOOLEAN /\ time \in Times
        /\ sim = "slot" /\ tx \in BOOLEAN /\ closed = FALSE
        /\ guard \in {"parked", "none"} /\ writer \in {"recv", "none"}
        /\ interrupted = FALSE /\ acknowledged = FALSE
    BY <1>1 DEF Init
  <2>2. tail \in [time : Times, upto : Ids, answered : BOOLEAN, done : BOOLEAN]
    BY <1>1 DEF Init
  <2>3. Len(posts) <= MaxPosts /\ Len(batch) < BatchFlush
    BY <1>1, <1>2, <1>3
  <2> HIDE DEF none
  <2> QED
    BY <1>2, <1>3, <1>4, <2>1, <2>2, <2>3 DEF TypeOK
<1>6. PhasesOK
  <2>1. /\ sim = "slot" /\ ~ dump.final /\ chan = <<>> /\ batch = <<>> /\ todo = <<>>
        /\ mode \in {"inline", "threaded"} /\ (tx <=> mode = "threaded")
    BY <1>3 DEF Init
  <2>2. /\ mode = "inline" => writer = "none" /\ guard = "none"
        /\ mode = "threaded" => writer = "recv"
    BY DEF Init
  <2>3. writer \in {"none", "recv"}
    BY <2>1, <2>2
  <2> QED
    BY <2>1, <2>2, <2>3 DEF PhasesOK
<1>7. DumpOK(dump)
  BY <1>1, <1>3 DEF DumpOK, Times
<1> HIDE DEF none
<1>8. Places(none) = {0, 1} /\ \A i \in Places(none) : Place(none, none, none, i) = none
  BY <1>2 DEF Places, Place
<1>9. Written(dump) = none
  BY <1>2, <1>3 DEF Written
<1>10. DataOK(posts, dump, todo, chan, batch)
  BY <1>2, <1>3, <1>8, <1>9 DEF DataOK, WrittenOK, OnItsWayOK, NoneLost
<1>11. TailOK
  <2>1. ~ tail.answered /\ ~ tail.done /\ tail.upto = 0 /\ guard \in {"parked", "none"}
    BY DEF Init
  <2>2. ~ TailSent /\ TailFirst(todo, chan, batch, tail)
    BY <1>2, <1>3 DEF TailSent, TailFirst
  <2> QED
    BY <1>2, <1>3, <2>1, <2>2 DEF TailOK, TailCoversTheRun
<1> QED
  BY <1>5, <1>6, <1>7, <1>10, <1>11 DEF IInv

LEMMA StutterHolds ==
  ASSUME IInv, UNCHANGED vars
  PROVE  IInv'
<1>1. UNCHANGED <<posts, dump, todo, chan, batch, tail, guard, writer, mode, sim, tx>>
  BY DEF vars
<1>2. TypeOK' /\ PhasesOK'
  BY DEF vars, IInv, TypeOK, PhasesOK
<1> QED
  BY <1>1, <1>2, OnlyPhasesMove DEF IInv, TailOK

LEMMA StepHolds == IInv /\ [Next]_vars => IInv'
<1> SUFFICES ASSUME IInv, [Next]_vars PROVE IInv'
  OBVIOUS
<1>1. CASE Post
  BY <1>1, PostKeeps
<1>2. CASE DumpFlush
  BY <1>2, DumpFlushKeeps
<1>3. CASE Advance \/ Leave \/ ShutThreaded \/ JoinGuard \/ JoinWriter
  BY <1>3, SimulationMovesOn
<1>4. CASE PostEnd
  BY <1>4, PostEndKeeps
<1>5. CASE ShutInline
  BY <1>5, ShutInlineKeeps
<1>6. CASE SendFinish
  BY <1>6, SendFinishKeeps
<1>7. CASE GuardWakes \/ GuardLooks \/ GuardReadsTime \/ GuardIsAnswered \/ GuardGivesUp
  BY <1>7, GuardMovesOn
<1>8. CASE GuardHandsOff
  BY <1>8, GuardHandsOffKeeps
<1>9. CASE GuardSendsTail
  BY <1>9, GuardSendsTailKeeps
<1>10. CASE Receive
  BY <1>10, ReceiveKeeps
<1>11. CASE IdleFlush \/ BatchApplied \/ WriterFinishes
  BY <1>11, WriterFlushesOrEnds
<1>12. CASE ApplyOne
  BY <1>12, ApplyOneKeeps
<1>13. CASE Signal
  BY <1>13, SignalKeeps
<1>14. CASE UNCHANGED vars
  BY <1>14, StutterHolds
<1> QED
  BY <1>1, <1>2, <1>3, <1>4, <1>5, <1>6, <1>7, <1>8, <1>9, <1>10, <1>11, <1>12,
     <1>13, <1>14 DEF Next, Closing, Guarding, Writing

LEMMA InductiveInvariant == Spec => []IInv
<1> QED
  BY InitHolds, StepHolds, PTL DEF Spec
-----------------------------------------------------------------------------
(* What it means.                                                            *)

LEMMA InvKeepsChannel == IInv => ChannelKept
<1> SUFFICES ASSUME IInv PROVE ChannelKept
  OBVIOUS
<1>1. TypeOK /\ WrittenOK(posts, dump)
  BY DEF IInv, DataOK
<1>2. ChangesInOrder
  BY <1>1 DEF ChangesInOrder, WrittenOK, Written
<1>3. ASSUME guard = "wait", ~ tail.answered
      PROVE  \E i \in DOMAIN chan :
                /\ chan[i].kind = "tail"
                /\ \A k \in 1 .. i : chan[k].kind # "finish"
                /\ writer \in {"recv", "batch"}
  <2>1. PICK i \in DOMAIN chan : chan[i].kind = "tail"
    BY <1>3 DEF IInv, TailOK, TailSent
  <2>2. chan \in Seq(Messages) /\ writer \in {"none", "recv", "batch", "finish", "gone"}
    BY <1>1 DEF TypeOK
  <2>3. /\ Len(chan) \in Nat /\ i \in 1 .. Len(chan) /\ chan # <<>>
        /\ \A k \in 1 .. i : k \in DOMAIN chan /\ (k = Len(chan) => k = i)
    BY <2>2
  <2>4. \A k \in 1 .. i : chan[k].kind # "finish"
    BY <2>1, <2>3 DEF IInv, PhasesOK
  <2>5. writer \in {"recv", "batch"}
    BY <1>1, <1>3, <2>2, <2>3 DEF IInv, PhasesOK, TypeOK
  <2> QED
    BY <2>1, <2>4, <2>5
<1> QED
  BY <1>1, <1>2, <1>3 DEF ChannelKept, TailIsAnswered

LEMMA InvCompletes == IInv => CloseIsComplete
<1> SUFFICES ASSUME IInv, sim = "done"
             PROVE  dump.final /\ Settled = 1 .. Len(posts)
  BY DEF CloseIsComplete
<1>1. /\ dump.final /\ chan = <<>> /\ todo = <<>> /\ batch = <<>>
  <2>1. mode = "inline" => dump.final /\ chan = <<>> /\ todo = <<>>
    BY DEF IInv, PhasesOK
  <2>2. mode = "threaded" => dump.final /\ chan = <<>> /\ todo = <<>>
    BY DEF IInv, PhasesOK
  <2>3. batch = <<>> /\ mode \in {"inline", "threaded"}
    BY DEF IInv, PhasesOK, TypeOK
  <2> QED
    BY <2>1, <2>2, <2>3
<1>2. dump.block = <<>> /\ dump.file \in Seq(Timesteps)
  BY <1>1 DEF IInv, DumpOK, TypeOK, Dumps
<1>3. Written(dump) = dump.file
  BY <1>2 DEF Written
<1>4. Settled = Had(dump)
  BY <1>3 DEF Settled, Had
<1>5. Had(dump) \subseteq 1 .. Len(posts)
  BY DEF IInv, DataOK, WrittenOK, Had, IdsIn
<1>6. 1 .. Len(posts) \subseteq Had(dump)
  <2> DEFINE none == <<>>
  <2>1. NoneLost(posts, dump, none, none, none)
    BY <1>1 DEF IInv, DataOK
  <2>2. Len(none) = 0 /\ IdsIn(none) = {}
    BY DEF IdsIn
  <2> HIDE DEF none
  <2>3. Places(none) = {0, 1} /\ \A i \in Places(none) : Place(none, none, none, i) = none
    BY <2>2 DEF Places, Place
  <2> QED
    BY <2>1, <2>2, <2>3 DEF NoneLost
<1> QED
  BY <1>1, <1>4, <1>5, <1>6

\* The types, the order of the changes in the file and the block, and the tail
\* that the guard waits for in front of any finish: post, hand_off and write_tail
\* send under one lock, and writer_main takes the messages as they come
\* (fst_sink.rs).
THEOREM ChangesStayInOrder == Spec => []ChannelKept
<1> QED
  BY InductiveInvariant, InvKeepsChannel, PTL

\* Once finish() has returned, the trailer is written and the file has every
\* change posted, apart from those that apply() has left out: close_shared sends
\* what is left of the batch before the finish, and joins the writer
\* (fst_sink.rs).
THEOREM CloseWritesAll == Spec => []CloseIsComplete
<1> QED
  BY InductiveInvariant, InvCompletes, PTL

\* When the guard is told that its tail is written, all that was posted before it
\* sent the tail is in the file, whatever partial batch and messages were under
\* way (write_tail and Writer::tail, fst_sink.rs).
THEOREM TailMeansWritten == Spec => []TailCoversTheRun
<1>1. IInv => TailCoversTheRun
  BY DEF IInv, TailOK
<1> QED
  BY <1>1, InductiveInvariant, PTL

=============================================================================
