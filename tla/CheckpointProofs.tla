--------------------------- MODULE CheckpointProofs ---------------------------
(***************************************************************************)
(* Proofs about Checkpoint.tla, for any designs, times and bounds: what a  *)
(* restored run goes on with, that a kill leaves a whole checkpoint, and   *)
(* that the output file is as the run has written it.                      *)
(***************************************************************************)
EXTENDS Checkpoint, FiniteSetTheorems, SequenceTheorems, WellFoundedInduction,
        TLAPS

-----------------------------------------------------------------------------
(* The inductive invariant.                                                *)

Entries == [pid : Procs, at : Nat]
Mems    == [queue : SUBSET Entries, ended : SUBSET Procs, fast : SUBSET Nat,
            suspended : SUBSET Entries, slow : SUBSET Nat]
Debts   == [fast : SUBSET Nat, slow : SUBSET Nat]

\* The entries of process p in S.
Of(S, p) == {e \in S : e.pid = p}

\* A process has ended, or it has one entry in one of the two places.
In1(p, here, there) == Of(there, p) = {} /\ \E e \in here : Of(here, p) = {e}
OnceIn(m, p) ==
    \/ p \in m.ended /\ Of(m.queue, p) = {} /\ Of(m.suspended, p) = {}
    \/ p \notin m.ended /\ In1(p, m.queue, m.suspended)
    \/ p \notin m.ended /\ In1(p, m.suspended, m.queue)
OnceEach(m) == \A p \in Procs : OnceIn(m, p)

\* What is still to be done lies ahead of time t.
Ahead(m, o, t) == /\ \A e \in m.queue : e.at >= t
                  /\ \A u \in m.fast \cup o.slow : u > t

\* A run, or what was saved of one: memory m and debts o at time t, with what
\* is excused.
Sound(m, o, t, x) ==
    \/ "all" \in x
    \/ /\ "processes" \in x \/ OnceEach(m)
       /\ "assignments" \in x \/ (m.fast = o.fast /\ m.slow = o.slow)
       /\ Ahead(m, o, t)

Fields == {"whole", "time", "mem", "handles", "file", "owed", "meant", "excused",
           "intact"}
SoundSnapshot(c) ==
    /\ DOMAIN c = Fields /\ c = [f \in DOMAIN c |-> c[f]]
    /\ c.whole
    /\ c.time \in Nat /\ c.mem \in Mems /\ c.owed \in Debts
    /\ Sound(c.mem, c.owed, c.time, c.excused)

\* While requests are served the next time that was found stays the next time,
\* unless a $restart replaced the state.
NextIsNext ==
    pc \in {"serve", "save"} /\ ~replaced /\ "all" \notin excused =>
        next = NextTime /\ next > time

IInv ==
    /\ design \in Designs
    /\ time \in Nat /\ next \in Nat /\ mem \in Mems /\ owed \in Debts
    /\ replaced \in BOOLEAN
    /\ pc # "off" => Sound(mem, owed, time, excused)
    /\ NextIsNext
    /\ saved.whole \in BOOLEAN /\ (saved.whole => SoundSnapshot(saved))
    /\ pc = "save" => tmp.whole \in BOOLEAN /\ (tmp.whole => SoundSnapshot(tmp))

-----------------------------------------------------------------------------
(* The queue and the clock.                                                *)

LEMMA TimesAre ==
  /\ Times \in SUBSET Nat /\ NoTime = -1
  /\ \A t \in Times : t \in Nat
  BY CheckpointAssumption DEF Times, NoTime

LEMMA LaterIs ==
  ASSUME IInv
  PROVE  \A t \in Later : t \in Nat /\ t > time
  BY TimesAre DEF Later, IInv

\* The smallest of a set of numbers.
LEMMA MinIs ==
  ASSUME NEW S \in SUBSET Nat, S # {}
  PROVE  Min(S) \in S /\ \A n \in S : Min(S) <= n
<1>1. \E m \in S : \A n \in S : ~ (<<n, m>> \in OpToRel(<, Nat))
  BY NatLessThanWellFounded, WFMin
<1>2. PICK m \in S : \A n \in S : ~ (<<n, m>> \in OpToRel(<, Nat))
  BY <1>1
<1>3. ASSUME NEW n \in S PROVE m <= n
  <2>1. n \in Nat /\ m \in Nat
    OBVIOUS
  <2>2. ~ (n < m)
    BY <1>2, <2>1 DEF OpToRel
  <2> QED
    BY <2>1, <2>2
<1> QED
  BY <1>3 DEF Min

LEMMA MaxIs ==
  ASSUME NEW k \in Nat, NEW n \in Nat
  PROVE  Max({k, n}) \in Nat /\ Max({k, n}) >= n
  BY DEF Max

\* The time that the clock moves to: nothing waits before it.
LEMMA NextTimeIs ==
  ASSUME mem \in Mems, time \in Nat, NextTime > time
  PROVE  /\ NextTime \in Nat
         /\ \A e \in mem.queue : e.at >= NextTime
<1>1. Work \in SUBSET Nat
  BY DEF Work, Mems, Entries
<1>2. Work # {} /\ NextTime = Min(Work)
  BY TimesAre DEF NextTime
<1>3. NextTime \in Work /\ \A n \in Work : NextTime <= n
  BY <1>1, <1>2, MinIs
<1>4. \A e \in mem.queue : e.at \in Work
  BY DEF Work
<1> QED
  BY <1>1, <1>3, <1>4

LEMMA AfterIs ==
  ASSUME NEW m \in Mems, NEW o \in Debts, NEW t \in Nat
  PROVE  /\ After(m, t) \in Mems /\ After(o, t) \in Debts
         /\ After(m, t).queue = m.queue /\ After(m, t).ended = m.ended
         /\ After(m, t).suspended = m.suspended
         /\ \A u : u \in After(m, t).fast <=> u \in m.fast /\ u > t
         /\ \A u : u \in After(m, t).slow <=> u \in m.slow /\ u > t
         /\ \A u : u \in After(o, t).fast <=> u \in o.fast /\ u > t
         /\ \A u : u \in After(o, t).slow <=> u \in o.slow /\ u > t
  BY DEF After, Mems, Debts

LEMMA SameProcesses ==
  ASSUME NEW m, NEW m2, OnceEach(m), m2.queue = m.queue, m2.ended = m.ended,
         m2.suspended = m.suspended
  PROVE  OnceEach(m2)
  BY DEF OnceEach, OnceIn, In1

\* The clock moves to the next time, and what is due is applied.
LEMMA AdvanceIsSound ==
  ASSUME NEW m \in Mems, NEW o \in Debts, NEW t \in Nat, NEW t2 \in Nat, NEW x,
         Sound(m, o, t, x), \A e \in m.queue : e.at >= t2
  PROVE  Sound(After(m, t2), After(o, t2), t2, x)
<1> DEFINE m2 == After(m, t2)
           o2 == After(o, t2)
<1>1. OnceEach(m) => OnceEach(m2)
  BY AfterIs, SameProcesses
<1>2. m.fast = o.fast => m2.fast = o2.fast
  BY DEF After, Mems, Debts
<1>3. m.slow = o.slow => m2.slow = o2.slow
  BY DEF After, Mems, Debts
<1>4. Ahead(m2, o2, t2)
  BY AfterIs DEF Ahead
<1> SUFFICES Sound(m2, o2, t2, x)
  OBVIOUS
<1> HIDE DEF m2, o2
<1> QED
  BY <1>1, <1>2, <1>3, <1>4 DEF Sound

-----------------------------------------------------------------------------
(* A process that runs, and is suspended or resumed.                       *)

\* What p's turn may change: one entry of p goes, and may come back later.
TurnOf(p, m, m2) ==
    /\ m2.fast = m.fast /\ m2.slow = m.slow /\ m2.suspended = m.suspended
    /\ \/ /\ m2.queue = m.queue \ {[pid |-> p, at |-> time]}
          /\ m2.ended = m.ended \cup {p}
       \/ \E t \in Nat :
             /\ t > time /\ m2.ended = m.ended
             /\ m2.queue = (m.queue \ {[pid |-> p, at |-> time]})
                           \cup {[pid |-> p, at |-> t]}

LEMMA WaitsIs ==
  ASSUME IInv, NEW m \in Mems, NEW p \in Procs, NEW m2 \in Waits(m, p)
  PROVE  m2 \in Mems /\ TurnOf(p, m, m2)
<1> DEFINE now == [pid |-> p, at |-> time]
           rest == {e \in m.queue : e # now}
<1>1. rest = m.queue \ {now}
  OBVIOUS
<1>2. CASE m2 = [m EXCEPT !.queue = rest, !.ended = @ \cup {p}]
  BY <1>1, <1>2 DEF TurnOf, Mems
<1>3. CASE \E t \in Later : m2 = [m EXCEPT !.queue = rest \cup {[pid |-> p, at |-> t]}]
  <2>1. PICK t \in Later : m2 = [m EXCEPT !.queue = rest \cup {[pid |-> p, at |-> t]}]
    BY <1>3
  <2>2. t \in Nat /\ t > time
    BY LaterIs
  <2>3. [pid |-> p, at |-> t] \in Entries
    BY <2>2 DEF Entries
  <2> QED
    BY <1>1, <2>1, <2>2, <2>3 DEF TurnOf, Mems
<1> QED
  BY <1>2, <1>3 DEF Waits

LEMMA RunsOnce ==
  ASSUME NEW m \in Mems, NEW p \in Procs, NEW m2, TurnOf(p, m, m2), OnceEach(m),
         [pid |-> p, at |-> time] \in m.queue
  PROVE  OnceEach(m2)
<1> DEFINE now == [pid |-> p, at |-> time]
<1>1. OnceIn(m, p) /\ now \in Of(m.queue, p)
  BY DEF OnceEach, Of
<1>2. Of(m.queue, p) = {now} /\ Of(m.suspended, p) = {} /\ p \notin m.ended
  BY <1>1 DEF OnceIn, In1
<1> SUFFICES ASSUME NEW q \in Procs PROVE OnceIn(m2, q)
  BY DEF OnceEach
<1>3. CASE q # p
  <2>1. /\ Of(m2.queue, q) = Of(m.queue, q) /\ Of(m2.suspended, q) = Of(m.suspended, q)
        /\ q \in m2.ended <=> q \in m.ended
    BY <1>3 DEF TurnOf, Of
  <2>2. OnceIn(m, q)
    BY DEF OnceEach
  <2>3. \A e : Of(m.queue, q) = {e} => e \in m2.queue
    BY <2>1 DEF Of
  <2>4. \A e : Of(m.suspended, q) = {e} => e \in m2.suspended
    BY <2>1 DEF Of
  <2> QED
    BY <2>1, <2>2, <2>3, <2>4 DEF OnceIn, In1
<1>4. CASE q = p
  <2>1. CASE /\ m2.queue = m.queue \ {now}
             /\ m2.ended = m.ended \cup {p}
    <3>1. Of(m2.queue, p) = {} /\ Of(m2.suspended, p) = {}
      BY <1>2, <2>1 DEF Of, TurnOf
    <3> QED
      BY <1>4, <2>1, <3>1 DEF OnceIn
  <2>2. ASSUME NEW t \in Nat, m2.ended = m.ended,
               m2.queue = (m.queue \ {now}) \cup {[pid |-> p, at |-> t]}
        PROVE  OnceIn(m2, p)
    <3>1. Of(m2.queue, p) = {[pid |-> p, at |-> t]} /\ Of(m2.suspended, p) = {}
      BY <1>2, <2>2 DEF Of, TurnOf
    <3> QED
      BY <1>2, <2>2, <3>1 DEF OnceIn, In1
  <2> QED
    BY <1>4, <2>1, <2>2 DEF TurnOf
<1> QED
  BY <1>3, <1>4

LEMMA AheadAfterTurn ==
  ASSUME NEW m \in Mems, NEW p \in Procs, NEW m2, TurnOf(p, m, m2), NEW o,
         Ahead(m, o, time), time \in Nat
  PROVE  Ahead(m2, o, time)
  BY DEF Ahead, TurnOf

\* A process that runs and leaves the delayed assignments alone.
LEMMA TurnIsSound ==
  ASSUME NEW m \in Mems, NEW p \in Procs, NEW m2, TurnOf(p, m, m2), time \in Nat,
         NEW o, NEW x, Sound(m, o, time, x), [pid |-> p, at |-> time] \in m.queue
  PROVE  Sound(m2, o, time, x)
<1>1. OnceEach(m) => OnceEach(m2)
  BY RunsOnce
<1>2. Ahead(m, o, time) => Ahead(m2, o, time)
  BY AheadAfterTurn
<1>3. m2.fast = m.fast /\ m2.slow = m.slow
  BY DEF TurnOf
<1> QED
  BY <1>1, <1>2, <1>3 DEF Sound

\* What process_control.rs does to q leaves the others and the assignments alone.
Moved(q, m, m2) ==
    /\ m2 \in Mems
    /\ m2.fast = m.fast /\ m2.slow = m.slow /\ m2.ended = m.ended
    /\ \A p \in Procs \ {q} : /\ Of(m2.queue, p) = Of(m.queue, p)
                              /\ Of(m2.suspended, p) = Of(m.suspended, p)
    /\ OnceIn(m, q) => OnceIn(m2, q)
    /\ \A e \in m2.queue : e \in m.queue \/ e.at >= time

LEMMA SuspendedIs ==
  ASSUME NEW m \in Mems, NEW q \in Procs
  PROVE  Moved(q, m, Suspended(m, q))
<1> DEFINE m2 == Suspended(m, q)
           es == Of(m.queue, q)
<1>1. /\ m2 \in Mems
      /\ m2.fast = m.fast /\ m2.slow = m.slow /\ m2.ended = m.ended
      /\ m2.queue = m.queue \ es /\ m2.suspended = m.suspended \cup es
  BY DEF Suspended, Mems, Of
<1> HIDE DEF m2
<1>2. \A p \in Procs \ {q} : /\ Of(m2.queue, p) = Of(m.queue, p)
                             /\ Of(m2.suspended, p) = Of(m.suspended, p)
  BY <1>1 DEF Of
<1>3. Of(m2.queue, q) = {} /\ Of(m2.suspended, q) = Of(m.suspended, q) \cup es
  BY <1>1 DEF Of
<1>4. OnceIn(m, q) => OnceIn(m2, q)
  <2>1. \A e : es = {e} => e \in es
    OBVIOUS
  <2>2. \A e : Of(m.suspended, q) = {e} => e \in Of(m.suspended, q)
    OBVIOUS
  <2> QED
    BY <1>1, <1>3, <2>1, <2>2 DEF OnceIn, In1
<1> QED
  BY <1>1, <1>2, <1>4 DEF Moved, m2

LEMMA ResumedIs ==
  ASSUME NEW m \in Mems, NEW q \in Procs, time \in Nat
  PROVE  Moved(q, m, Resumed(m, q))
<1> DEFINE m2 == Resumed(m, q)
           es == Of(m.suspended, q)
           back(e) == [pid |-> q, at |-> Max({e.at, time})]
<1>1. \A e \in es : back(e) \in Entries /\ back(e).at >= time /\ back(e).pid = q
  BY MaxIs DEF Of, Mems, Entries
<1>2. /\ m2.fast = m.fast /\ m2.slow = m.slow /\ m2.ended = m.ended
      /\ m2.queue = m.queue \cup {back(e) : e \in es}
      /\ m2.suspended = m.suspended \ es
  BY DEF Resumed, Mems, Of
<1>3. m2 \in Mems
  <2>1. {back(e) : e \in es} \subseteq Entries
    BY <1>1
  <2> QED
    BY <2>1 DEF Resumed, Mems, Of
<1> HIDE DEF m2, back
<1>4. \A p \in Procs \ {q} : /\ Of(m2.queue, p) = Of(m.queue, p)
                             /\ Of(m2.suspended, p) = Of(m.suspended, p)
  BY <1>1, <1>2 DEF Of
<1>5. /\ Of(m2.suspended, q) = {}
      /\ Of(m2.queue, q) = Of(m.queue, q) \cup {back(e) : e \in es}
  BY <1>1, <1>2 DEF Of
<1>6. \A e : Of(m2.queue, q) = {e} => e \in m2.queue
  BY DEF Of
<1>7. OnceIn(m, q) => OnceIn(m2, q)
  <2>1. CASE es = {}
    <3>1. Of(m2.queue, q) = Of(m.queue, q)
      BY <1>5, <2>1
    <3> QED
      BY <1>2, <1>5, <1>6, <2>1, <3>1 DEF OnceIn, In1
  <2>2. CASE es # {}
    <3>1. OnceIn(m, q) => \E e \in es : es = {e} /\ Of(m.queue, q) = {} /\ q \notin m.ended
      BY <2>2 DEF OnceIn, In1
    <3> SUFFICES ASSUME OnceIn(m, q) PROVE OnceIn(m2, q)
      OBVIOUS
    <3>2. PICK e \in es : es = {e} /\ Of(m.queue, q) = {} /\ q \notin m.ended
      BY <3>1
    <3>3. {back(f) : f \in es} = {back(e)}
      BY <3>2
    <3>4. Of(m2.queue, q) = {back(e)}
      BY <1>5, <3>2, <3>3
    <3> QED
      BY <1>2, <1>5, <1>6, <3>2, <3>4 DEF OnceIn, In1
  <2> QED
    BY <2>1, <2>2
<1>8. \A e \in m2.queue : e \in m.queue \/ e.at >= time
  BY <1>1, <1>2
<1> QED
  BY <1>2, <1>3, <1>4, <1>7, <1>8 DEF Moved, m2

LEMMA MovedIsSound ==
  ASSUME NEW m \in Mems, NEW q \in Procs, NEW m2, Moved(q, m, m2),
         NEW o, NEW x, Sound(m, o, time, x)
  PROVE  Sound(m2, o, time, x)
<1>1. ASSUME OnceEach(m) PROVE OnceEach(m2)
  <2> SUFFICES ASSUME NEW p \in Procs PROVE OnceIn(m2, p)
    BY DEF OnceEach
  <2>1. OnceIn(m, p)
    BY <1>1 DEF OnceEach
  <2>2. CASE p = q
    BY <2>1, <2>2 DEF Moved
  <2>3. CASE p # q
    <3>1. /\ Of(m2.queue, p) = Of(m.queue, p) /\ m2.ended = m.ended
          /\ Of(m2.suspended, p) = Of(m.suspended, p)
      BY <2>3 DEF Moved
    <3>2. /\ \A e : Of(m2.queue, p) = {e} => e \in m2.queue
          /\ \A e : Of(m2.suspended, p) = {e} => e \in m2.suspended
      BY DEF Of
    <3> QED
      BY <2>1, <3>1, <3>2 DEF OnceIn, In1
  <2> QED
    BY <2>2, <2>3
<1>2. Ahead(m, o, time) => Ahead(m2, o, time)
  BY DEF Ahead, Moved
<1>3. m2.fast = m.fast /\ m2.slow = m.slow
  BY DEF Moved
<1> QED
  BY <1>1, <1>2, <1>3 DEF Sound

-----------------------------------------------------------------------------
(* Checkpoints.                                                            *)

\* What is noted of a checkpoint as the file changes leaves it what it was.
LEMMA WatchKeeps ==
  ASSUME NEW c, NEW f
  PROVE  /\ c.whole = FALSE => Watch(c, f) = c
         /\ SoundSnapshot(c) => /\ SoundSnapshot(Watch(c, f))
                                /\ Watch(c, f).whole /\ Watch(c, f).mem = c.mem
                                /\ Watch(c, f).time = c.time
                                /\ Watch(c, f).owed = c.owed
                                /\ Watch(c, f).excused = c.excused
<1>1. c.whole = FALSE => Watch(c, f) = c
  BY DEF Watch
<1>2. ASSUME SoundSnapshot(c)
      PROVE  /\ DOMAIN Watch(c, f) = Fields
             /\ Watch(c, f) = [k \in DOMAIN Watch(c, f) |-> Watch(c, f)[k]]
             /\ Watch(c, f).whole = c.whole /\ Watch(c, f).mem = c.mem
             /\ Watch(c, f).time = c.time /\ Watch(c, f).owed = c.owed
             /\ Watch(c, f).excused = c.excused
  <2> DEFINE b == c.intact /\ IsPrefix(c.file, f)
  <2>1. Watch(c, f) = [c EXCEPT !.intact = b]
    BY <1>2 DEF Watch, SoundSnapshot
  <2> HIDE DEF b
  <2> QED
    BY <1>2, <2>1 DEF SoundSnapshot, Fields
<1> QED
  BY <1>1, <1>2 DEF SoundSnapshot

\* What the file of the checkpoint is after another change of the design's file.
LEMMA SavedStays ==
  ASSUME NEW c, NEW f, c.whole \in BOOLEAN, c.whole => SoundSnapshot(c)
  PROVE  /\ Watch(c, f).whole \in BOOLEAN
         /\ Watch(c, f).whole => SoundSnapshot(Watch(c, f))
<1>1. CASE c.whole
  BY <1>1, WatchKeeps
<1>2. CASE c.whole = FALSE
  BY <1>2, WatchKeeps
<1> QED
  BY <1>1, <1>2

LEMMA RestoreIsSound ==
  ASSUME IInv, saved.whole, NEW cur \in Mems, NEW d, NEW fails \in BOOLEAN,
         Restore(cur, d, fails)
  PROVE  /\ time' \in Nat /\ mem' \in Mems /\ owed' \in Debts
         /\ Sound(mem', owed', time', excused')
         /\ saved'.whole \in BOOLEAN /\ (saved'.whole => SoundSnapshot(saved'))
         /\ fails => "all" \in excused'
<1> DEFINE flushed == FlushAll(d).file
           c == Watch(saved, flushed)
<1>1. SoundSnapshot(c)
  BY WatchKeeps DEF IInv
<1>2. /\ time' = c.time /\ mem' = Kept(c.mem, cur) /\ owed' = c.owed
      /\ excused' = c.excused \cup LostBy(c, cur, fails)
      /\ \E f : saved' = Watch(c, f)
  BY DEF Restore
<1>3. fails => "all" \in LostBy(c, cur, fails)
  BY DEF LostBy
<1>4. "processes" \notin LostBy(c, cur, fails) => c.mem.suspended = cur.suspended
  BY DEF LostBy
<1>5. "assignments" \notin LostBy(c, cur, fails) => c.mem.slow = cur.slow
  BY DEF LostBy
<1> HIDE DEF c
<1> DEFINE m == Kept(c.mem, cur)
<1>6. /\ c.mem \in Mems /\ c.time \in Nat /\ c.owed \in Debts
      /\ Sound(c.mem, c.owed, c.time, c.excused)
      /\ c.whole \in BOOLEAN /\ (c.whole => SoundSnapshot(c))
  BY <1>1 DEF SoundSnapshot
<1>7. /\ m \in Mems
      /\ m.queue = c.mem.queue /\ m.ended = c.mem.ended /\ m.fast = c.mem.fast
      /\ m.suspended = cur.suspended /\ m.slow = cur.slow
  BY <1>6 DEF Kept, Mems
<1> HIDE DEF m
<1>8. Sound(m, c.owed, c.time, excused')
  <2>1. "processes" \notin excused' /\ OnceEach(c.mem) => OnceEach(m)
    BY <1>2, <1>4, <1>7, SameProcesses
  <2>2. "assignments" \notin excused' => m.fast = c.mem.fast /\ m.slow = c.mem.slow
    BY <1>2, <1>5, <1>7
  <2>3. Ahead(c.mem, c.owed, c.time) => Ahead(m, c.owed, c.time)
    BY <1>7 DEF Ahead
  <2>4. \A x : x \in c.excused => x \in excused'
    BY <1>2
  <2> QED
    BY <1>6, <2>1, <2>2, <2>3, <2>4 DEF Sound
<1>9. saved'.whole \in BOOLEAN /\ (saved'.whole => SoundSnapshot(saved'))
  BY <1>2, <1>6, SavedStays
<1> QED
  BY <1>2, <1>3, <1>6, <1>7, <1>8, <1>9 DEF m

\* What checkpoint_save writes is sound when the run is.
LEMMA SnapshotIsSound ==
  ASSUME IInv, pc # "off", NEW whole \in BOOLEAN, WriteTmp(whole)
  PROVE  tmp'.whole \in BOOLEAN /\ (tmp'.whole => SoundSnapshot(tmp'))
<1> DEFINE d == FlushAll(out)
           h == Files(d)
           f == d.file
<1>1. tmp' = [[whole |-> TRUE, time |-> time, mem |-> mem, handles |-> h, file |-> f,
               owed |-> owed, meant |-> meant, excused |-> excused, intact |-> TRUE]
              EXCEPT !.whole = whole]
  BY DEF WriteTmp, Snapshot
<1> HIDE DEF h, f
<1>2. /\ DOMAIN tmp' = Fields /\ tmp' = [k \in DOMAIN tmp' |-> tmp'[k]]
      /\ tmp'.whole = whole /\ tmp'.time = time /\ tmp'.mem = mem
      /\ tmp'.owed = owed /\ tmp'.excused = excused
  BY <1>1 DEF Fields
<1>3. Sound(mem, owed, time, excused) /\ time \in Nat /\ mem \in Mems /\ owed \in Debts
  BY DEF IInv
<1> QED
  BY <1>2, <1>3 DEF SoundSnapshot

\* Fresh memory, of a run that starts.
LEMMA FreshIsSound ==
  ASSUME design \in Designs
  PROVE  Fresh \in Mems /\ NoneDue \in Debts /\ \A x : Sound(Fresh, NoneDue, 0, x)
<1> DEFINE ps == design.procs
           start(p) == [pid |-> p, at |-> 0]
<1>1. ps \subseteq Procs
  BY CheckpointAssumption
<1>2. /\ Fresh.queue = {start(p) : p \in ps} /\ Fresh.ended = Procs \ ps
      /\ Fresh.suspended = {} /\ Fresh.fast = {} /\ Fresh.slow = {}
  BY DEF Fresh
<1>3. {start(p) : p \in ps} \subseteq Entries
  BY <1>1 DEF Entries
<1>4. Fresh \in Mems /\ NoneDue \in Debts
  BY <1>3 DEF Fresh, Mems, NoneDue, Debts
<1>5. ASSUME NEW p \in Procs PROVE OnceIn(Fresh, p)
  <2>1. CASE p \in ps
    <3>1. Of(Fresh.queue, p) = {start(p)} /\ start(p) \in Fresh.queue
      BY <1>2, <2>1 DEF Of
    <3>2. Of(Fresh.suspended, p) = {} /\ p \notin Fresh.ended
      BY <1>2, <2>1 DEF Of
    <3> QED
      BY <3>1, <3>2 DEF OnceIn, In1
  <2>2. CASE p \notin ps
    BY <1>2, <2>2 DEF OnceIn, Of
  <2> QED
    BY <2>1, <2>2
<1>6. Ahead(Fresh, NoneDue, 0)
  BY <1>2 DEF Ahead, NoneDue
<1>7. Fresh.fast = NoneDue.fast /\ Fresh.slow = NoneDue.slow
  BY <1>2 DEF NoneDue
<1> QED
  BY <1>4, <1>5, <1>6, <1>7 DEF Sound, OnceEach

-----------------------------------------------------------------------------
(* The steps.                                                              *)

\* The file of the checkpoint in a step of a slot, of its end or of the end of
\* the run: the same, or noted as written over.
Noted == saved' = saved \/ \E f : saved' = Watch(saved, f)
SavedSound == saved'.whole \in BOOLEAN /\ (saved'.whole => SoundSnapshot(saved'))

LEMMA NotedIsSound ==
  ASSUME IInv, Noted
  PROVE  SavedSound
  BY SavedStays DEF IInv, Noted, SavedSound

\* A step that leaves the loop in a slot.
LEMMA InSlot ==
  ASSUME IInv, design' = design, pc' = "slot", time' \in Nat, next' = next,
         replaced' = replaced, mem' \in Mems, owed' \in Debts,
         Sound(mem', owed', time', excused'), SavedSound
  PROVE  IInv'
  BY DEF IInv, NextIsNext, SavedSound

\* A process that runs.
LEMMA TurnStep ==
  ASSUME IInv, design' = design, pc = "slot", pc' = pc, time' = time, next' = next,
         replaced' = replaced, owed' = owed, NEW p \in Procs, Due(p),
         NEW m \in Mems, [pid |-> p, at |-> time] \in m.queue,
         Sound(m, owed, time, excused), mem' \in Waits(m, p),
         \A x \in excused : x \in excused', Noted
  PROVE  IInv'
<1>1. time \in Nat /\ owed \in Debts
  BY DEF IInv
<1>2. mem' \in Mems /\ TurnOf(p, m, mem')
  BY WaitsIs
<1>3. Sound(mem', owed, time, excused)
  BY <1>1, <1>2, TurnIsSound
<1>4. Sound(mem', owed, time, excused')
  BY <1>3 DEF Sound
<1> QED
  BY <1>1, <1>2, <1>4, InSlot, NotedIsSound

\* The entry of a process that runs.
LEMMA DueIs ==
  ASSUME IInv, NEW p \in Procs, Due(p)
  PROVE  [pid |-> p, at |-> time] \in mem.queue
<1>1. PICK e \in mem.queue : e.pid = p /\ e.at = time
  BY DEF Due
<1>2. e \in Entries
  BY DEF IInv, Mems
<1>3. e = [pid |-> p, at |-> time]
  BY <1>1, <1>2 DEF Entries
<1> QED
  BY <1>3

LEMMA DelayStep ==
  ASSUME IInv, design' = design, NEW p \in Procs, Delay(p)
  PROVE  IInv'
<1>1. /\ pc = "slot" /\ pc' = pc /\ Due(p) /\ time' = time /\ next' = next
      /\ replaced' = replaced /\ owed' = owed /\ excused' = excused /\ saved' = saved
      /\ mem' \in Waits(mem, p)
  BY DEF Delay, Run, Stays, serving
<1>2. mem \in Mems /\ Sound(mem, owed, time, excused)
  BY <1>1 DEF IInv
<1> QED
  BY <1>1, <1>2, DueIs, TurnStep DEF Noted

LEMMA RequestStep ==
  ASSUME IInv, design' = design, NEW p \in Procs, Request(p)
  PROVE  IInv'
<1>1. /\ pc = "slot" /\ pc' = pc /\ Due(p) /\ time' = time /\ next' = next
      /\ replaced' = replaced /\ owed' = owed /\ excused' = excused /\ saved' = saved
      /\ mem' \in Waits(mem, p)
  BY DEF Request, Run
<1>2. mem \in Mems /\ Sound(mem, owed, time, excused)
  BY <1>1 DEF IInv
<1> QED
  BY <1>1, <1>2, DueIs, TurnStep DEF Noted

LEMMA DpiTaskStep ==
  ASSUME IInv, design' = design, NEW p \in Procs, DpiTask(p)
  PROVE  IInv'
<1>1. /\ pc = "slot" /\ pc' = pc /\ Due(p) /\ time' = time /\ next' = next
      /\ replaced' = replaced /\ owed' = owed /\ excused' = excused /\ saved' = saved
      /\ mem' \in Waits(mem, p)
  BY DEF DpiTask, Run, Stays, serving
<1>2. mem \in Mems /\ Sound(mem, owed, time, excused)
  BY <1>1 DEF IInv
<1> QED
  BY <1>1, <1>2, DueIs, TurnStep DEF Noted

LEMMA FileCallStep ==
  ASSUME IInv, design' = design, NEW p \in Procs, FileCall(p)
  PROVE  IInv'
<1>1. /\ pc = "slot" /\ pc' = pc /\ Due(p) /\ time' = time /\ next' = next
      /\ replaced' = replaced /\ owed' = owed
      /\ mem' \in Waits(mem, p)
  BY DEF FileCall, Run, Stays, serving
<1>2. saved' = Watch(saved, out'.file) /\ \A x \in excused : x \in excused'
  BY DEF FileCall
<1>3. mem \in Mems /\ Sound(mem, owed, time, excused)
  BY <1>1 DEF IInv
<1> QED
  BY <1>1, <1>2, <1>3, DueIs, TurnStep DEF Noted

LEMMA SuspendOrResumeStep ==
  ASSUME IInv, design' = design, NEW p \in Procs, SuspendOrResume(p)
  PROVE  IInv'
<1>1. /\ pc = "slot" /\ pc' = pc /\ Due(p) /\ time' = time /\ next' = next
      /\ replaced' = replaced /\ owed' = owed /\ excused' = excused /\ saved' = saved
  BY DEF SuspendOrResume, Run, Stays, serving
<1>2. mem \in Mems /\ time \in Nat /\ Sound(mem, owed, time, excused)
  BY <1>1 DEF IInv
<1>3. PICK q \in Procs \ {p} : mem' \in Waits(Suspended(mem, q), p)
                              \/ mem' \in Waits(Resumed(mem, q), p)
  BY DEF SuspendOrResume
<1>4. \E m \in Mems : Moved(q, mem, m) /\ mem' \in Waits(m, p)
  BY <1>2, <1>3, SuspendedIs, ResumedIs DEF Moved
<1>5. PICK m \in Mems : Moved(q, mem, m) /\ mem' \in Waits(m, p)
  BY <1>4
<1>6. Sound(m, owed, time, excused)
  BY <1>2, <1>5, MovedIsSound
<1>7. [pid |-> p, at |-> time] \in m.queue
  <2>1. [pid |-> p, at |-> time] \in Of(mem.queue, p)
    BY <1>1, DueIs DEF Of
  <2>2. Of(m.queue, p) = Of(mem.queue, p)
    BY <1>3, <1>5 DEF Moved
  <2> QED
    BY <2>1, <2>2 DEF Of
<1> QED
  BY <1>1, <1>5, <1>6, <1>7, TurnStep DEF Noted

LEMMA AssignStep ==
  ASSUME IInv, design' = design, NEW p \in Procs, Assign(p)
  PROVE  IInv'
<1>1. /\ pc = "slot" /\ pc' = pc /\ Due(p) /\ time' = time /\ next' = next
      /\ replaced' = replaced /\ excused' = excused /\ saved' = saved
  BY DEF Assign, Run, Stays, serving
<1>2. mem \in Mems /\ time \in Nat /\ owed \in Debts /\ Sound(mem, owed, time, excused)
  BY <1>1 DEF IInv
<1>3. PICK t \in Later, form \in {"fast", "slow"}, m \in Waits(mem, p) :
         /\ mem' = [m EXCEPT ![form] = @ \cup {t}]
         /\ owed' = [owed EXCEPT ![form] = @ \cup {t}]
  BY DEF Assign
<1>4. t \in Nat /\ t > time
  BY LaterIs
<1>5. m \in Mems /\ TurnOf(p, mem, m)
  BY <1>2, WaitsIs
<1>6. Sound(m, owed, time, excused)
  BY <1>1, <1>2, <1>5, DueIs, TurnIsSound
<1>7. /\ mem' \in Mems /\ owed' \in Debts
      /\ mem'.queue = m.queue /\ mem'.ended = m.ended /\ mem'.suspended = m.suspended
      /\ \A u \in mem'.fast : u \in m.fast \/ u = t
      /\ \A u \in owed'.slow : u \in owed.slow \/ u = t
      /\ m.fast = owed.fast => mem'.fast = owed'.fast
      /\ m.slow = owed.slow => mem'.slow = owed'.slow
      /\ form = "slow" => mem'.fast = m.fast
      /\ form = "fast" => mem'.slow = m.slow
  BY <1>2, <1>3, <1>4, <1>5 DEF Mems, Debts
<1>8. OnceEach(m) => OnceEach(mem')
  BY <1>7, SameProcesses
<1>9. Ahead(m, owed, time) => Ahead(mem', owed', time)
  BY <1>4, <1>7 DEF Ahead
<1>10. Sound(mem', owed', time', excused')
  BY <1>1, <1>6, <1>7, <1>8, <1>9 DEF Sound
<1> QED
  BY <1>1, <1>2, <1>7, <1>10, InSlot, NotedIsSound DEF Noted

\* When no reason is known, nothing that the run put in a queue is overdue.
LEMMA ApplyLateStep ==
  ASSUME IInv, design' = design, ApplyLate
  PROVE  IInv'
<1>1. /\ pc = "slot" /\ pc' = pc /\ time' = time /\ next' = next /\ owed' = owed
      /\ replaced' = replaced /\ excused' = excused /\ saved' = saved
      /\ mem' = After(mem, time) /\ Overdue
  BY DEF ApplyLate, SlotOver, serving
<1>2. mem \in Mems /\ time \in Nat /\ owed \in Debts /\ Sound(mem, owed, time, excused)
  BY <1>1 DEF IInv
<1>3. mem' \in Mems /\ (OnceEach(mem) => OnceEach(mem'))
  BY <1>1, <1>2, AfterIs, SameProcesses
<1>4. Ahead(mem, owed, time) => Ahead(mem', owed, time)
  BY <1>1, <1>2, AfterIs DEF Ahead
<1>5. ~ (Ahead(mem, owed, time) /\ mem.slow = owed.slow)
  <2>1. PICK t \in mem.fast \cup mem.slow : t <= time
    BY <1>1 DEF Overdue
  <2>2. t \in Nat
    BY <1>2 DEF Mems
  <2> QED
    BY <1>2, <2>1, <2>2 DEF Ahead
<1>6. Sound(mem', owed, time, excused)
  BY <1>2, <1>3, <1>4, <1>5 DEF Sound
<1> QED
  BY <1>1, <1>2, <1>3, <1>6, InSlot, NotedIsSound DEF Noted

LEMMA AdvanceStep ==
  ASSUME IInv, design' = design, Advance
  PROVE  IInv'
<1>1. /\ pc = "slot" /\ pc' = pc /\ next' = next
      /\ replaced' = replaced /\ excused' = excused /\ saved' = saved
      /\ time' = NextTime /\ mem' = After(mem, NextTime) /\ owed' = After(owed, NextTime)
      /\ NextTime > time
  BY DEF Advance, AdvanceTo, SlotOver, serving
<1>2. mem \in Mems /\ time \in Nat /\ owed \in Debts /\ Sound(mem, owed, time, excused)
  BY <1>1 DEF IInv
<1>3. NextTime \in Nat /\ \A e \in mem.queue : e.at >= NextTime
  BY <1>1, <1>2, NextTimeIs
<1>4. Sound(mem', owed', time', excused')
  BY <1>1, <1>2, <1>3, AdvanceIsSound
<1>5. mem' \in Mems /\ owed' \in Debts
  BY <1>1, <1>2, <1>3, AfterIs
<1> QED
  BY <1>1, <1>3, <1>4, <1>5, InSlot, NotedIsSound DEF Noted

LEMMA ServeStep ==
  ASSUME IInv, design' = design, Serve
  PROVE  IInv'
<1>1. /\ pc = "slot" /\ pc' = "serve" /\ time' = time /\ mem' = mem /\ owed' = owed
      /\ excused' = excused /\ saved' = saved /\ next' = NextTime /\ replaced' = FALSE
      /\ NextTime > time
  BY DEF Serve, SlotOver, kernel
<1>2. NextTime \in Nat
  BY <1>1, NextTimeIs DEF IInv
<1>3. NextTime' = NextTime
  BY <1>1 DEF NextTime, Work
<1> QED
  BY <1>1, <1>2, <1>3 DEF IInv, NextIsNext

\* While requests are served the run itself stays what it is.
LEMMA ServingStep ==
  ASSUME IInv, design' = design, pc \in {"serve", "save"}, pc' \in {"serve", "save"},
         time' = time, mem' = mem, owed' = owed, excused' = excused, next' = next,
         replaced' = replaced, SavedSound,
         pc' = "save" => tmp'.whole \in BOOLEAN /\ (tmp'.whole => SoundSnapshot(tmp'))
  PROVE  IInv'
<1>1. NextTime' = NextTime
  BY DEF NextTime, Work
<1> QED
  BY <1>1 DEF IInv, NextIsNext, SavedSound

LEMMA SaveWritesStep ==
  ASSUME IInv, design' = design, SaveWrites
  PROVE  IInv'
<1>1. /\ pc = "serve" /\ pc' = "save" /\ time' = time /\ mem' = mem /\ owed' = owed
      /\ excused' = excused /\ next' = next /\ replaced' = replaced
      /\ saved' = Watch(saved, out'.file)
      /\ \E whole \in BOOLEAN : WriteTmp(whole)
  BY DEF SaveWrites, kernel, serving
<1>2. SavedSound
  BY <1>1, NotedIsSound DEF Noted
<1>3. tmp'.whole \in BOOLEAN /\ (tmp'.whole => SoundSnapshot(tmp'))
  BY <1>1, SnapshotIsSound
<1> QED
  BY <1>1, <1>2, <1>3, ServingStep

LEMMA SaveEndsStep ==
  ASSUME IInv, design' = design, SaveEnds
  PROVE  IInv'
<1>1. /\ pc = "save" /\ pc' = "serve" /\ time' = time /\ mem' = mem /\ owed' = owed
      /\ excused' = excused /\ next' = next /\ replaced' = replaced
      /\ saved' = IF tmp.whole THEN tmp ELSE saved
  BY DEF SaveEnds, kernel, Served
<1>2. SavedSound
  BY <1>1 DEF SavedSound, IInv
<1> QED
  BY <1>1, <1>2, ServingStep

LEMMA RestartRefusedStep ==
  ASSUME IInv, design' = design, RestartRefused
  PROVE  IInv'
<1>1. /\ pc = "serve" /\ pc' = pc /\ time' = time /\ mem' = mem /\ owed' = owed
      /\ excused' = excused /\ next' = next /\ replaced' = replaced /\ saved' = saved
  BY DEF RestartRefused, kernel, Served
<1>2. SavedSound
  BY <1>1 DEF SavedSound, IInv
<1> QED
  BY <1>1, <1>2, ServingStep

\* A $restart that succeeds replaces the state; one that fails is excused.
LEMMA RestartStep ==
  ASSUME IInv, design' = design, Restart
  PROVE  IInv'
<1>1. /\ pc = "serve" /\ pc' = pc /\ next' = next /\ saved.whole
  BY DEF Restart, Served
<1>2. PICK fails \in BOOLEAN : Restore(mem, out, fails) /\ replaced' = (replaced \/ ~fails)
  BY DEF Restart
<1>3. /\ time' \in Nat /\ mem' \in Mems /\ owed' \in Debts
      /\ Sound(mem', owed', time', excused')
      /\ saved'.whole \in BOOLEAN /\ (saved'.whole => SoundSnapshot(saved'))
      /\ fails => "all" \in excused'
  BY <1>1, <1>2, RestoreIsSound DEF IInv
<1>4. replaced' \/ "all" \in excused'
  BY <1>2, <1>3
<1>5. replaced' \in BOOLEAN
  BY <1>2 DEF IInv
<1> QED
  BY <1>1, <1>3, <1>4, <1>5 DEF IInv, NextIsNext

LEMMA EndServeStep ==
  ASSUME IInv, design' = design, EndServe
  PROVE  IInv'
<1>1. /\ pc = "serve" /\ pc' = "slot" /\ next' = next
      /\ replaced' = replaced /\ excused' = excused /\ saved' = saved
  BY DEF EndServe, serving
<1>2. /\ mem \in Mems /\ time \in Nat /\ owed \in Debts /\ next \in Nat
      /\ Sound(mem, owed, time, excused)
  BY <1>1 DEF IInv
<1>3. CASE replaced
  <2>1. time' = time /\ mem' = mem /\ owed' = owed
    BY <1>3 DEF EndServe
  <2> QED
    BY <1>1, <1>2, <2>1, InSlot, NotedIsSound DEF Noted
<1>4. CASE ~replaced
  <2>1. time' = next /\ mem' = After(mem, next) /\ owed' = After(owed, next)
    BY <1>4 DEF EndServe, AdvanceTo
  <2>2. mem' \in Mems /\ owed' \in Debts
    BY <1>2, <2>1, AfterIs
  <2>3. Sound(mem', owed', time', excused')
    <3>1. CASE "all" \in excused
      BY <1>1, <3>1 DEF Sound
    <3>2. CASE "all" \notin excused
      <4>1. next = NextTime /\ NextTime > time
        BY <1>1, <1>4, <3>2 DEF IInv, NextIsNext
      <4>2. \A e \in mem.queue : e.at >= next
        BY <1>2, <4>1, NextTimeIs
      <4> QED
        BY <1>1, <1>2, <2>1, <4>2, AdvanceIsSound
    <3> QED
      BY <3>1, <3>2
  <2> QED
    BY <1>1, <1>2, <2>1, <2>2, <2>3, InSlot, NotedIsSound DEF Noted
<1> QED
  BY <1>3, <1>4

\* The program ends, or is killed.
LEMMA EndOrKillStep ==
  ASSUME IInv, design' = design, End \/ Kill
  PROVE  IInv'
<1>1. /\ pc' = "off" /\ time' = time /\ mem' = mem /\ owed' = owed
      /\ next' = next /\ replaced' = replaced /\ Noted
  BY DEF End, Kill, kernel, Noted
<1>2. SavedSound
  BY <1>1, NotedIsSound
<1> QED
  BY <1>1, <1>2 DEF IInv, NextIsNext, SavedSound

LEMMA BootStep ==
  ASSUME IInv, design' = design, Boot \/ BootRestored
  PROVE  IInv'
<1>1. Fresh \in Mems /\ NoneDue \in Debts /\ Sound(Fresh, NoneDue, 0, {})
  BY FreshIsSound DEF IInv
<1>2. CASE Boot
  <2>1. /\ pc' = "slot" /\ time' = 0 /\ mem' = Fresh /\ owed' = NoneDue /\ excused' = {}
        /\ next' = next /\ replaced' = replaced /\ saved' = saved
    BY <1>2 DEF Boot
  <2> QED
    BY <1>1, <2>1, InSlot, NotedIsSound DEF Noted
<1>3. CASE BootRestored
  <2>1. /\ pc' = "slot" /\ next' = next /\ replaced' = replaced
        /\ saved.whole /\ Restore(Fresh, out, FALSE)
    BY <1>3 DEF BootRestored
  <2>2. /\ time' \in Nat /\ mem' \in Mems /\ owed' \in Debts
        /\ Sound(mem', owed', time', excused') /\ SavedSound
    BY <1>1, <2>1, RestoreIsSound DEF SavedSound
  <2> QED
    BY <2>1, <2>2, InSlot
<1> QED
  BY <1>2, <1>3

LEMMA InductiveInvariant == Spec => []IInv
<1>1. Init => IInv
  <2> SUFFICES ASSUME Init PROVE IInv
    OBVIOUS
  <2>1. /\ design \in Designs /\ pc = "slot" /\ time = 0 /\ mem = Fresh /\ next = 0
        /\ replaced = FALSE /\ saved = None /\ owed = NoneDue /\ excused = {}
    BY DEF Init
  <2>2. saved.whole = FALSE
    BY <2>1 DEF None
  <2>3. Fresh \in Mems /\ NoneDue \in Debts /\ Sound(Fresh, NoneDue, 0, {})
    BY <2>1, FreshIsSound
  <2> QED
    BY <2>1, <2>2, <2>3 DEF IInv, NextIsNext
<1>2. IInv /\ [Next]_vars => IInv'
  <2>1. ASSUME IInv, UNCHANGED vars PROVE IInv'
    <3>1. /\ design' = design /\ pc' = pc /\ time' = time /\ mem' = mem /\ owed' = owed
          /\ next' = next /\ replaced' = replaced /\ excused' = excused
          /\ saved' = saved /\ tmp' = tmp
      BY <2>1 DEF vars, kernel, serving
    <3>2. NextTime' = NextTime
      BY <3>1 DEF NextTime, Work
    <3> QED
      BY <2>1, <3>1, <3>2 DEF IInv, NextIsNext
  <2>2. ASSUME IInv, Next PROVE IInv'
    <3>1. design' = design
      BY <2>2 DEF Next
    <3>2. ASSUME NEW p \in Procs, Delay(p) \/ SuspendOrResume(p) \/ Assign(p)
                                  \/ FileCall(p) \/ Request(p) \/ DpiTask(p)
          PROVE  IInv'
      BY <2>2, <3>1, <3>2, DelayStep, SuspendOrResumeStep, AssignStep, FileCallStep,
         RequestStep, DpiTaskStep
    <3>3. ApplyLate \/ Advance \/ Serve \/ SaveWrites \/ SaveEnds => IInv'
      BY <2>2, <3>1, ApplyLateStep, AdvanceStep, ServeStep, SaveWritesStep, SaveEndsStep
    <3>4. Restart \/ RestartRefused \/ EndServe \/ End \/ Kill \/ Boot \/ BootRestored
          => IInv'
      BY <2>2, <3>1, RestartStep, RestartRefusedStep, EndServeStep, EndOrKillStep, BootStep
    <3> QED
      BY <2>2, <3>2, <3>3, <3>4 DEF Next
  <2> QED
    BY <2>1, <2>2
<1> QED
  BY <1>1, <1>2, PTL DEF Spec

-----------------------------------------------------------------------------
(***************************************************************************)
(* A run that was restored, however often, goes on with the processes and  *)
(* the delayed assignments of the run that was saved: each is there once,  *)
(* and the clock has passed none of them.  What is known to get lost is    *)
(* excepted, and nothing else can.                                         *)
(***************************************************************************)
THEOREM RestoredRunContinues == Spec => []ContinuesAsSaved
<1>1. IInv => ContinuesAsSaved
  <2> SUFFICES ASSUME IInv, pc = "slot"
               PROVE  /\ Known({"all", "processes"}) \/ EachProcessOnce
                      /\ Known({"all", "assignments"}) \/ Assignments = owed
                      /\ Known({"all"}) \/ NothingPassed
    BY DEF ContinuesAsSaved
  <2>1. Sound(mem, owed, time, excused) /\ mem \in Mems /\ owed \in Debts /\ time \in Nat
    BY DEF IInv
  <2>2. /\ "all" \in excused => \A s : "all" \in s => Known(s)
        /\ "processes" \in excused => Known({"all", "processes"})
        /\ "assignments" \in excused => Known({"all", "assignments"})
    BY DEF Known
  <2>3. ASSUME OnceEach(mem) PROVE EachProcessOnce
    <3> SUFFICES ASSUME NEW p \in Procs
                 PROVE  Places(p) = IF p \in mem.ended THEN 0 ELSE 1
      BY DEF EachProcessOnce
    <3>1. Places(p) = Cardinality(Of(mem.queue, p)) + Cardinality(Of(mem.suspended, p))
      BY DEF Places, Of
    <3>2. Cardinality({}) = 0 /\ \A e : Cardinality({e}) = 1
      BY FS_EmptySet, FS_Singleton
    <3>3. OnceIn(mem, p)
      BY <2>3 DEF OnceEach
    <3>4. CASE p \in mem.ended
      BY <3>1, <3>2, <3>3, <3>4 DEF OnceIn
    <3>5. CASE p \notin mem.ended
      <4>1. \/ \E e : Of(mem.queue, p) = {e} /\ Of(mem.suspended, p) = {}
            \/ \E e : Of(mem.suspended, p) = {e} /\ Of(mem.queue, p) = {}
        BY <3>3, <3>5 DEF OnceIn, In1
      <4>2. \/ /\ Cardinality(Of(mem.queue, p)) = 1
               /\ Cardinality(Of(mem.suspended, p)) = 0
            \/ /\ Cardinality(Of(mem.suspended, p)) = 1
               /\ Cardinality(Of(mem.queue, p)) = 0
        BY <3>2, <4>1, Zenon
      <4> QED
        BY <3>1, <3>5, <4>2
    <3> QED
      BY <3>4, <3>5
  <2>4. mem.fast = owed.fast /\ mem.slow = owed.slow => Assignments = owed
    BY <2>1 DEF Assignments, Debts
  <2>5. Ahead(mem, owed, time) => NothingPassed
    BY <2>1 DEF Ahead, NothingPassed, Mems, Debts
  <2> QED
    BY <2>1, <2>2, <2>3, <2>4, <2>5 DEF Sound
<1> QED
  BY <1>1, InductiveInvariant, PTL

(***************************************************************************)
(* A checkpoint that is there whole is there whole ever after: what a save *)
(* has not finished never takes its name, wherever the program is killed.  *)
(***************************************************************************)
THEOREM ACheckpointStays == Spec => SavesAreWhole
<1>1. IInv /\ [Next]_vars => [saved.whole => saved'.whole]_vars
  <2> SUFFICES ASSUME IInv, Next, saved.whole PROVE saved'.whole
    OBVIOUS
  <2>1. \A f : Watch(saved, f).whole
    BY WatchKeeps DEF IInv
  <2>2. \A f, g : Watch(Watch(saved, f), g).whole
    BY WatchKeeps DEF IInv
  <2>3. \/ saved' = saved \/ \E f : saved' = Watch(saved, f)
        \/ \E f, g : saved' = Watch(Watch(saved, f), g)
        \/ tmp.whole /\ saved' = tmp
    <3>1. ASSUME NEW p \in Procs, Delay(p) \/ SuspendOrResume(p) \/ Assign(p)
                                  \/ Request(p) \/ DpiTask(p)
          PROVE  saved' = saved
      BY <3>1 DEF Delay, SuspendOrResume, Assign, Request, DpiTask
    <3>2. ASSUME NEW p \in Procs, FileCall(p) PROVE saved' = Watch(saved, out'.file)
      BY <3>2 DEF FileCall
    <3>3. CASE ApplyLate \/ Advance \/ Serve \/ RestartRefused \/ EndServe \/ Kill \/ Boot
      BY <3>3 DEF ApplyLate, Advance, Serve, RestartRefused, EndServe, Kill, Boot
    <3>4. CASE SaveWrites \/ End
      BY <3>4 DEF SaveWrites, End
    <3>5. CASE SaveEnds
      BY <3>5 DEF SaveEnds
    <3>6. ASSUME NEW cur, NEW d, NEW fails, Restore(cur, d, fails)
          PROVE  \E f, g : saved' = Watch(Watch(saved, f), g)
      BY <3>6 DEF Restore
    <3>7. CASE Restart \/ BootRestored
      BY <3>6, <3>7 DEF Restart, BootRestored
    <3> QED
      BY <3>1, <3>2, <3>3, <3>4, <3>5, <3>7 DEF Next
  <2> QED
    BY <2>1, <2>2, <2>3
<1> QED
  BY <1>1, InductiveInvariant, PTL DEF Spec, SavesAreWhole

-----------------------------------------------------------------------------
(***************************************************************************)
(* The file that the design writes.  What is excused apart, the disk is,   *)
(* once flushed, what was meant to be written, and so is the disk of every *)
(* checkpoint: at most one handle buffers, it is alone, and a handle for   *)
(* appending that was opened again stands at the end.                      *)
(***************************************************************************)

Recs  == [mode : Modes, pos : Nat, buf : Seq(Nat), append : BOOLEAN, buffered : BOOLEAN]
Disks == [file : Seq(Nat), handles : UNION {[S -> Recs] : S \in SUBSET Handles}]

\* Only a handle that is alone buffers.
OneBuffers(d) ==
    \A h \in Open(d) : d.handles[h].buffered \/ d.handles[h].buf # <<>> => Open(d) = {h}

Empty(d) == \A h \in Open(d) : d.handles[h].buf = <<>>

\* Disk d, once flushed, is what was meant to be written: m.
SameHandle(d, m, h) ==
    /\ m.handles[h].mode = d.handles[h].mode
    /\ m.handles[h].append = (d.handles[h].mode = "a")
    /\ d.handles[h].append => d.handles[h].mode = "a"
    /\ d.handles[h].buf # <<>> => d.handles[h].buffered
    /\ WriteOut(d, h).file = m.file
    /\ WriteOut(d, h).handles[h].pos = m.handles[h].pos
Same(d, m) ==
    /\ d \in Disks /\ m \in Disks /\ Open(m) = Open(d) /\ Empty(m)
    /\ OneBuffers(d) /\ ~AppendsElsewhere(d)
    /\ Open(d) = {} => d.file = m.file
    /\ \A h \in Open(d) : SameHandle(d, m, h)

Fine(x) == "all" \notin x /\ "files" \notin x

DiskOf(c) == [file |-> c.file, handles |-> c.handles]
SameSnapshot(c) ==
    /\ DiskOf(c) \in Disks
    /\ Fine(c.excused) => Same(DiskOf(c), c.meant) /\ Empty(DiskOf(c))

FileInv ==
    /\ lines \in Nat /\ out \in Disks
    /\ pc = "off" => Open(out) = {}
    /\ pc # "off" /\ Fine(excused) => Same(out, meant)
    /\ saved.whole => SameSnapshot(saved)
    /\ pc = "save" /\ tmp.whole => SameSnapshot(tmp)

-----------------------------------------------------------------------------
(* What is written into a file.                                              *)

LEMMA SetLenIs ==
  ASSUME NEW f \in Seq(Nat), NEW n \in Nat
  PROVE  /\ SetLen(f, n) \in Seq(Nat) /\ Len(SetLen(f, n)) = n
         /\ \A i \in 1 .. n : SetLen(f, n)[i] = IF i <= Len(f) THEN f[i] ELSE 0
<1> DEFINE g == Lines(f, n)
           k == n - Len(g)
           holes == [i \in 1 .. k |-> Hole]
<1>1. /\ g \in Seq(Nat) /\ Len(g) <= n /\ Len(g) <= Len(f)
      /\ Len(g) < n => g = f
      /\ \A i \in 1 .. Len(g) : g[i] = f[i]
  BY DEF Lines
<1> HIDE DEF g
<1>2. k \in Nat /\ Len(g) + k = n
  BY <1>1
<1> HIDE DEF k
<1>3. holes \in Seq(Nat) /\ Len(holes) = k /\ \A i \in 1 .. k : holes[i] = 0
  BY <1>2 DEF Hole
<1>4. SetLen(f, n) = g \o holes
  BY DEF SetLen, g, k
<1> HIDE DEF holes
<1>5. /\ g \o holes \in Seq(Nat) /\ Len(g \o holes) = n
      /\ \A i \in 1 .. n : (g \o holes)[i] = IF i <= Len(g) THEN g[i] ELSE holes[i - Len(g)]
  <2>1. /\ g \o holes \in Seq(Nat) /\ Len(g \o holes) = Len(g) + Len(holes)
        /\ \A i \in 1 .. Len(g) + Len(holes) :
              (g \o holes)[i] = IF i <= Len(g) THEN g[i] ELSE holes[i - Len(g)]
    BY <1>1, <1>3, ConcatProperties
  <2>2. Len(g) + Len(holes) = n
    BY <1>2, <1>3
  <2> QED
    BY <2>1, <2>2
<1>6. ASSUME NEW i \in 1 .. n
      PROVE  (g \o holes)[i] = IF i <= Len(f) THEN f[i] ELSE 0
  <2>1. CASE i <= Len(g)
    BY <1>1, <1>5, <2>1
  <2>2. CASE ~ (i <= Len(g))
    <3>1. i - Len(g) \in 1 .. k
      BY <1>1, <1>2, <2>2
    <3>2. g = f
      BY <1>1, <2>2
    <3> QED
      BY <1>3, <1>5, <2>2, <3>1, <3>2
  <2> QED
    BY <2>1, <2>2
<1> QED
  BY <1>4, <1>5, <1>6

LEMMA JoinIs ==
  ASSUME NEW a \in Seq(Nat), NEW b \in Seq(Nat)
  PROVE  /\ a \o b \in Seq(Nat) /\ Len(a \o b) = Len(a) + Len(b)
         /\ \A i \in 1 .. Len(a) : (a \o b)[i] = a[i]
         /\ \A i \in 1 .. Len(b) : (a \o b)[Len(a) + i] = b[i]
  OBVIOUS

\* What the content of a file is, after s was put at p.
PutIs(g, f, p, s, n) ==
    /\ g \in Seq(Nat)
    /\ Len(g) = IF p + n <= Len(f) THEN Len(f) ELSE p + n
    /\ \A i \in 1 .. n : g[p + i] = s[i]
    /\ \A i \in 1 .. Len(g) :
          i <= p \/ p + n < i => g[i] = IF i <= Len(f) THEN f[i] ELSE 0

LEMMA PutAtIs ==
  ASSUME NEW f \in Seq(Nat), NEW p \in Nat, NEW s \in Seq(Nat)
  PROVE  PutIs(PutAt(f, p, s), f, p, s, Len(s))
<1> DEFINE a == SetLen(f, p)
           n == Len(s)
           c == SubSeq(f, p + n + 1, Len(f))
           b == a \o s
           g == b \o c
<1>1. /\ a \in Seq(Nat) /\ Len(a) = p
      /\ \A i \in 1 .. p : a[i] = IF i <= Len(f) THEN f[i] ELSE 0
  BY SetLenIs
<1>2. /\ c \in Seq(Nat)
      /\ Len(c) = IF p + n <= Len(f) THEN Len(f) - (p + n) ELSE 0
      /\ \A i \in 1 .. Len(c) : c[i] = f[p + n + i]
  OBVIOUS
<1>3. PutAt(f, p, s) = g
  BY DEF PutAt
<1>4. n \in Nat /\ Len(f) \in Nat
  OBVIOUS
<1> HIDE DEF a, c
<1>5. /\ b \in Seq(Nat) /\ Len(b) = p + n
      /\ \A i \in 1 .. p : b[i] = a[i]
      /\ \A i \in 1 .. n : b[p + i] = s[i]
  BY <1>1, JoinIs
<1> HIDE DEF b, n
<1>6. /\ g \in Seq(Nat) /\ Len(g) = p + n + Len(c)
      /\ \A i \in 1 .. p + n : g[i] = b[i]
      /\ \A i \in 1 .. Len(c) : g[p + n + i] = c[i]
  <2>1. /\ g \in Seq(Nat) /\ Len(g) = Len(b) + Len(c)
        /\ \A i \in 1 .. Len(b) : g[i] = b[i]
        /\ \A i \in 1 .. Len(c) : g[Len(b) + i] = c[i]
    BY <1>2, <1>5, JoinIs
  <2> QED
    BY <1>5, <2>1
<1> HIDE DEF g
<1>7. Len(g) = IF p + n <= Len(f) THEN Len(f) ELSE p + n
  <2>1. /\ Len(c) = IF p + n <= Len(f) THEN Len(f) - (p + n) ELSE 0
        /\ Len(g) = p + n + Len(c)
    BY <1>2, <1>6
  <2>2. ASSUME NEW j \in Nat, NEW u \in Nat, NEW v, NEW w,
               v = IF j <= u THEN u - j ELSE 0, w = j + v
        PROVE  w = IF j <= u THEN u ELSE j
    BY <2>2
  <2>3. p + n \in Nat
    BY <1>4
  <2> QED
    BY <1>4, <2>1, <2>2, <2>3, Zenon
<1>8. ASSUME NEW i \in 1 .. n PROVE g[p + i] = s[i]
  <2>1. p + i \in 1 .. p + n
    BY <1>4
  <2> QED
    BY <1>5, <1>6, <2>1
<1>9. ASSUME NEW i \in 1 .. Len(g), i <= p \/ p + n < i
      PROVE  g[i] = IF i <= Len(f) THEN f[i] ELSE 0
  <2>1. CASE i <= p
    <3>1. i \in 1 .. p /\ i \in 1 .. p + n
      BY <1>4, <2>1
    <3> QED
      BY <1>1, <1>5, <1>6, <3>1
  <2>2. CASE p + n < i
    <3>1. p + n <= Len(f)
      BY <1>4, <1>7, <2>2
    <3>2. i <= Len(f) /\ Len(c) = Len(f) - (p + n)
      BY <1>2, <1>7, <3>1
    <3>3. i - (p + n) \in 1 .. Len(c) /\ p + n + (i - (p + n)) = i
      BY <1>4, <2>2, <3>1, <3>2
    <3> QED
      BY <1>2, <1>6, <3>2, <3>3
  <2> QED
    BY <1>9, <2>1, <2>2
<1> QED
  BY <1>3, <1>6, <1>7, <1>8, <1>9 DEF PutIs, n

\* A line put behind what was put at p.
LEMMA PutAfter ==
  ASSUME NEW f \in Seq(Nat), NEW p \in Nat, NEW s \in Seq(Nat), NEW t \in Seq(Nat)
  PROVE  PutAt(PutAt(f, p, s), p + Len(s), t) = PutAt(f, p, s \o t)
<1> DEFINE g == PutAt(f, p, s)
           n == Len(s)
           q == p + n
           k == Len(t)
           st == s \o t
           x == PutAt(g, q, t)
           y == PutAt(f, p, st)
<1>1. PutIs(g, f, p, s, n)
  BY PutAtIs
<1>2. /\ st \in Seq(Nat) /\ Len(st) = n + k
      /\ \A i \in 1 .. n : st[i] = s[i]
      /\ \A i \in 1 .. k : st[n + i] = t[i]
  BY JoinIs
<1>3. n \in Nat /\ k \in Nat /\ q \in Nat /\ Len(f) \in Nat
  OBVIOUS
<1> HIDE DEF g, n, k, st
<1>4. PutIs(x, g, q, t, k)
  <2>1. g \in Seq(Nat)
    BY <1>1 DEF PutIs
  <2> HIDE DEF q
  <2> QED
    BY <1>3, <2>1, PutAtIs DEF k
<1>5. PutIs(y, f, p, st, n + k)
  BY <1>2, PutAtIs
<1> HIDE DEF x, y
<1>6. Len(x) = Len(y) /\ Len(x) \in Nat /\ Len(g) \in Nat
  <2>1. /\ Len(g) = IF q <= Len(f) THEN Len(f) ELSE q
        /\ Len(x) = IF q + k <= Len(g) THEN Len(g) ELSE q + k
        /\ Len(y) = IF p + (n + k) <= Len(f) THEN Len(f) ELSE p + (n + k)
    BY <1>1, <1>4, <1>5 DEF PutIs
  <2>2. p + (n + k) = q + k /\ q + k \in Nat
    BY <1>3
  <2> HIDE DEF q
  <2>3. CASE q + k <= Len(f)
    BY <1>3, <2>1, <2>2, <2>3
  <2>4. CASE q <= Len(f) /\ ~ (q + k <= Len(f))
    BY <1>3, <2>1, <2>2, <2>4
  <2>5. CASE ~ (q <= Len(f))
    <3>1. Len(g) = q
      BY <2>1, <2>5
    <3>2. Len(x) = q + k
      <4>1. q + k <= q => q = q + k
        BY <1>3
      <4>2. Len(x) = IF q + k <= q THEN q ELSE q + k
        BY <2>1, <3>1
      <4> QED
        BY <4>1, <4>2
    <3>3. ~ (q + k <= Len(f))
      BY <1>3, <2>5
    <3> QED
      BY <1>3, <2>1, <2>2, <3>1, <3>2, <3>3
  <2> QED
    BY <2>3, <2>4, <2>5
<1>7. ASSUME NEW i \in 1 .. Len(x) PROVE x[i] = y[i]
  <2>1. CASE i <= p \/ q + k < i
    <3>1. x[i] = IF i <= Len(g) THEN g[i] ELSE 0
      BY <1>3, <1>4, <2>1 DEF PutIs
    <3>2. i <= Len(g) => g[i] = IF i <= Len(f) THEN f[i] ELSE 0
      BY <1>1, <1>3, <1>6, <2>1 DEF PutIs
    <3>3. i <= Len(f) => i <= Len(g)
      BY <1>1, <1>3 DEF PutIs
    <3>4. y[i] = IF i <= Len(f) THEN f[i] ELSE 0
      BY <1>3, <1>5, <1>6, <2>1 DEF PutIs
    <3> QED
      BY <3>1, <3>2, <3>3, <3>4
  <2>2. CASE p < i /\ i <= q
    <3>1. i - p \in 1 .. n /\ i - p \in 1 .. n + k /\ p + (i - p) = i
      BY <1>3, <2>2
    <3>2. y[i] = s[i - p]
      BY <1>2, <1>5, <3>1 DEF PutIs
    <3>3. g[i] = s[i - p] /\ i \in 1 .. Len(g)
      BY <1>1, <1>3, <2>2, <3>1 DEF PutIs
    <3>4. x[i] = g[i]
      BY <1>3, <1>4, <2>2, <3>3 DEF PutIs
    <3> QED
      BY <3>2, <3>3, <3>4
  <2>3. CASE q < i /\ i <= q + k
    <3>1. i - q \in 1 .. k /\ q + (i - q) = i
      BY <1>3, <2>3
    <3>2. n + (i - q) \in 1 .. n + k /\ p + (n + (i - q)) = i
      BY <1>3, <3>1
    <3>3. y[i] = t[i - q]
      BY <1>2, <1>5, <3>1, <3>2 DEF PutIs
    <3>4. x[i] = t[i - q]
      BY <1>4, <3>1 DEF PutIs
    <3> QED
      BY <3>3, <3>4
  <2> QED
    BY <1>3, <2>1, <2>2, <2>3
<1>8. x \in Seq(Nat) /\ y \in Seq(Nat)
  BY <1>4, <1>5 DEF PutIs
<1>9. x = y
  BY <1>6, <1>7, <1>8, SeqEqual
<1> QED
  BY <1>9 DEF x, y, g, st, n

\* The handles of d.
LEMMA DiskIs ==
  ASSUME NEW d \in Disks
  PROVE  /\ d = [file |-> d.file, handles |-> d.handles]
         /\ d.file \in Seq(Nat) /\ Open(d) \in SUBSET Handles
         /\ d.handles \in [Open(d) -> Recs]
         /\ \A h \in Open(d) : d.handles[h] \in Recs
<1>1. PICK S \in SUBSET Handles : d.handles \in [S -> Recs]
  BY DEF Disks
<1>2. Open(d) = S
  BY <1>1 DEF Open
<1> QED
  BY <1>1, <1>2 DEF Disks

LEMMA DiskOK ==
  ASSUME NEW f \in Seq(Nat), NEW S \in SUBSET Handles, NEW hs \in [S -> Recs]
  PROVE  /\ [file |-> f, handles |-> hs] \in Disks
         /\ Open([file |-> f, handles |-> hs]) = S
  BY DEF Disks, Open

At(d, h) == IF d.handles[h].append THEN Len(d.file) ELSE d.handles[h].pos

\* e is d after h has written out what it buffered.
Written(e, d, h) ==
    /\ e \in Disks /\ Open(e) = Open(d)
    /\ \A k \in Open(d) \ {h} : e.handles[k] = d.handles[k]
    /\ e.handles[h].mode = d.handles[h].mode
    /\ e.handles[h].append = d.handles[h].append
    /\ e.handles[h].buffered = d.handles[h].buffered
    /\ e.handles[h].buf = <<>>
    /\ d.handles[h].buf = <<>> => e = d
    /\ d.handles[h].buf # <<>> =>
          /\ e.file = PutAt(d.file, At(d, h), d.handles[h].buf)
          /\ e.handles[h].pos = At(d, h) + Len(d.handles[h].buf)

LEMMA WriteOutIs ==
  ASSUME NEW d \in Disks, NEW h \in Open(d)
  PROVE  Written(WriteOut(d, h), d, h)
<1> DEFINE x == d.handles[h]
           at == At(d, h)
           f == PutAt(d.file, at, x.buf)
           r == [x EXCEPT !.pos = at + Len(x.buf), !.buf = <<>>]
           hs == [d.handles EXCEPT ![h] = r]
           e == [file |-> f, handles |-> hs]
<1>1. x \in Recs /\ d.file \in Seq(Nat) /\ d.handles \in [Open(d) -> Recs]
      /\ Open(d) \in SUBSET Handles
  BY DiskIs
<1>2. CASE x.buf = <<>>
  <2>1. WriteOut(d, h) = d
    BY <1>2 DEF WriteOut
  <2> QED
    BY <1>2, <2>1 DEF Written
<1>3. CASE x.buf # <<>>
  <2>1. at \in Nat
    BY <1>1 DEF At, Recs
  <2>2. WriteOut(d, h) = e
    BY <1>1, <1>3 DEF WriteOut, At
  <2>3. f \in Seq(Nat)
    <3> HIDE DEF at, f
    <3>1. x.buf \in Seq(Nat)
      BY <1>1 DEF Recs
    <3> QED
      BY <1>1, <2>1, <3>1, PutAtIs DEF PutIs, f
  <2>4. /\ r \in Recs /\ r.mode = x.mode /\ r.append = x.append
        /\ r.buffered = x.buffered /\ r.buf = <<>> /\ r.pos = at + Len(x.buf)
    <3> HIDE DEF at, x
    <3> DEFINE n == at + Len(x.buf)
    <3>1. n \in Nat /\ <<>> \in Seq(Nat)
      BY <1>1, <2>1 DEF Recs
    <3> HIDE DEF n
    <3>2. r = [x EXCEPT !.pos = n, !.buf = <<>>]
      BY DEF n
    <3>3. r.pos = at + Len(x.buf)
      BY <1>1, <3>2 DEF Recs, n
    <3> HIDE DEF r
    <3>4. /\ r \in Recs /\ r.mode = x.mode /\ r.append = x.append
          /\ r.buffered = x.buffered /\ r.buf = <<>>
      BY <1>1, <3>1, <3>2 DEF Recs
    <3> QED
      BY <3>3, <3>4
  <2> HIDE DEF f, r
  <2>5. hs \in [Open(d) -> Recs] /\ hs[h] = r /\ \A k \in Open(d) \ {h} : hs[k] = d.handles[k]
    BY <1>1, <2>4
  <2> HIDE DEF hs
  <2>6. e \in Disks /\ Open(e) = Open(d)
    BY <1>1, <2>3, <2>5, DiskOK
  <2>7. Written(e, d, h)
    BY <1>3, <2>4, <2>5, <2>6 DEF Written, f
  <2> QED
    BY <2>2, <2>7
<1> QED
  BY <1>2, <1>3

-----------------------------------------------------------------------------
(* Handle by handle.                                                         *)

\* A set of numbers with 0, and with k + 1 where it has k, has all of them.
LEMMA SetInduction ==
  ASSUME NEW T, 0 \in T, \A k \in Nat : k \in T => k + 1 \in T
  PROVE  Nat \subseteq T
<1> DEFINE U == Nat \ T
<1>1. SUFFICES ASSUME U # {} PROVE FALSE
  OBVIOUS
<1>2. U \in SUBSET Nat
  OBVIOUS
<1> HIDE DEF U
<1>3. PICK x \in U : \A y \in U : <<y, x>> \notin OpToRel(<, Nat)
  BY <1>1, <1>2, NatLessThanWellFounded, WFMin
<1> USE DEF U
<1>4. x # 0 /\ x - 1 \in Nat
  OBVIOUS
<1>5. <<x - 1, x>> \in OpToRel(<, Nat)
  BY <1>4 DEF OpToRel
<1>6. x - 1 \notin U
  BY <1>3, <1>5
<1> QED
  BY <1>4, <1>6

\* The steps of s from b are a function.
Steps(g, b, s, n) ==
    g = [i \in 0 .. n |-> IF i = 0 THEN b ELSE s[<<i, g[i - 1]>>]]

LEMMA StepsExist ==
  ASSUME NEW X, NEW b \in X, NEW s \in [Nat \X X -> X], NEW n \in Nat
  PROVE  \E g \in [0 .. n -> X] : Steps(g, b, s, n)
<1> DEFINE T == {k \in Nat : \E g \in [0 .. k -> X] : Steps(g, b, s, k)}
<1>1. 0 \in T
  <2> DEFINE g == [i \in 0 .. 0 |-> b]
  <2>1. g \in [0 .. 0 -> X] /\ Steps(g, b, s, 0)
    BY DEF Steps
  <2> QED
    BY <2>1
<1>2. ASSUME NEW k \in Nat, k \in T PROVE k + 1 \in T
  <2>1. PICK g \in [0 .. k -> X] : Steps(g, b, s, k)
    BY <1>2
  <2> DEFINE h == [i \in 0 .. k + 1 |-> IF i \in 0 .. k THEN g[i] ELSE s[<<i, g[k]>>]]
  <2>2. h \in [0 .. k + 1 -> X]
    <3>1. g[k] \in X
      BY <2>1
    <3>2. \A i \in 0 .. k + 1 : s[<<i, g[k]>>] \in X
      BY <3>1
    <3> QED
      BY <2>1, <3>2
  <2>3. ASSUME NEW i \in 0 .. k + 1
        PROVE  h[i] = IF i = 0 THEN b ELSE s[<<i, h[i - 1]>>]
    <3>1. CASE i = 0
      BY <2>1, <3>1 DEF Steps
    <3>2. CASE i \in 1 .. k
      <4>1. i \in 0 .. k /\ i - 1 \in 0 .. k /\ i # 0 /\ i - 1 \in 0 .. k + 1
        BY <3>2
      <4>2. g[i] = s[<<i, g[i - 1]>>]
        BY <2>1, <4>1 DEF Steps
      <4>3. h[i] = g[i] /\ h[i - 1] = g[i - 1]
        BY <4>1
      <4> QED
        BY <4>1, <4>2, <4>3
    <3>3. CASE i = k + 1
      <4>1. h[i] = s[<<i, g[k]>>] /\ h[i - 1] = g[k] /\ i # 0
        BY <3>3
      <4> QED
        BY <4>1
    <3> QED
      BY <3>1, <3>2, <3>3
  <2>4. Steps(h, b, s, k + 1)
    <3>1. h = [i \in 0 .. k + 1 |-> h[i]]
      BY <2>2
    <3> HIDE DEF h
    <3>2. [i \in 0 .. k + 1 |-> h[i]]
          = [i \in 0 .. k + 1 |-> IF i = 0 THEN b ELSE s[<<i, h[i - 1]>>]]
      BY <2>3, Zenon
    <3> QED
      BY <3>1, <3>2 DEF Steps
  <2> HIDE DEF h
  <2>5. k + 1 \in Nat /\ \E f \in [0 .. k + 1 -> X] : Steps(f, b, s, k + 1)
    BY <2>2, <2>4
  <2> QED
    BY <2>5
<1>3. Nat \subseteq T
  <2> HIDE DEF T
  <2> QED
    BY <1>1, <1>2, SetInduction
<1> QED
  BY <1>3

Flushes(g, d) ==
    g = [n \in 0 .. MaxHandles |->
            IF n = 0 THEN d
            ELSE IF n \in Open(d) THEN WriteOut(g[n - 1], n) ELSE g[n - 1]]

LEMMA FlushAllSteps ==
  ASSUME NEW d \in Disks
  PROVE  \E g : Flushes(g, d) /\ FlushAll(d) = g[MaxHandles]
<1> DEFINE X == {e \in Disks : Open(e) = Open(d)}
           s == [w \in Nat \X X |-> IF w[1] \in Open(d) THEN WriteOut(w[2], w[1])
                                    ELSE w[2]]
<1>1. s \in [Nat \X X -> X]
  <2>1. ASSUME NEW w \in Nat \X X, w[1] \in Open(d) PROVE WriteOut(w[2], w[1]) \in X
    <3>1. w[2] \in Disks /\ w[1] \in Open(w[2]) /\ Open(w[2]) = Open(d)
      BY <2>1
    <3> QED
      BY <3>1, WriteOutIs DEF Written
  <2> QED
    BY <2>1
<1>2. PICK g \in [0 .. MaxHandles -> X] : Steps(g, d, s, MaxHandles)
  BY <1>1, StepsExist, CheckpointAssumption
<1>3. ASSUME NEW i \in 0 .. MaxHandles
      PROVE  g[i] = IF i = 0 THEN d
                    ELSE IF i \in Open(d) THEN WriteOut(g[i - 1], i) ELSE g[i - 1]
  <2>1. g[i] = IF i = 0 THEN d ELSE s[<<i, g[i - 1]>>]
    BY <1>2 DEF Steps
  <2>2. CASE i # 0
    <3>1. i - 1 \in 0 .. MaxHandles /\ i \in Nat
      BY <2>2, CheckpointAssumption
    <3>2. <<i, g[i - 1]>> \in Nat \X X
      BY <3>1
    <3> QED
      BY <2>1, <2>2, <3>2
  <2> QED
    BY <2>1, <2>2
<1>4. Flushes(g, d)
  <2>1. g = [i \in 0 .. MaxHandles |-> g[i]]
    OBVIOUS
  <2>2. [i \in 0 .. MaxHandles |-> g[i]]
        = [i \in 0 .. MaxHandles |->
             IF i = 0 THEN d
             ELSE IF i \in Open(d) THEN WriteOut(g[i - 1], i) ELSE g[i - 1]]
    BY <1>3, Zenon
  <2> QED
    BY <2>1, <2>2 DEF Flushes
<1> DEFINE f == CHOOSE k : Flushes(k, d)
<1>5. Flushes(f, d)
  BY <1>4
<1>6. FlushAll(d) = f[MaxHandles]
  BY Zenon DEF FlushAll, Flushes
<1> QED
  BY <1>5, <1>6

\* What flush_file_writes leaves.
LEMMA FlushAllIs ==
  ASSUME NEW d \in Disks
  PROVE  /\ FlushAll(d) \in Disks /\ Open(FlushAll(d)) = Open(d)
         /\ Empty(d) => FlushAll(d) = d
         /\ \A h : Open(d) = {h} => FlushAll(d) = WriteOut(d, h)
<1> DEFINE N == MaxHandles
           Done(i, e) ==
             /\ e \in Disks /\ Open(e) = Open(d)
             /\ Empty(d) => e = d
             /\ \A h : Open(d) = {h} => e = IF i < h THEN d ELSE WriteOut(d, h)
<1>1. PICK g : Flushes(g, d) /\ FlushAll(d) = g[N]
  BY FlushAllSteps
<1>2. N \in Nat /\ Handles = 1 .. N
  BY CheckpointAssumption DEF Handles
<1>3. Open(d) \subseteq Handles
  BY DiskIs
<1>4. \A i \in 0 .. N : g[i] = IF i = 0 THEN d
                               ELSE IF i \in Open(d) THEN WriteOut(g[i - 1], i)
                               ELSE g[i - 1]
  BY <1>1, Zenon DEF Flushes
<1> DEFINE T == {i \in Nat : i <= N => Done(i, g[i])}
<1>5. 0 \in T
  <2>1. g[0] = d
    BY <1>2, <1>4
  <2>2. \A h : Open(d) = {h} => 0 < h
    BY <1>2, <1>3
  <2> QED
    BY <2>1, <2>2
<1>6. ASSUME NEW i \in Nat, i \in T PROVE i + 1 \in T
  <2> SUFFICES ASSUME i + 1 <= N PROVE Done(i + 1, g[i + 1])
    OBVIOUS
  <2>1. Done(i, g[i])
    BY <1>2, <1>6
  <2>2. i + 1 \in 0 .. N /\ i + 1 # 0 /\ (i + 1) - 1 = i
    BY <1>2
  <2>3. g[i + 1] = IF i + 1 \in Open(d) THEN WriteOut(g[i], i + 1) ELSE g[i]
    <3> DEFINE j == i + 1
    <3>1. j \in 0 .. N /\ j # 0 /\ j - 1 = i
      BY <2>2
    <3> HIDE DEF j
    <3>2. g[j] = IF j \in Open(d) THEN WriteOut(g[i], j) ELSE g[i]
      BY <1>4, <3>1
    <3> QED
      BY <3>2 DEF j
  <2>4. CASE i + 1 \in Open(d)
    <3> DEFINE j == i + 1
    <3>1. j \in Open(g[i]) /\ g[i] \in Disks /\ g[j] = WriteOut(g[i], j) /\ j \in Open(d)
      BY <2>1, <2>3, <2>4
    <3>2. i < j
      OBVIOUS
    <3> HIDE DEF j
    <3>3. Written(g[j], g[i], j)
      BY <3>1, WriteOutIs
    <3>4. Empty(d) => g[j] = d
      BY <2>1, <3>1, <3>3 DEF Written, Empty
    <3>5. \A h : Open(d) = {h} => h = j /\ g[i] = d
      BY <2>1, <3>1, <3>2
    <3>6. ~ (j < j)
      BY <2>2 DEF j
    <3>7. Done(j, g[j])
      BY <2>1, <3>1, <3>3, <3>4, <3>5, <3>6 DEF Written
    <3> QED
      BY <3>7 DEF j
  <2>5. CASE i + 1 \notin Open(d)
    <3>1. g[i + 1] = g[i]
      BY <2>3, <2>5
    <3>2. \A h : Open(d) = {h} => (i < h <=> i + 1 < h)
      BY <1>2, <1>3, <2>5
    <3> QED
      BY <2>1, <3>1, <3>2
  <2> QED
    BY <2>4, <2>5
<1>7. Nat \subseteq T
  <2> HIDE DEF T
  <2> QED
    BY <1>5, <1>6, SetInduction
<1>8. Done(N, g[N])
  BY <1>2, <1>7
<1>9. \A h : Open(d) = {h} => ~ (N < h)
  BY <1>2, <1>3
<1> QED
  BY <1>1, <1>8, <1>9

Cuts(g, f, hs) ==
    g = [n \in 0 .. MaxHandles |->
            IF n = 0 THEN f
            ELSE IF n \in DOMAIN hs THEN CutTo(g[n - 1], hs[n]) ELSE g[n - 1]]

\* What reopen_files leaves of a file.
LEMMA CutToAllIs ==
  ASSUME NEW f \in Seq(Nat), NEW S \in SUBSET Handles, NEW hs \in [S -> Recs]
  PROVE  /\ CutToAll(f, hs) \in Seq(Nat)
         /\ \A h : S = {h} => CutToAll(f, hs) = CutTo(f, hs[h])
<1> DEFINE N == MaxHandles
           X == Seq(Nat)
           s == [w \in Nat \X X |-> IF w[1] \in S THEN CutTo(w[2], hs[w[1]]) ELSE w[2]]
<1>1. N \in Nat /\ Handles = 1 .. N
  BY CheckpointAssumption DEF Handles
<1>2. ASSUME NEW e \in X, NEW h \in S PROVE CutTo(e, hs[h]) \in X
  <2>1. hs[h] \in Recs /\ hs[h].pos \in Nat
    BY DEF Recs
  <2> QED
    BY <2>1, SetLenIs DEF CutTo
<1>3. s \in [Nat \X X -> X]
  BY <1>2
<1>4. PICK g \in [0 .. N -> X] : Steps(g, f, s, N)
  <2> HIDE DEF X, s
  <2> QED
    BY <1>1, <1>3, StepsExist DEF X
<1>5. ASSUME NEW i \in 0 .. N
      PROVE  g[i] = IF i = 0 THEN f
                    ELSE IF i \in DOMAIN hs THEN CutTo(g[i - 1], hs[i]) ELSE g[i - 1]
  <2>1. g[i] = IF i = 0 THEN f ELSE s[<<i, g[i - 1]>>]
    BY <1>4 DEF Steps
  <2>2. CASE i # 0
    <3>1. i - 1 \in 0 .. N /\ i \in Nat
      BY <1>1, <2>2
    <3>2. <<i, g[i - 1]>> \in Nat \X X
      BY <3>1
    <3> QED
      BY <2>1, <2>2, <3>2
  <2> QED
    BY <2>1, <2>2
<1>6. Cuts(g, f, hs)
  <2>1. g = [i \in 0 .. N |-> g[i]]
    OBVIOUS
  <2>2. [i \in 0 .. N |-> g[i]]
        = [i \in 0 .. N |->
             IF i = 0 THEN f
             ELSE IF i \in DOMAIN hs THEN CutTo(g[i - 1], hs[i]) ELSE g[i - 1]]
    BY <1>5, Zenon
  <2> QED
    BY <2>1, <2>2 DEF Cuts
<1> DEFINE c == CHOOSE k : Cuts(k, f, hs)
<1>7. Cuts(c, f, hs)
  BY <1>6
<1>8. CutToAll(f, hs) = c[N]
  BY Zenon DEF CutToAll, Cuts
<1> HIDE DEF c, s
<1>9. \A i \in 0 .. N : c[i] = IF i = 0 THEN f
                               ELSE IF i \in S THEN CutTo(c[i - 1], hs[i]) ELSE c[i - 1]
  <2>1. DOMAIN hs = S
    OBVIOUS
  <2> QED
    BY <1>7, <2>1, Zenon DEF Cuts
<1> DEFINE Done(i, e) ==
             /\ e \in X
             /\ \A h : S = {h} => e = IF i < h THEN f ELSE CutTo(f, hs[h])
           T == {i \in Nat : i <= N => Done(i, c[i])}
<1>10. 0 \in T
  <2>1. c[0] = f
    BY <1>1, <1>9
  <2>2. \A h : S = {h} => 0 < h
    BY <1>1
  <2> QED
    BY <2>1, <2>2
<1>11. ASSUME NEW i \in Nat, i \in T PROVE i + 1 \in T
  <2> SUFFICES ASSUME i + 1 <= N PROVE Done(i + 1, c[i + 1])
    OBVIOUS
  <2>1. Done(i, c[i])
    BY <1>1, <1>11
  <2> DEFINE j == i + 1
  <2>2. j \in 0 .. N /\ j # 0 /\ j - 1 = i /\ i < j /\ ~ (j < j)
    BY <1>1
  <2>3. \A h \in Handles : h # j => (i < h <=> j < h)
    BY <1>1
  <2> HIDE DEF j
  <2>4. c[j] = IF j \in S THEN CutTo(c[i], hs[j]) ELSE c[i]
    BY <1>9, <2>2
  <2>5. CASE j \in S
    <3>1. c[j] = CutTo(c[i], hs[j]) /\ c[j] \in X
      BY <1>2, <2>1, <2>4, <2>5
    <3>2. \A h : S = {h} => h = j /\ c[i] = f
      BY <2>1, <2>2, <2>5
    <3> QED
      <4>1. \A h : S = {h} => c[j] = CutTo(f, hs[h]) /\ ~ (j < h)
        <5> SUFFICES ASSUME NEW h, S = {h}
                     PROVE  c[j] = CutTo(f, hs[h]) /\ ~ (j < h)
          OBVIOUS
        <5>1. h = j /\ c[i] = f
          BY <3>2
        <5>2. c[j] = CutTo(f, hs[j])
          BY <3>1, <5>1
        <5>3. c[j] = CutTo(f, hs[h])
          BY <5>1, <5>2
        <5> QED
          BY <2>2, <5>1, <5>3
      <4>2. Done(j, c[j])
        BY <3>1, <4>1
      <4> QED
        BY <4>2 DEF j
  <2>6. CASE j \notin S
    <3>1. c[j] = c[i]
      BY <2>4, <2>6
    <3>2. \A h : S = {h} => h \in Handles /\ h # j
      BY <2>6
    <3> QED
      BY <2>1, <2>3, <3>1, <3>2 DEF j
  <2> QED
    BY <2>5, <2>6
<1>12. Nat \subseteq T
  <2> HIDE DEF T
  <2> QED
    BY <1>10, <1>11, SetInduction
<1>13. Done(N, c[N])
  BY <1>1, <1>12
<1>14. \A h : S = {h} => ~ (N < h)
  BY <1>1
<1> QED
  BY <1>8, <1>13, <1>14

\* Two disks without buffers that are the same.
LEMMA SameIs ==
  ASSUME NEW d \in Disks, NEW m \in Disks, Open(m) = Open(d), Empty(d), Empty(m),
         OneBuffers(d), ~AppendsElsewhere(d), d.file = m.file,
         \A h \in Open(d) : /\ m.handles[h].mode = d.handles[h].mode
                            /\ m.handles[h].append = (d.handles[h].mode = "a")
                            /\ d.handles[h].append => d.handles[h].mode = "a"
                            /\ d.handles[h].pos = m.handles[h].pos
  PROVE  Same(d, m)
<1>1. \A h \in Open(d) : WriteOut(d, h) = d
  BY DEF Empty, WriteOut
<1>2. \A h \in Open(d) : SameHandle(d, m, h)
  BY <1>1 DEF SameHandle, Empty
<1> QED
  BY <1>2 DEF Same

\* What stays a file handle's own when its buffer is written out.
LEMMA WrittenStays ==
  ASSUME NEW d \in Disks, NEW h \in Open(d), NEW e, Written(e, d, h),
         OneBuffers(d), ~AppendsElsewhere(d)
  PROVE  Empty(e) /\ OneBuffers(e) /\ ~AppendsElsewhere(e)
<1>1. \A k \in Open(d) \ {h} : d.handles[k].buf = <<>> /\ e.handles[k] = d.handles[k]
  BY DEF OneBuffers, Written
<1>2. Empty(e)
  BY <1>1 DEF Empty, Written
<1>3. OneBuffers(e)
  BY <1>1, <1>2 DEF OneBuffers, Written, Empty
<1>4. CASE d.handles[h].buf = <<>>
  BY <1>2, <1>3, <1>4 DEF Written
<1>5. CASE d.handles[h].buf # <<>>
  <2>1. Open(d) = {h} /\ Open(e) = {h}
    BY <1>5 DEF OneBuffers, Written
  <2> SUFFICES ASSUME e.handles[h].mode = "a", ~e.handles[h].append
               PROVE  e.handles[h].pos = Len(e.file)
    BY <1>2, <1>3, <2>1 DEF AppendsElsewhere
  <2>2. d.handles[h].mode = "a" /\ ~d.handles[h].append
    BY DEF Written
  <2>3. d.handles[h].pos = Len(d.file)
    BY <2>1, <2>2 DEF AppendsElsewhere
  <2> DEFINE s == d.handles[h].buf
             n == Len(d.file)
  <2>4. d.file \in Seq(Nat) /\ s \in Seq(Nat) /\ n \in Nat
    BY DiskIs DEF Recs
  <2>5. e.file = PutAt(d.file, n, s) /\ e.handles[h].pos = n + Len(s)
    BY <1>5, <2>2, <2>3 DEF Written, At
  <2>6. Len(e.file) = IF n + Len(s) <= n THEN n ELSE n + Len(s)
    <3>1. PutIs(PutAt(d.file, n, s), d.file, n, s, Len(s))
      BY <2>4, PutAtIs
    <3> QED
      BY <2>5, <3>1 DEF PutIs
  <2>7. Len(s) \in Nat
    BY <2>4
  <2> HIDE DEF n, s
  <2>8. n + Len(s) <= n => n = n + Len(s)
    BY <2>4, <2>7
  <2> QED
    BY <2>5, <2>6, <2>8
<1> QED
  BY <1>4, <1>5

\* A handle that writes out its buffer leaves the disk the same.
LEMMA WriteOutSame ==
  ASSUME NEW d, NEW m, Same(d, m), NEW h \in Open(d)
  PROVE  /\ Same(WriteOut(d, h), m) /\ Empty(WriteOut(d, h))
         /\ WriteOut(d, h) \in Disks /\ Open(WriteOut(d, h)) = Open(d)
<1> DEFINE e == WriteOut(d, h)
<1>1. d \in Disks /\ m \in Disks /\ Open(m) = Open(d) /\ Empty(m)
  BY DEF Same
<1>2. Written(e, d, h)
  BY <1>1, WriteOutIs
<1>3. Empty(e) /\ OneBuffers(e) /\ ~AppendsElsewhere(e)
  BY <1>1, <1>2, WrittenStays DEF Same
<1>4. e.file = m.file
  BY DEF Same, SameHandle
<1>5. ASSUME NEW k \in Open(d)
      PROVE  /\ m.handles[k].mode = e.handles[k].mode
             /\ m.handles[k].append = (e.handles[k].mode = "a")
             /\ e.handles[k].append => e.handles[k].mode = "a"
             /\ e.handles[k].pos = m.handles[k].pos
  <2>1. SameHandle(d, m, k)
    BY DEF Same
  <2>2. CASE k = h
    BY <1>2, <2>1, <2>2 DEF SameHandle, Written
  <2>3. CASE k # h
    <3>1. e.handles[k] = d.handles[k]
      BY <1>2, <2>3 DEF Written
    <3>2. d.handles[k].buf = <<>>
      BY <2>3 DEF Same, OneBuffers
    <3>3. WriteOut(d, k) = d
      BY <3>2 DEF WriteOut
    <3> QED
      BY <2>1, <3>1, <3>3 DEF SameHandle
  <2> QED
    BY <2>2, <2>3
<1>6. e \in Disks /\ Open(e) = Open(d)
  BY <1>2 DEF Written
<1> HIDE DEF e
<1>7. Same(e, m)
  BY <1>1, <1>3, <1>4, <1>5, <1>6, SameIs
<1> QED
  BY <1>3, <1>6, <1>7 DEF e

LEMMA FlushAllSame ==
  ASSUME NEW d, NEW m, Same(d, m)
  PROVE  /\ Same(FlushAll(d), m) /\ Empty(FlushAll(d))
         /\ FlushAll(d).file = m.file /\ FlushAll(m) = m
<1>1. d \in Disks /\ m \in Disks /\ Empty(m)
  BY DEF Same
<1>2. FlushAll(m) = m
  BY <1>1, FlushAllIs
<1>3. CASE Open(d) = {}
  <2>1. Empty(d) /\ d.file = m.file
    BY <1>3 DEF Empty, Same
  <2> QED
    BY <1>1, <1>2, <2>1, FlushAllIs
<1>4. CASE Open(d) # {}
  <2>1. PICK h \in Open(d) : TRUE
    BY <1>4
  <2>2. FlushAll(d) = WriteOut(d, h)
    <3>1. CASE Open(d) = {h}
      BY <1>1, <3>1, FlushAllIs
    <3>2. CASE Open(d) # {h}
      <4>1. d.handles[h].buf = <<>>
        BY <2>1, <3>2 DEF Same, OneBuffers
      <4>2. \A k \in Open(d) : Open(d) # {k}
        BY <2>1, <3>2
      <4>3. Empty(d)
        BY <4>2 DEF Same, OneBuffers, Empty
      <4>4. WriteOut(d, h) = d
        BY <4>1 DEF WriteOut
      <4> QED
        BY <1>1, <4>3, <4>4, FlushAllIs
    <3> QED
      BY <3>1, <3>2
  <2>3. WriteOut(d, h).file = m.file
    BY <2>1 DEF Same, SameHandle
  <2>4. Same(WriteOut(d, h), m) /\ Empty(WriteOut(d, h))
    BY <2>1, WriteOutSame
  <2> QED
    BY <1>2, <2>2, <2>3, <2>4
<1> QED
  BY <1>3, <1>4

-----------------------------------------------------------------------------
(* $fopen, $rewind and $fclose.                                              *)

FreeHandle(d) == Min(Handles \ Open(d))

LEMMA FreeHandleIs ==
  ASSUME NEW d, Handles \ Open(d) # {}
  PROVE  FreeHandle(d) \in Handles /\ FreeHandle(d) \notin Open(d)
<1>1. Handles \ Open(d) \in SUBSET Nat
  BY CheckpointAssumption DEF Handles
<1> QED
  BY <1>1, MinIs DEF FreeHandle

\* o is d, whose buffers are empty, with a new handle h.
Opened(o, d, h, mode) ==
    /\ o \in Disks /\ h \notin Open(d) /\ Open(o) = Open(d) \cup {h}
    /\ o.file = IF mode = "w" THEN <<>> ELSE d.file
    /\ o.handles[h] = Handle(mode, 0, mode = "a", Open(d) = {})
    /\ \A k \in Open(d) : o.handles[k] = [d.handles[k] EXCEPT !.buffered = FALSE]

LEMMA OpenFileIs ==
  ASSUME NEW d \in Disks, NEW mode \in Modes, Handles \ Open(d) # {}
  PROVE  Opened(OpenFile(d, mode), FlushAll(d), FreeHandle(d), mode)
<1> DEFINE e == FlushAll(d)
           h == FreeHandle(d)
           S == Open(d) \cup {h}
           f == IF mode = "w" THEN <<>> ELSE e.file
           hs == [k \in S |-> IF k = h THEN Handle(mode, 0, mode = "a", Open(e) = {})
                              ELSE [e.handles[k] EXCEPT !.buffered = FALSE]]
<1>1. e \in Disks /\ Open(e) = Open(d) /\ Open(d) \in SUBSET Handles
  BY FlushAllIs, DiskIs
<1>2. h \in Handles /\ h \notin Open(d)
  BY FreeHandleIs
<1>3. OpenFile(d, mode) = [file |-> f, handles |-> hs]
  BY <1>1 DEF OpenFile, FreeHandle
<1> HIDE DEF e, h
<1>4. f \in Seq(Nat)
  BY <1>1, DiskIs
<1>5. Handle(mode, 0, mode = "a", Open(e) = {}) \in Recs
  BY DEF Handle, Recs
<1>6. \A k \in Open(d) : [e.handles[k] EXCEPT !.buffered = FALSE] \in Recs
  <2>1. \A k \in Open(d) : e.handles[k] \in Recs
    BY <1>1, DiskIs
  <2> QED
    BY <2>1 DEF Recs
<1>7. hs \in [S -> Recs] /\ S \in SUBSET Handles
  BY <1>1, <1>2, <1>5, <1>6
<1> DEFINE o == [file |-> f, handles |-> hs]
<1>8. /\ hs[h] = Handle(mode, 0, mode = "a", Open(e) = {})
      /\ \A k \in Open(d) : hs[k] = [e.handles[k] EXCEPT !.buffered = FALSE]
  BY <1>2
<1>9. o.file = f /\ o.handles = hs
  OBVIOUS
<1> HIDE DEF hs, f
<1>10. o \in Disks /\ Open(o) = S
  BY <1>4, <1>7, DiskOK
<1> HIDE DEF o
<1>11. Opened(o, e, h, mode)
  BY <1>1, <1>2, <1>8, <1>9, <1>10 DEF Opened, f
<1> QED
  BY <1>3, <1>11 DEF o, e, h

LEMMA OpenFileSame ==
  ASSUME NEW d, NEW m, Same(d, m), NEW mode \in Modes, Handles \ Open(d) # {},
         ~AppendsElsewhere(OpenFile(d, mode))
  PROVE  Same(OpenFile(d, mode), OpenFile(m, mode))
<1> DEFINE e == FlushAll(d)
           h == FreeHandle(d)
           o == OpenFile(d, mode)
           p == OpenFile(m, mode)
<1>1. d \in Disks /\ m \in Disks /\ Open(m) = Open(d)
  BY DEF Same
<1>2. Same(e, m) /\ Empty(e) /\ FlushAll(m) = m /\ e.file = m.file
  BY FlushAllSame
<1>3. FreeHandle(m) = h
  BY <1>1 DEF FreeHandle
<1>4. Opened(o, e, h, mode) /\ Opened(p, m, h, mode)
  BY <1>1, <1>2, <1>3, OpenFileIs
<1>5. e \in Disks /\ Open(e) = Open(d) /\ Empty(m)
  BY <1>1, <1>2, FlushAllIs DEF Same
<1> HIDE DEF e, h, o, p
<1>6. o \in Disks /\ p \in Disks /\ Open(o) = Open(p) /\ o.file = p.file
  BY <1>1, <1>2, <1>4, <1>5 DEF Opened
<1>7. o.handles[h] = p.handles[h]
  BY <1>1, <1>4, <1>5 DEF Opened
<1>8. /\ o.handles[h].mode = mode /\ o.handles[h].buf = <<>>
      /\ o.handles[h].append = (mode = "a") /\ o.handles[h].buffered = (Open(e) = {})
  BY <1>4 DEF Opened, Handle
<1>9. ASSUME NEW k \in Open(e)
      PROVE  /\ o.handles[k].mode = e.handles[k].mode /\ o.handles[k].pos = e.handles[k].pos
             /\ o.handles[k].append = e.handles[k].append
             /\ o.handles[k].buf = e.handles[k].buf /\ o.handles[k].buffered = FALSE
             /\ p.handles[k].mode = m.handles[k].mode /\ p.handles[k].pos = m.handles[k].pos
             /\ p.handles[k].append = m.handles[k].append
             /\ p.handles[k].buf = m.handles[k].buf
  <2>1. e.handles[k] \in Recs /\ m.handles[k] \in Recs
    BY <1>1, <1>5, DiskIs
  <2>2. /\ o.handles[k] = [e.handles[k] EXCEPT !.buffered = FALSE]
        /\ p.handles[k] = [m.handles[k] EXCEPT !.buffered = FALSE]
    BY <1>1, <1>4, <1>5 DEF Opened
  <2> QED
    BY <2>1, <2>2 DEF Recs
<1>10. Open(o) = Open(e) \cup {h} /\ h \notin Open(e)
  BY <1>4 DEF Opened
<1>11. Empty(o) /\ Empty(p)
  <2>1. ASSUME NEW k \in Open(e) PROVE o.handles[k].buf = <<>> /\ p.handles[k].buf = <<>>
    <3>1. e.handles[k].buf = <<>> /\ m.handles[k].buf = <<>>
      BY <1>1, <1>2, <1>5 DEF Empty
    <3> QED
      BY <1>9, <3>1
  <2>2. p.handles[h].buf = <<>>
    BY <1>7, <1>8
  <2>3. \A k \in Open(o) : o.handles[k].buf = <<>> /\ p.handles[k].buf = <<>>
    BY <1>8, <1>10, <2>1, <2>2
  <2> QED
    BY <1>6, <2>3 DEF Empty
<1>12. OneBuffers(o)
  BY <1>8, <1>9, <1>10, <1>11 DEF OneBuffers, Empty
<1>13. ASSUME NEW k \in Open(e)
       PROVE  /\ m.handles[k].mode = e.handles[k].mode
              /\ m.handles[k].append = (e.handles[k].mode = "a")
              /\ e.handles[k].append => e.handles[k].mode = "a"
              /\ e.handles[k].pos = m.handles[k].pos
  <2>1. WriteOut(e, k) = e
    BY <1>2 DEF Empty, WriteOut
  <2> QED
    BY <1>2, <2>1 DEF Same, SameHandle
<1>14. ASSUME NEW k \in Open(o)
       PROVE  /\ p.handles[k].mode = o.handles[k].mode
              /\ p.handles[k].append = (o.handles[k].mode = "a")
              /\ o.handles[k].append => o.handles[k].mode = "a"
              /\ o.handles[k].pos = p.handles[k].pos
  <2>1. CASE k = h
    BY <1>7, <1>8, <2>1
  <2>2. CASE k \in Open(e)
    BY <1>9, <1>13, <2>2
  <2> QED
    BY <1>10, <2>1, <2>2
<1>15. ~AppendsElsewhere(o)
  BY DEF o
<1>16. Same(o, p)
  BY <1>6, <1>11, <1>12, <1>14, <1>15, SameIs
<1> QED
  BY <1>16 DEF o, p

\* o is d, whose buffers are empty, with h at the start of the file.
Rewound(o, d, h) ==
    /\ o \in Disks /\ Open(o) = Open(d) /\ o.file = d.file
    /\ \A k \in Open(d) : /\ o.handles[k].mode = d.handles[k].mode
                          /\ o.handles[k].append = d.handles[k].append
                          /\ o.handles[k].buffered = d.handles[k].buffered
                          /\ o.handles[k].buf = d.handles[k].buf
                          /\ o.handles[k].pos = IF k = h THEN 0 ELSE d.handles[k].pos

LEMMA RewindIs ==
  ASSUME NEW d \in Disks, NEW h \in Open(d)
  PROVE  Rewound(Rewind(d, h), WriteOut(d, h), h)
<1> DEFINE e == WriteOut(d, h)
           hs == [e.handles EXCEPT ![h].pos = 0]
           o == [file |-> e.file, handles |-> hs]
<1>1. e \in Disks /\ Open(e) = Open(d)
  BY WriteOutIs DEF Written
<1>2. Rewind(d, h) = [e EXCEPT !.handles[h].pos = 0]
  BY DEF Rewind
<1> HIDE DEF e
<1>3. /\ e = [file |-> e.file, handles |-> e.handles] /\ e.file \in Seq(Nat)
      /\ Open(e) \in SUBSET Handles /\ e.handles \in [Open(e) -> Recs]
  BY <1>1, DiskIs
<1>4. [e EXCEPT !.handles[h].pos = 0] = o
  <2>1. [e EXCEPT !.handles[h].pos = 0] = [e EXCEPT !.handles = hs]
    BY Zenon
  <2> HIDE DEF hs
  <2> QED
    BY <1>3, <2>1
<1>5. /\ hs \in [Open(e) -> Recs]
      /\ \A k \in Open(e) : /\ hs[k].mode = e.handles[k].mode
                            /\ hs[k].append = e.handles[k].append
                            /\ hs[k].buffered = e.handles[k].buffered
                            /\ hs[k].buf = e.handles[k].buf
                            /\ hs[k].pos = IF k = h THEN 0 ELSE e.handles[k].pos
  BY <1>1, <1>3 DEF Recs
<1> HIDE DEF hs
<1>6. o \in Disks /\ Open(o) = Open(e)
  BY <1>3, <1>5, DiskOK
<1> QED
  BY <1>2, <1>4, <1>5, <1>6 DEF Rewound, e

LEMMA RewindSame ==
  ASSUME NEW d, NEW m, Same(d, m), NEW h \in Open(d), ~AppendsElsewhere(Rewind(d, h))
  PROVE  Same(Rewind(d, h), Rewind(m, h))
<1> DEFINE e == WriteOut(d, h)
           o == Rewind(d, h)
           p == Rewind(m, h)
<1>1. d \in Disks /\ m \in Disks /\ Open(m) = Open(d) /\ Empty(m)
  BY DEF Same
<1>2. Same(e, m) /\ Empty(e) /\ e \in Disks /\ Open(e) = Open(d)
  BY WriteOutSame
<1>3. WriteOut(m, h) = m
  BY <1>1 DEF Empty, WriteOut
<1>4. Rewound(o, e, h) /\ Rewound(p, m, h)
  BY <1>1, <1>3, RewindIs
<1>5. \A k \in Open(e) : SameHandle(e, m, k) /\ WriteOut(e, k) = e
  BY <1>2 DEF Same, Empty, WriteOut
<1>6. e.file = m.file
  BY DEF Same, SameHandle
<1>7. OneBuffers(e)
  BY <1>2 DEF Same
<1>8. ~AppendsElsewhere(o)
  OBVIOUS
<1> HIDE DEF e, o, p
<1>9. /\ o \in Disks /\ p \in Disks /\ Open(o) = Open(e) /\ Open(p) = Open(e)
      /\ o.file = p.file
  BY <1>1, <1>2, <1>4, <1>6 DEF Rewound
<1>10. Empty(o) /\ Empty(p)
  BY <1>1, <1>2, <1>4 DEF Rewound, Empty
<1>11. OneBuffers(o)
  BY <1>4, <1>7, <1>9 DEF Rewound, OneBuffers
<1>12. ASSUME NEW k \in Open(o)
       PROVE  /\ p.handles[k].mode = o.handles[k].mode
              /\ p.handles[k].append = (o.handles[k].mode = "a")
              /\ o.handles[k].append => o.handles[k].mode = "a"
              /\ o.handles[k].pos = p.handles[k].pos
  BY <1>1, <1>2, <1>4, <1>5, <1>9 DEF Rewound, SameHandle
<1>13. Same(o, p)
  BY <1>8, <1>9, <1>10, <1>11, <1>12, SameIs
<1> QED
  BY <1>13 DEF o, p

\* o is d, whose buffers are empty, without h.
Closed(o, d, h) ==
    /\ o \in Disks /\ Open(o) = Open(d) \ {h} /\ o.file = d.file
    /\ \A k \in Open(d) \ {h} : o.handles[k] = d.handles[k]

LEMMA CloseFileIs ==
  ASSUME NEW d \in Disks, NEW h \in Open(d)
  PROVE  Closed(CloseFile(d, h), WriteOut(d, h), h)
<1> DEFINE e == WriteOut(d, h)
           S == Open(d) \ {h}
           hs == [k \in S |-> d.handles[k]]
           o == [file |-> e.file, handles |-> hs]
<1>1. Written(e, d, h)
  BY WriteOutIs
<1>2. /\ d.handles \in [Open(d) -> Recs] /\ Open(d) \in SUBSET Handles
      /\ e \in Disks
  BY <1>1, DiskIs DEF Written
<1>3. CloseFile(d, h) = [e EXCEPT !.handles = hs]
  BY DEF CloseFile
<1> HIDE DEF e
<1>4. e = [file |-> e.file, handles |-> e.handles] /\ e.file \in Seq(Nat)
  BY <1>2, DiskIs
<1>5. hs \in [S -> Recs] /\ \A k \in S : hs[k] = d.handles[k]
  BY <1>2
<1> HIDE DEF hs
<1>6. [e EXCEPT !.handles = hs] = o
  BY <1>4
<1>7. o \in Disks /\ Open(o) = S
  BY <1>2, <1>4, <1>5, DiskOK
<1>8. Closed(o, e, h)
  BY <1>1, <1>5, <1>7 DEF Closed, Written
<1> QED
  BY <1>3, <1>6, <1>8 DEF e

LEMMA CloseFileSame ==
  ASSUME NEW d, NEW m, Same(d, m), NEW h \in Open(d), ~AppendsElsewhere(CloseFile(d, h))
  PROVE  Same(CloseFile(d, h), CloseFile(m, h))
<1> DEFINE e == WriteOut(d, h)
           o == CloseFile(d, h)
           p == CloseFile(m, h)
<1>1. d \in Disks /\ m \in Disks /\ Open(m) = Open(d) /\ Empty(m)
  BY DEF Same
<1>2. Same(e, m) /\ Empty(e) /\ e \in Disks /\ Open(e) = Open(d)
  BY WriteOutSame
<1>3. WriteOut(m, h) = m
  BY <1>1 DEF Empty, WriteOut
<1>4. Closed(o, e, h) /\ Closed(p, m, h)
  BY <1>1, <1>3, CloseFileIs
<1>5. \A k \in Open(e) : SameHandle(e, m, k) /\ WriteOut(e, k) = e
  BY <1>2 DEF Same, Empty, WriteOut
<1>6. e.file = m.file
  BY DEF Same, SameHandle
<1>7. OneBuffers(e)
  BY <1>2 DEF Same
<1>8. ~AppendsElsewhere(o)
  OBVIOUS
<1> HIDE DEF e, o, p
<1>9. /\ o \in Disks /\ p \in Disks /\ Open(o) = Open(e) \ {h}
      /\ Open(p) = Open(e) \ {h} /\ o.file = p.file
  BY <1>1, <1>2, <1>4, <1>6 DEF Closed
<1>10. Empty(o) /\ Empty(p)
  BY <1>1, <1>2, <1>4 DEF Closed, Empty
<1>11. OneBuffers(o)
  BY <1>2, <1>4, <1>7, <1>9 DEF Closed, OneBuffers
<1>12. ASSUME NEW k \in Open(o)
       PROVE  /\ p.handles[k].mode = o.handles[k].mode
              /\ p.handles[k].append = (o.handles[k].mode = "a")
              /\ o.handles[k].append => o.handles[k].mode = "a"
              /\ o.handles[k].pos = p.handles[k].pos
  BY <1>1, <1>2, <1>4, <1>5, <1>9 DEF Closed, SameHandle
<1>13. Same(o, p)
  BY <1>8, <1>9, <1>10, <1>11, <1>12, SameIs
<1> QED
  BY <1>13 DEF o, p

WithLine(d, h, l) == [d EXCEPT !.handles[h].buf = Append(@, l)]

\* e is d with one more line in the buffer of h.
Lined(e, d, h, l) ==
    /\ e \in Disks /\ Open(e) = Open(d) /\ e.file = d.file
    /\ \A k \in Open(d) \ {h} : e.handles[k] = d.handles[k]
    /\ e.handles[h].mode = d.handles[h].mode
    /\ e.handles[h].append = d.handles[h].append
    /\ e.handles[h].buffered = d.handles[h].buffered
    /\ e.handles[h].pos = d.handles[h].pos
    /\ e.handles[h].buf = Append(d.handles[h].buf, l)

LEMMA WithLineIs ==
  ASSUME NEW d \in Disks, NEW h \in Open(d), NEW l \in Nat
  PROVE  Lined(WithLine(d, h, l), d, h, l)
<1> DEFINE b == Append(d.handles[h].buf, l)
           hs == [d.handles EXCEPT ![h].buf = b]
           o == [file |-> d.file, handles |-> hs]
<1>1. /\ d = [file |-> d.file, handles |-> d.handles] /\ d.file \in Seq(Nat)
      /\ Open(d) \in SUBSET Handles /\ d.handles \in [Open(d) -> Recs]
  BY DiskIs
<1>2. WithLine(d, h, l) = [d EXCEPT !.handles = hs]
  BY Zenon DEF WithLine
<1>3. b \in Seq(Nat)
  BY <1>1 DEF Recs
<1> HIDE DEF b
<1>4. /\ hs \in [Open(d) -> Recs]
      /\ \A k \in Open(d) \ {h} : hs[k] = d.handles[k]
      /\ hs[h].mode = d.handles[h].mode /\ hs[h].append = d.handles[h].append
      /\ hs[h].buffered = d.handles[h].buffered /\ hs[h].pos = d.handles[h].pos
      /\ hs[h].buf = b
  BY <1>1, <1>3 DEF Recs
<1> HIDE DEF hs
<1>5. [d EXCEPT !.handles = hs] = o
  BY <1>1
<1>6. o \in Disks /\ Open(o) = Open(d)
  BY <1>1, <1>4, DiskOK
<1> QED
  BY <1>2, <1>4, <1>5, <1>6 DEF Lined, b

\* Where a line will be put, and where it is put in what was meant.
LEMMA AtIs ==
  ASSUME NEW d, NEW m, Same(d, m), NEW h \in Open(d)
  PROVE  /\ At(d, h) \in Nat
         /\ d.handles[h].buf = <<>> => m.file = d.file /\ At(m, h) = At(d, h)
         /\ d.handles[h].buf # <<>> =>
               /\ m.file = PutAt(d.file, At(d, h), d.handles[h].buf)
               /\ At(m, h) = At(d, h) + Len(d.handles[h].buf)
<1> DEFINE x == d.handles[h]
           y == m.handles[h]
           s == x.buf
           f == d.file
           p == At(d, h)
           e == WriteOut(d, h)
<1>1. /\ d \in Disks /\ SameHandle(d, m, h) /\ Written(e, d, h)
      /\ x \in Recs /\ f \in Seq(Nat)
  BY WriteOutIs, DiskIs DEF Same
<1>2. x.mode = "a" => p = Len(f)
  BY DEF Same, AppendsElsewhere, At
<1>3. x.mode # "a" => p = x.pos
  BY <1>1 DEF SameHandle, At
<1>4. p \in Nat /\ s \in Seq(Nat) /\ Len(s) \in Nat
  BY <1>1 DEF At, Recs
<1>5. At(m, h) = IF x.mode = "a" THEN Len(m.file) ELSE y.pos
  BY <1>1 DEF SameHandle, At
<1>6. m.file = e.file /\ y.pos = e.handles[h].pos
  BY <1>1 DEF SameHandle
<1>7. CASE s = <<>>
  <2>1. e = d
    BY <1>1, <1>7 DEF Written
  <2> QED
    BY <1>2, <1>3, <1>4, <1>5, <1>6, <1>7, <2>1
<1>8. CASE s # <<>>
  <2>1. e.file = PutAt(f, p, s) /\ e.handles[h].pos = p + Len(s)
    BY <1>1, <1>8 DEF Written
  <2>2. x.mode = "a" => Len(e.file) = p + Len(s)
    <3>1. PutIs(PutAt(f, p, s), f, p, s, Len(s))
      BY <1>1, <1>4, PutAtIs
    <3>2. Len(e.file) = IF p + Len(s) <= Len(f) THEN Len(f) ELSE p + Len(s)
      BY <2>1, <3>1 DEF PutIs
    <3> HIDE DEF p, s
    <3>3. p = Len(f) /\ p + Len(s) <= Len(f) => Len(f) = p + Len(s)
      BY <1>4
    <3> QED
      BY <1>2, <3>2, <3>3
  <2> QED
    BY <1>4, <1>5, <1>6, <1>8, <2>1, <2>2
<1> QED
  BY <1>7, <1>8

\* Written out at once, the line is in the file as it is in what was meant.
LEMMA LineIsSame ==
  ASSUME NEW d, NEW m, Same(d, m), NEW h \in Open(d), NEW l \in Nat
  PROVE  /\ WriteOut(WithLine(d, h, l), h).file = WriteOut(WithLine(m, h, l), h).file
         /\ WriteOut(WithLine(d, h, l), h).handles[h].pos
            = WriteOut(WithLine(m, h, l), h).handles[h].pos
<1> DEFINE u == WithLine(d, h, l)
           v == WithLine(m, h, l)
           a == WriteOut(u, h)
           b == WriteOut(v, h)
           s == d.handles[h].buf
           p == At(d, h)
           f == d.file
<1>1. d \in Disks /\ m \in Disks /\ Open(m) = Open(d) /\ m.handles[h].buf = <<>>
  BY DEF Same, Empty
<1>2. Lined(u, d, h, l) /\ Lined(v, m, h, l)
  BY <1>1, WithLineIs
<1> HIDE DEF u, v
<1>3. Written(a, u, h) /\ Written(b, v, h)
  BY <1>1, <1>2, WriteOutIs DEF Lined
<1>4. s \in Seq(Nat) /\ f \in Seq(Nat) /\ p \in Nat
  <2>1. d.handles[h] \in Recs /\ f \in Seq(Nat)
    BY <1>1, DiskIs
  <2>2. p \in Nat
    BY AtIs
  <2> QED
    BY <2>1, <2>2 DEF Recs
<1>5. /\ s \o <<l>> = Append(s, l) /\ s \o <<l>> # <<>>
      /\ Len(s \o <<l>>) = Len(s) + 1 /\ Len(s) \in Nat
      /\ <<l>> \in Seq(Nat) /\ Len(<<l>>) = 1 /\ <<l>> # <<>>
  <2> HIDE DEF s
  <2>1. Append(s, l) = s \o <<l>>
    BY <1>4, AppendIsConcat
  <2>2. /\ Append(s, l) # <<>> /\ Len(Append(s, l)) = Len(s) + 1
    BY <1>4, AppendProperties
  <2>3. Len(s) \in Nat /\ <<l>> \in Seq(Nat) /\ Len(<<l>>) = 1 /\ <<l>> # <<>>
    BY <1>4
  <2> QED
    BY <2>1, <2>2, <2>3
<1>6. At(u, h) = p /\ At(v, h) = At(m, h)
  BY <1>2 DEF Lined, At
<1>7. /\ a.file = PutAt(f, p, s \o <<l>>)
      /\ a.handles[h].pos = p + (Len(s) + 1)
  <2>1. u.handles[h].buf = s \o <<l>> /\ u.file = f
    BY <1>2, <1>5 DEF Lined
  <2> HIDE DEF a, s, p
  <2>2. /\ a.file = PutAt(u.file, At(u, h), u.handles[h].buf)
        /\ a.handles[h].pos = At(u, h) + Len(u.handles[h].buf)
    BY <1>3, <1>5, <2>1 DEF Written
  <2> QED
    BY <1>5, <1>6, <2>1, <2>2
<1> HIDE DEF a, b, s, p
<1>8. v.handles[h].buf = <<l>>
  BY <1>1, <1>2 DEF Lined
<1>9. /\ b.file = PutAt(m.file, At(m, h), <<l>>)
      /\ b.handles[h].pos = At(m, h) + 1
  BY <1>2, <1>3, <1>5, <1>6, <1>8 DEF Lined, Written
<1>10. CASE s = <<>>
  <2>1. m.file = f /\ At(m, h) = p
    BY <1>10, AtIs DEF p, s
  <2>2. s \o <<l>> = <<l>> /\ Len(s) = 0
    BY <1>5, <1>10
  <2>3. a.file = b.file /\ a.handles[h].pos = b.handles[h].pos
    BY <1>4, <1>7, <1>9, <2>1, <2>2
  <2> QED
    BY <2>3 DEF a, b, u, v
<1>11. CASE s # <<>>
  <2>1. m.file = PutAt(f, p, s) /\ At(m, h) = p + Len(s)
    BY <1>11, AtIs DEF p, s
  <2>2. PutAt(PutAt(f, p, s), p + Len(s), <<l>>) = PutAt(f, p, s \o <<l>>)
    BY <1>4, <1>5, PutAfter
  <2>3. (p + Len(s)) + 1 = p + (Len(s) + 1)
    BY <1>4, <1>5
  <2>4. a.file = b.file /\ a.handles[h].pos = b.handles[h].pos
    BY <1>7, <1>9, <2>1, <2>2, <2>3
  <2> QED
    BY <2>4 DEF a, b, u, v
<1> QED
  BY <1>10, <1>11

LEMMA WriteLineIs ==
  ASSUME NEW d \in Disks, NEW h \in Open(d), NEW l \in Nat
  PROVE  /\ WriteLine(d, h, l) = IF d.handles[h].buffered THEN WithLine(d, h, l)
                                 ELSE WriteOut(WithLine(d, h, l), h)
         /\ WriteLine(d, h, l) \in Disks /\ Open(WriteLine(d, h, l)) = Open(d)
         /\ WriteOut(WriteLine(d, h, l), h) = WriteOut(WithLine(d, h, l), h)
<1> DEFINE e == WithLine(d, h, l)
<1>1. Lined(e, d, h, l)
  BY WithLineIs
<1>2. WriteLine(d, h, l) = IF e.handles[h].buffered THEN e ELSE WriteOut(e, h)
  BY DEF WriteLine, WithLine
<1> HIDE DEF e
<1>3. e \in Disks /\ Open(e) = Open(d) /\ e.handles[h].buffered = d.handles[h].buffered
  BY <1>1 DEF Lined
<1>4. Written(WriteOut(e, h), e, h)
  BY <1>3, WriteOutIs
<1>5. WriteOut(WriteOut(e, h), h) = WriteOut(e, h)
  BY <1>4 DEF WriteOut, Written
<1> QED
  BY <1>2, <1>3, <1>4, <1>5 DEF e, Written

LEMMA WriteLineSame ==
  ASSUME NEW d, NEW m, Same(d, m), NEW h \in Open(d), NEW l \in Nat,
         ~AppendsElsewhere(WriteLine(d, h, l))
  PROVE  Same(WriteLine(d, h, l), WriteOut(WriteLine(m, h, l), h))
<1> DEFINE u == WithLine(d, h, l)
           a == WriteOut(u, h)
           v == WithLine(m, h, l)
           b == WriteOut(v, h)
<1>1. d \in Disks /\ m \in Disks /\ Open(m) = Open(d) /\ Empty(m) /\ OneBuffers(d)
  BY DEF Same
<1>2. Lined(u, d, h, l) /\ Lined(v, m, h, l)
  BY <1>1, WithLineIs
<1>3. a.file = b.file /\ a.handles[h].pos = b.handles[h].pos
  BY LineIsSame
<1>4. /\ WriteOut(WriteLine(m, h, l), h) = b
      /\ WriteLine(d, h, l) = IF d.handles[h].buffered THEN u ELSE a
  BY <1>1, WriteLineIs
<1> HIDE DEF u, v
<1>5. Written(a, u, h) /\ Written(b, v, h)
  BY <1>1, <1>2, WriteOutIs DEF Lined
<1> HIDE DEF b
<1>6. b \in Disks /\ Open(b) = Open(d) /\ Empty(b)
  BY <1>1, <1>2, <1>5 DEF Lined, Written, Empty
<1>7. SameHandle(d, m, h)
  BY DEF Same
<1>8. /\ b.handles[h].mode = d.handles[h].mode
      /\ b.handles[h].append = (d.handles[h].mode = "a")
      /\ d.handles[h].append => d.handles[h].mode = "a"
  BY <1>1, <1>2, <1>5, <1>7 DEF Lined, Written, SameHandle
<1>9. CASE d.handles[h].buffered
  <2>1. Open(d) = {h}
    BY <1>1, <1>9 DEF OneBuffers
  <2>2. u \in Disks /\ Open(u) = {h}
    BY <1>2, <2>1 DEF Lined
  <2>3. SameHandle(u, b, h)
    BY <1>2, <1>3, <1>8, <1>9 DEF Lined, SameHandle
  <2>4. ~AppendsElsewhere(u)
    BY <1>4, <1>9
  <2>5. Same(u, b)
    BY <1>6, <2>1, <2>2, <2>3, <2>4 DEF Same, OneBuffers
  <2> QED
    BY <1>4, <1>9, <2>5
<1>10. CASE ~d.handles[h].buffered
  <2>1. ~AppendsElsewhere(a)
    BY <1>4, <1>10
  <2> HIDE DEF a
  <2>2. a \in Disks /\ Open(a) = Open(d)
    BY <1>2, <1>5 DEF Lined, Written
  <2>3. \A k \in Open(d) : SameHandle(d, m, k)
    BY DEF Same
  <2>4. Empty(d)
    <3>1. d.handles[h].buf = <<>>
      BY <1>7, <1>10 DEF SameHandle
    <3>2. \A k \in Open(d) \ {h} : d.handles[k].buf = <<>>
      BY <1>1 DEF OneBuffers
    <3> QED
      BY <3>1, <3>2 DEF Empty
  <2>5. \A k \in Open(d) \ {h} : a.handles[k] = d.handles[k] /\ b.handles[k] = m.handles[k]
    BY <1>1, <1>2, <1>5 DEF Lined, Written
  <2>6. Empty(a)
    BY <1>5, <2>2, <2>4, <2>5 DEF Empty, Written
  <2>7. /\ a.handles[h].buffered = d.handles[h].buffered
        /\ a.handles[h].mode = d.handles[h].mode
        /\ a.handles[h].append = d.handles[h].append
    BY <1>2, <1>5 DEF Lined, Written
  <2>8. OneBuffers(a)
    BY <1>1, <1>10, <2>2, <2>5, <2>6, <2>7 DEF OneBuffers, Empty
  <2>9. ASSUME NEW k \in Open(d)
        PROVE  /\ b.handles[k].mode = a.handles[k].mode
               /\ b.handles[k].append = (a.handles[k].mode = "a")
               /\ a.handles[k].append => a.handles[k].mode = "a"
               /\ a.handles[k].pos = b.handles[k].pos
    <3>1. CASE k = h
      BY <1>3, <1>8, <2>7, <3>1 DEF a
    <3>2. CASE k # h
      <4>1. WriteOut(d, k) = d
        BY <2>4 DEF Empty, WriteOut
      <4> QED
        BY <2>3, <2>5, <3>2, <4>1 DEF SameHandle
    <3> QED
      BY <3>1, <3>2
  <2>10. Same(a, b)
    BY <1>3, <1>6, <2>1, <2>2, <2>6, <2>8, <2>9, SameIs DEF a
  <2> QED
    BY <1>4, <1>10, <2>10 DEF a
<1> QED
  BY <1>9, <1>10

LEMMA NoHandlesIs ==
  ASSUME NEW f \in Seq(Nat)
  PROVE  NoHandles(f) \in Disks /\ Open(NoHandles(f)) = {} /\ NoHandles(f).file = f
<1>1. <<>> \in [{} -> Recs] /\ {} \in SUBSET Handles
  OBVIOUS
<1> QED
  BY <1>1, DiskOK DEF NoHandles

LEMMA NothingOpenSame ==
  ASSUME NEW d \in Disks, Open(d) = {}
  PROVE  Same(d, d)
  BY DEF Same, Empty, OneBuffers, AppendsElsewhere

-----------------------------------------------------------------------------
(* Checkpoints of files.                                                     *)

LEMMA WatchKeepsFiles ==
  ASSUME NEW c, NEW f, SoundSnapshot(c), SameSnapshot(c)
  PROVE  SameSnapshot(Watch(c, f))
<1> DEFINE b == c.intact /\ IsPrefix(c.file, f)
           w == Watch(c, f)
<1>1. w = [c EXCEPT !.intact = b]
  BY DEF Watch, SoundSnapshot
<1> HIDE DEF b, w
<1>2. /\ w.file = c.file /\ w.handles = c.handles /\ w.meant = c.meant
      /\ w.excused = c.excused
  BY <1>1 DEF SoundSnapshot, Fields
<1>3. DiskOf(w) = DiskOf(c)
  BY <1>2 DEF DiskOf
<1>4. SameSnapshot(w)
  BY <1>2, <1>3 DEF SameSnapshot
<1> QED
  BY <1>4 DEF w

\* The file of the checkpoint, as the design's file changes.
LEMMA SavedFilesStay ==
  ASSUME IInv, FileInv, Noted
  PROVE  saved'.whole => SameSnapshot(saved')
<1>1. CASE saved' = saved
  BY <1>1 DEF FileInv
<1>2. CASE \E f : saved' = Watch(saved, f)
  <2>1. PICK f : saved' = Watch(saved, f)
    BY <1>2
  <2>2. CASE saved.whole
    BY <2>1, <2>2, WatchKeepsFiles DEF IInv, FileInv
  <2>3. CASE saved.whole = FALSE
    BY <2>1, <2>3 DEF Watch
  <2> QED
    BY <2>2, <2>3 DEF IInv
<1> QED
  BY <1>1, <1>2 DEF Noted

\* What reopen_files leaves when one handle writes at the end of the file, and
\* the file still begins with what was saved.
LEMMA ReopenedIs ==
  ASSUME NEW f \in Seq(Nat), NEW d \in Disks
  PROVE  Reopened(f, d.handles) \in Disks
<1> DEFINE hs == d.handles
           S == Open(d)
           g == CutToAll(f, hs)
           gs == [h \in DOMAIN hs |-> Handle(hs[h].mode, hs[h].pos, FALSE, TRUE)]
<1>1. S \in SUBSET Handles /\ hs \in [S -> Recs] /\ DOMAIN hs = S
  BY DiskIs DEF Open
<1>2. g \in Seq(Nat)
  BY <1>1, CutToAllIs
<1>3. gs \in [S -> Recs]
  BY <1>1 DEF Handle, Recs
<1>4. Reopened(f, hs) = [file |-> g, handles |-> gs]
  BY DEF Reopened
<1> HIDE DEF g, gs
<1> QED
  BY <1>1, <1>2, <1>3, <1>4, DiskOK

LEMMA ReopenedSame ==
  ASSUME NEW f \in Seq(Nat), NEW d, NEW m, Same(d, m), Empty(d), IsPrefix(d.file, f),
         NEW h, Open(d) = {h}, d.handles[h].mode # "r+", d.handles[h].pos = Len(d.file)
  PROVE  Same(Reopened(f, d.handles), m)
<1> DEFINE hs == d.handles
           o == Reopened(f, hs)
           n == Len(d.file)
<1>1. /\ d \in Disks /\ m \in Disks /\ Open(m) = {h} /\ Empty(m)
      /\ o \in Disks
  BY ReopenedIs DEF Same
<1>2. /\ d.file \in Seq(Nat) /\ {h} \in SUBSET Handles /\ hs \in [{h} -> Recs]
      /\ DOMAIN hs = {h} /\ hs[h] \in Recs
  BY <1>1, DiskIs DEF Open
<1>3. n \in Nat /\ n <= Len(f) /\ SubSeq(f, 1, n) = d.file
  BY <1>2 DEF IsPrefix
<1>4. CutTo(f, hs[h]) = SetLen(f, n)
  BY DEF CutTo
<1>5. SetLen(f, n) = d.file
  <2>1. Lines(f, n) = d.file
    BY <1>3 DEF Lines
  <2>2. SetLen(f, n) = d.file \o [i \in 1 .. n - n |-> Hole]
    BY <2>1 DEF SetLen
  <2>3. [i \in 1 .. n - n |-> Hole] = <<>>
    BY <1>3
  <2> QED
    BY <1>2, <2>2, <2>3
<1>6. o.file = d.file
  <2>1. CutToAll(f, hs) = CutTo(f, hs[h])
    BY <1>2, CutToAllIs
  <2> QED
    BY <1>4, <1>5, <2>1 DEF Reopened
<1>7. Open(o) = {h} /\ o.handles[h] = Handle(hs[h].mode, hs[h].pos, FALSE, TRUE)
  BY <1>2 DEF Reopened, Open
<1>8. /\ o.handles[h].mode = hs[h].mode /\ o.handles[h].pos = n
      /\ o.handles[h].buf = <<>> /\ ~o.handles[h].append
  BY <1>7 DEF Handle
<1> HIDE DEF o
<1>9. Empty(o) /\ OneBuffers(o) /\ ~AppendsElsewhere(o)
  BY <1>6, <1>7, <1>8 DEF Empty, OneBuffers, AppendsElsewhere
<1>10. SameHandle(d, m, h) /\ WriteOut(d, h) = d
  BY DEF Same, Empty, WriteOut
<1>11. /\ o.file = m.file /\ m.handles[h].mode = o.handles[h].mode
       /\ m.handles[h].append = (o.handles[h].mode = "a")
       /\ o.handles[h].pos = m.handles[h].pos
  BY <1>6, <1>8, <1>10 DEF SameHandle
<1>12. Same(o, m)
  BY <1>1, <1>7, <1>8, <1>9, <1>11, SameIs
<1> QED
  BY <1>12 DEF o

\* A restore that loses no file continues with the file that was saved.
LEMMA RestoreIsSame ==
  ASSUME IInv, FileInv, saved.whole, NEW cur, NEW fails \in BOOLEAN,
         Restore(cur, out, fails)
  PROVE  /\ out' \in Disks /\ (Fine(excused') => Same(out', meant'))
         /\ saved'.whole => SameSnapshot(saved')
<1> DEFINE f == FlushAll(out).file
           c == Watch(saved, f)
<1>1. SoundSnapshot(c) /\ SameSnapshot(c)
  BY WatchKeeps, WatchKeepsFiles DEF IInv, FileInv
<1>2. /\ out' = IF fails THEN NoHandles(f) ELSE Reopened(f, c.handles)
      /\ meant' = IF fails THEN NoHandles(c.meant.file) ELSE c.meant
      /\ excused' = c.excused \cup LostBy(c, cur, fails)
      /\ saved' = Watch(c, out'.file)
  BY DEF Restore
<1>3. c.intact => IsPrefix(c.file, f)
  <2> DEFINE b == saved.intact /\ IsPrefix(saved.file, f)
  <2>1. c = [saved EXCEPT !.intact = b]
    BY DEF Watch
  <2>2. b => IsPrefix(saved.file, f)
    OBVIOUS
  <2> HIDE DEF b, c
  <2> QED
    BY <2>1, <2>2 DEF IInv, SoundSnapshot, Fields
<1>4. f \in Seq(Nat)
  BY FlushAllIs, DiskIs DEF FileInv
<1>5. fails => "all" \in LostBy(c, cur, fails)
  BY DEF LostBy
<1>6. "files" \notin LostBy(c, cur, fails) => OneWriterAtEnd(c) /\ c.intact
  BY DEF LostBy
<1> HIDE DEF c, f
<1> DEFINE d == DiskOf(c)
<1>7. d \in Disks /\ d.handles = c.handles /\ d.file = c.file /\ Open(d) = DOMAIN c.handles
  BY <1>1 DEF SameSnapshot, DiskOf, Open
<1>8. out' \in Disks
  <2>1. CASE fails
    BY <1>2, <1>4, <2>1, NoHandlesIs
  <2>2. CASE ~fails
    BY <1>2, <1>4, <1>7, <2>2, ReopenedIs
  <2> QED
    BY <2>1, <2>2
<1>9. ASSUME Fine(excused') PROVE Same(out', meant')
  <2>1. /\ ~fails /\ OneWriterAtEnd(c) /\ c.intact
        /\ out' = Reopened(f, d.handles) /\ meant' = c.meant
    BY <1>2, <1>5, <1>6, <1>7, <1>9 DEF Fine
  <2>2. Same(d, c.meant) /\ Empty(d)
    BY <1>1, <1>2, <1>9 DEF SameSnapshot, Fine
  <2> HIDE DEF d
  <2>3. PICK h \in Handles : /\ Open(d) = {h} /\ d.handles[h].mode # "r+"
                             /\ d.handles[h].pos = Len(d.file)
    BY <1>7, <2>1 DEF OneWriterAtEnd
  <2>4. IsPrefix(d.file, f)
    BY <1>3, <1>7, <2>1
  <2> QED
    BY <1>4, <2>1, <2>2, <2>3, <2>4, ReopenedSame
<1>10. saved'.whole => SameSnapshot(saved')
  BY <1>1, <1>2, WatchKeepsFiles
<1> QED
  BY <1>8, <1>9, <1>10

-----------------------------------------------------------------------------
(* The steps.                                                                *)

FilesStay == /\ out' = out /\ meant' = meant /\ lines' = lines /\ excused' = excused
             /\ saved' = saved /\ pc # "off" /\ pc' \in {"slot", "serve"}

LEMMA FilesStayStep ==
  ASSUME IInv, FileInv, FilesStay
  PROVE  FileInv'
  BY DEF FileInv, FilesStay

LEMMA FileCallFiles ==
  ASSUME IInv, FileInv, design \in Designs, NEW p \in Procs, FileCall(p)
  PROVE  FileInv'
<1>1. /\ pc = "slot" /\ pc' = "slot" /\ Noted /\ lines \in Nat /\ out \in Disks
      /\ Fine(excused) => Same(out, meant)
      /\ excused' = excused \cup IF AppendsElsewhere(out') THEN {"files"} ELSE {}
  BY DEF FileCall, Run, Stays, Noted, FileInv
<1>2. Fine(excused') => Same(out, meant) /\ ~AppendsElsewhere(out')
  BY <1>1 DEF Fine
<1> DEFINE Fit == lines' \in Nat /\ out' \in Disks /\ (Fine(excused') => Same(out', meant'))
<1>3. Fit
  <2>1. ASSUME NEW mode \in design.modes, Handles \ Open(out) # {},
               out' = OpenFile(out, mode), meant' = OpenFile(meant, mode), lines' = lines
        PROVE  Fit
    <3>1. mode \in Modes
      BY CheckpointAssumption
    <3>2. out' \in Disks
      BY <1>1, <2>1, <3>1, OpenFileIs DEF Opened
    <3>3. Fine(excused') => Same(out', meant')
      BY <1>2, <2>1, <3>1, OpenFileSame
    <3> QED
      BY <1>1, <2>1, <3>2, <3>3
  <2>2. ASSUME NEW h \in Open(out), lines' = lines + 1, out' = WriteLine(out, h, lines'),
               meant' = WriteOut(WriteLine(meant, h, lines'), h)
        PROVE  Fit
    <3>1. lines' \in Nat
      BY <1>1, <2>2
    <3>2. out' \in Disks
      BY <1>1, <2>2, <3>1, WriteLineIs
    <3>3. Fine(excused') => Same(out', meant')
      BY <1>2, <2>2, <3>1, WriteLineSame
    <3> QED
      BY <3>1, <3>2, <3>3
  <2>3. ASSUME NEW h \in Open(out), out' = Rewind(out, h), meant' = Rewind(meant, h),
               lines' = lines
        PROVE  Fit
    <3>1. out' \in Disks
      BY <1>1, <2>3, RewindIs DEF Rewound
    <3>2. Fine(excused') => Same(out', meant')
      BY <1>2, <2>3, RewindSame
    <3> QED
      BY <1>1, <2>3, <3>1, <3>2
  <2>4. ASSUME NEW h \in Open(out), out' = CloseFile(out, h), meant' = CloseFile(meant, h),
               lines' = lines
        PROVE  Fit
    <3>1. out' \in Disks
      BY <1>1, <2>4, CloseFileIs DEF Closed
    <3>2. Fine(excused') => Same(out', meant')
      BY <1>2, <2>4, CloseFileSame
    <3> QED
      BY <1>1, <2>4, <3>1, <3>2
  <2>5. \/ /\ Handles \ Open(out) # {}
           /\ \E mode \in design.modes :
                 out' = OpenFile(out, mode) /\ meant' = OpenFile(meant, mode)
           /\ lines' = lines
        \/ \E h \in Open(out) :
              \/ /\ lines' = lines + 1 /\ out' = WriteLine(out, h, lines')
                 /\ meant' = WriteOut(WriteLine(meant, h, lines'), h)
              \/ out' = Rewind(out, h) /\ meant' = Rewind(meant, h) /\ lines' = lines
              \/ out' = CloseFile(out, h) /\ meant' = CloseFile(meant, h) /\ lines' = lines
    BY Zenon DEF FileCall
  <2> HIDE DEF Fit
  <2> QED
    BY <2>1, <2>2, <2>3, <2>4, <2>5, Zenon
<1>4. saved'.whole => SameSnapshot(saved')
  BY <1>1, SavedFilesStay
<1> QED
  BY <1>1, <1>3, <1>4 DEF FileInv

LEMMA SaveWritesFiles ==
  ASSUME IInv, FileInv, SaveWrites
  PROVE  FileInv'
<1>1. /\ pc = "serve" /\ pc' = "save" /\ out' = FlushAll(out) /\ Noted
      /\ meant' = meant /\ excused' = excused /\ lines' = lines
      /\ lines \in Nat /\ out \in Disks /\ (Fine(excused) => Same(out, meant))
  BY DEF SaveWrites, Noted, bounds, FileInv
<1>2. PICK whole \in BOOLEAN : WriteTmp(whole)
  BY DEF SaveWrites
<1>3. /\ tmp'.file = FlushAll(out).file /\ tmp'.handles = FlushAll(out).handles
      /\ tmp'.meant = meant /\ tmp'.excused = excused
  BY <1>2 DEF WriteTmp, Snapshot, Files
<1>4. out' \in Disks
  BY <1>1, FlushAllIs
<1>5. DiskOf(tmp') = out'
  BY <1>1, <1>3, <1>4, DiskIs DEF DiskOf
<1>6. Fine(excused) => Same(out', meant) /\ Empty(out')
  BY <1>1, FlushAllSame
<1>7. SameSnapshot(tmp')
  BY <1>3, <1>4, <1>5, <1>6 DEF SameSnapshot
<1>8. saved'.whole => SameSnapshot(saved')
  BY <1>1, SavedFilesStay
<1> QED
  BY <1>1, <1>4, <1>6, <1>7, <1>8 DEF FileInv

LEMMA SaveEndsFiles ==
  ASSUME IInv, FileInv, SaveEnds
  PROVE  FileInv'
  BY DEF SaveEnds, bounds, FileInv

LEMMA RestoreFiles ==
  ASSUME IInv, FileInv, Restart \/ BootRestored
  PROVE  FileInv'
<1>1. /\ saved.whole /\ pc' \in {"slot", "serve"} /\ lines' = lines
      /\ \E cur, fails : fails \in BOOLEAN /\ Restore(cur, out, fails)
  BY DEF Restart, BootRestored
<1>2. PICK cur, fails : fails \in BOOLEAN /\ Restore(cur, out, fails)
  BY <1>1
<1>3. /\ out' \in Disks /\ (Fine(excused') => Same(out', meant'))
      /\ saved'.whole => SameSnapshot(saved')
  BY <1>1, <1>2, RestoreIsSame
<1> QED
  BY <1>1, <1>3 DEF FileInv

LEMMA OffFiles ==
  ASSUME IInv, FileInv, End \/ Kill
  PROVE  FileInv'
<1>1. /\ pc' = "off" /\ Noted /\ lines' = lines /\ lines \in Nat /\ out \in Disks
      /\ out' = NoHandles(FlushAll(out).file) \/ out' = NoHandles(out.file)
  BY DEF End, Kill, Noted, bounds, FileInv
<1>2. FlushAll(out).file \in Seq(Nat) /\ out.file \in Seq(Nat)
  BY <1>1, FlushAllIs, DiskIs
<1>3. out' \in Disks /\ Open(out') = {}
  BY <1>1, <1>2, NoHandlesIs
<1>4. saved'.whole => SameSnapshot(saved')
  BY <1>1, SavedFilesStay
<1> QED
  BY <1>1, <1>3, <1>4 DEF FileInv

LEMMA BootFiles ==
  ASSUME IInv, FileInv, Boot
  PROVE  FileInv'
<1>1. /\ pc = "off" /\ pc' = "slot" /\ meant' = out /\ out' = out /\ saved' = saved
      /\ lines' = lines
  BY DEF Boot
<1>2. Same(out, out)
  BY <1>1, NothingOpenSame DEF FileInv
<1> QED
  BY <1>1, <1>2 DEF FileInv

-----------------------------------------------------------------------------
(***************************************************************************)
(* The file holds what this history has written and nothing of what was    *)
(* written after the save: the buffers of the handles, the cut of the      *)
(* file and the new handles of reopen_files put back what checkpoint_save  *)
(* left, and what is written later lands where it was meant to.            *)
(***************************************************************************)
THEOREM OutputIsAsSaved == Spec => []OutputAsSaved
<1>1. Init => FileInv
  <2> SUFFICES ASSUME Init PROVE FileInv
    OBVIOUS
  <2>1. /\ pc = "slot" /\ out = NoHandles(<<>>) /\ meant = out /\ saved = None
        /\ lines = 0
    BY DEF Init
  <2>2. out \in Disks /\ Open(out) = {}
    <3>1. <<>> \in Seq(Nat)
      OBVIOUS
    <3> QED
      BY <2>1, <3>1, NoHandlesIs
  <2>3. Same(out, meant)
    BY <2>1, <2>2, NothingOpenSame
  <2> QED
    BY <2>1, <2>2, <2>3 DEF FileInv, None
<1>2. IInv /\ FileInv /\ [Next]_vars => FileInv'
  <2>1. ASSUME FileInv, UNCHANGED vars PROVE FileInv'
    BY <2>1 DEF FileInv, vars, bounds
  <2>2. ASSUME IInv, FileInv, Next PROVE FileInv'
    <3>1. ASSUME NEW p \in Procs, Delay(p) \/ SuspendOrResume(p) \/ Assign(p)
                                  \/ Request(p) \/ DpiTask(p)
          PROVE  FilesStay
      BY <3>1 DEF Delay, SuspendOrResume, Assign, Request, DpiTask, Run, Stays, bounds,
         FilesStay
    <3>2. ApplyLate \/ Advance \/ Serve \/ RestartRefused \/ EndServe => FilesStay
      BY DEF ApplyLate, Advance, Serve, RestartRefused, EndServe, SlotOver, bounds, FilesStay
    <3>3. ASSUME NEW p \in Procs, FileCall(p) PROVE FileInv'
      BY <2>2, <3>3, FileCallFiles DEF IInv
    <3> QED
      BY <2>2, <3>1, <3>2, <3>3, FilesStayStep, SaveWritesFiles, SaveEndsFiles,
         RestoreFiles, OffFiles, BootFiles DEF Next
  <2> QED
    BY <2>1, <2>2
<1>3. FileInv => OutputAsSaved
  <2> SUFFICES ASSUME FileInv, pc # "off", ~Known({"all", "files"})
               PROVE  FlushAll(out).file = meant.file
    BY DEF OutputAsSaved
  <2>1. Fine(excused)
    BY DEF Known, Fine
  <2> QED
    BY <2>1, FlushAllSame DEF FileInv
<1> QED
  BY <1>1, <1>2, <1>3, InductiveInvariant, PTL DEF Spec
=============================================================================
