------------------------------ MODULE Checkpoint ------------------------------
(***************************************************************************)
(* Checkpoints (checkpoint.rs): $save, $restart and --save-at are served   *)
(* at the end of a time slot, --restore before the first one.  What a run  *)
(* changes is in three places: the fields that a checkpoint lists, fields  *)
(* that it does not list and that a restore leaves as they are, and the    *)
(* file that the design writes, which a restore cuts back.                 *)
(*                                                                         *)
(* A process may do one thing when it runs and waits for a delay again.    *)
(* All handles are open on one file, and all checkpoints have one name.    *)
(* The process that runs xezim may be killed anywhere, and started again,  *)
(* with --restore or without.  owed, meant and the last four fields of a   *)
(* checkpoint are history.                                                 *)
(***************************************************************************)
EXTENDS Integers, Sequences, FiniteSets, SequencesExt, FiniteSetsExt

CONSTANTS Procs,        \* simulated processes
          MaxHandles,   \* bound on the file handles
          Designs,      \* its processes (procs), what they do (does), the modes
                        \* it opens files with (modes), its last slot (last)
          SaveAts,      \* the times that --save-at may name; NoTime for none
          MaxTime,      \* bound on the slots
          MaxLines,     \* bound on the lines written in all
          MaxOps,       \* bound on the requests that wait for the end of a slot
          MaxRestores,  \* bound on restarts and restores
          MaxBoots      \* bound on starts of the program

VARIABLES design,   \* one of Designs
          pc,       \* where the program is
          time,     \* self.time
          mem,      \* the scheduler's fields: those listed and those that are not
          dpi,      \* a DPI task is suspended in C
          ops,      \* checkpoint_ops: what is asked of the end of the slot
          saveAt,   \* checkpoint_save_at
          next,     \* next_time of the event loop, while requests are served
          replaced, \* a $restart of this round replaced the state
          out,      \* the file and the handles open on it
          saved,    \* the file of the checkpoint
          tmp,      \* what is written beside it
          owed,     \* the assignments that this history has made
          meant,    \* the file and handles as this history has written them
          excused,  \* what was lost before, by a cause that is known
          lines, restores, boots

kernel  == <<time, mem, dpi, owed>>
serving == <<ops, saveAt, next, replaced>>
bounds  == <<lines, restores, boots>>
vars == <<design, pc, kernel, serving, out, saved, tmp, meant, excused, bounds>>

NoTime  == -1
Times   == 0 .. MaxTime
Handles == 1 .. MaxHandles
Modes   == {"w", "a", "r+"}

ASSUME CheckpointAssumption ==
    /\ MaxTime \in Nat /\ MaxHandles \in Nat
    /\ SaveAts \subseteq Times \cup {NoTime}
    /\ \A d \in Designs : /\ d.procs \subseteq Procs /\ d.last \in Times
                         /\ d.modes \subseteq Modes

Hole   == 0       \* what a file is filled with when it is made longer
None   == [whole |-> FALSE, intact |-> FALSE]
NoneDue == [fast |-> {}, slow |-> {}]

-----------------------------------------------------------------------------
(* The file.  A line is a number; pos counts lines.                         *)

Lines(f, n) == IF n <= Len(f) THEN SubSeq(f, 1, n) ELSE f
SetLen(f, n) == Lines(f, n) \o [i \in 1 .. n - Len(Lines(f, n)) |-> Hole]

PutAt(f, pos, s) ==
    SetLen(f, pos) \o s \o SubSeq(f, pos + Len(s) + 1, Len(f))

\* SvFile::write_out; a handle in append mode writes at the end wherever it is.
WriteOut(d, h) ==
    LET x  == d.handles[h]
        at == IF x.append THEN Len(d.file) ELSE x.pos
    IN  IF x.buf = <<>> THEN d
        ELSE [file    |-> PutAt(d.file, at, x.buf),
              handles |-> [d.handles EXCEPT ![h].pos = at + Len(x.buf),
                                            ![h].buf = <<>>]]

\* flush_file_writes, and the drop of every handle.
Open(d) == DOMAIN d.handles
FlushAll(d) ==
    LET flushed[n \in 0 .. MaxHandles] ==
            IF n = 0 THEN d
            ELSE IF n \in Open(d) THEN WriteOut(flushed[n - 1], n)
            ELSE flushed[n - 1]
    IN  flushed[MaxHandles]
NoHandles(f) == [file |-> f, handles |-> <<>>]

\* SvFile::write.
WriteLine(d, h, l) ==
    LET e == [d EXCEPT !.handles[h].buf = Append(@, l)]
    IN  IF e.handles[h].buffered THEN e ELSE WriteOut(e, h)

Handle(mode, pos, append, buffered) ==
    [mode |-> mode, pos |-> pos, buf |-> <<>>, append |-> append,
     buffered |-> buffered]

\* open_file_path: the lowest free number; a second handle on an open file makes
\* both write through.
OpenFile(d, mode) ==
    LET e == FlushAll(d)
        h == Min(Handles \ Open(e))
    IN  [file    |-> IF mode = "w" THEN <<>> ELSE e.file,
         handles |-> [k \in Open(e) \cup {h} |->
                         IF k = h THEN Handle(mode, 0, mode = "a", Open(e) = {})
                         ELSE [e.handles[k] EXCEPT !.buffered = FALSE]]]

\* $rewind, and $fclose.
Rewind(d, h) == [WriteOut(d, h) EXCEPT !.handles[h].pos = 0]
CloseFile(d, h) ==
    [WriteOut(d, h) EXCEPT !.handles = [k \in Open(d) \ {h} |-> d.handles[k]]]

\* reopen_files, handle by handle: a file not opened for reading is cut to the
\* handle's position; the new handle buffers and does not append.
\* Mutant: a file is left as long as it is.
CutNothing(f, x) == f
CutTo(f, x) == IF x.mode = "r+" THEN f ELSE SetLen(f, x.pos)
CutToAll(f, hs) ==
    LET cut[n \in 0 .. MaxHandles] ==
            IF n = 0 THEN f
            ELSE IF n \in DOMAIN hs THEN CutTo(cut[n - 1], hs[n])
            ELSE cut[n - 1]
    IN  cut[MaxHandles]
Reopened(f, hs) ==
    [file    |-> CutToAll(f, hs),
     handles |-> [h \in DOMAIN hs |-> Handle(hs[h].mode, hs[h].pos, FALSE, TRUE)]]

-----------------------------------------------------------------------------
(* A checkpoint.                                                            *)

\* checkpoint_state!: the event queue, the processes that have ended and
\* delayed_nba are listed; the table of suspended processes and delayed_nba_queue
\* are not, and stay what they are in the run that restores.
\* Mutant: the set of the processes that have ended is not listed.
KeptWithoutEnds(c, cur) == [c EXCEPT !.ended = cur.ended,
                                     !.suspended = cur.suspended, !.slow = cur.slow]
Kept(c, cur) == [queue |-> c.queue, ended |-> c.ended, fast |-> c.fast,
                 suspended |-> cur.suspended, slow |-> cur.slow]

\* checkpoint_files: the handles, with the position that each is at.
Files(d) == d.handles

\* checkpoint_save: the state at the end of the slot; the files are flushed
\* first.
Snapshot ==
    LET d == FlushAll(out)
    IN  [whole |-> TRUE, time |-> time, mem |-> mem, handles |-> Files(d),
         file |-> d.file, owed |-> owed, meant |-> meant,
         excused |-> excused, intact |-> TRUE]

\* History: has the design written over what the file held at the save?
Watch(c, f) ==
    IF ~c.whole THEN c ELSE [c EXCEPT !.intact = @ /\ IsPrefix(c.file, f)]

\* The files that a restore puts back: one handle has the file open to write
\* and stands at its end.  (With two, or with one that has not written yet, the
\* file is cut at another place.)
OneWriterAtEnd(c) ==
    \E h \in Handles : /\ DOMAIN c.handles = {h}
                       /\ c.handles[h].mode # "r+"
                       /\ c.handles[h].pos = Len(c.file)

\* What the restore of c into a run with memory cur cannot put back.
LostBy(c, cur, fails) ==
    {x \in {"processes", "assignments", "files", "all"} :
        \/ x = "processes" /\ c.mem.suspended # cur.suspended
        \/ x = "assignments" /\ c.mem.slow # cur.slow
        \/ x = "files" /\ ~(OneWriterAtEnd(c) /\ c.intact)
        \/ x = "all" /\ fails}

\* checkpoint_restore of what is in saved, once its head was accepted.  It fails
\* when a file cannot be opened again, after the state was replaced.
Restore(cur, d, fails) ==
    LET flushed == FlushAll(d).file
        c       == Watch(saved, flushed)
    IN  /\ time' = c.time
        /\ mem' = Kept(c.mem, cur)
        /\ owed' = c.owed
        /\ out' = IF fails THEN NoHandles(flushed) ELSE Reopened(flushed, c.handles)
        /\ meant' = IF fails THEN NoHandles(c.meant.file) ELSE c.meant
        /\ excused' = c.excused \cup LostBy(c, cur, fails)
        /\ saved' = Watch(c, out'.file)
        /\ restores < MaxRestores /\ restores' = restores + 1

-----------------------------------------------------------------------------
(* A time slot.                                                             *)

Due(p) == \E e \in mem.queue : e.pid = p /\ e.at = time
Later  == {t \in Times : time < t /\ t <= design.last}

\* p has run: it waits for the next time, or has ended.
Waits(m, p) ==
    LET rest == {e \in m.queue : e # [pid |-> p, at |-> time]}
    IN  {[m EXCEPT !.queue = rest \cup {[pid |-> p, at |-> t]}] :
            t \in Later \cap {time + 1}}
        \cup {[m EXCEPT !.queue = rest, !.ended = @ \cup {p}]}

\* process_control.rs: of a process in a delay.
Suspended(m, q) ==
    LET es == {e \in m.queue : e.pid = q}
    IN  [m EXCEPT !.queue = @ \ es, !.suspended = @ \cup es]
Resumed(m, q) ==
    LET es == {e \in m.suspended : e.pid = q}
    IN  [m EXCEPT !.suspended = @ \ es,
                  !.queue = @ \cup {[pid |-> q, at |-> Max({e.at, time})] : e \in es}]

Run(p) == pc = "slot" /\ Due(p)
Does(what) == what \in design.does
Stays == UNCHANGED <<pc, time, serving, tmp, restores, boots>>

Delay(p) == /\ Run(p)
            /\ mem' \in Waits(mem, p)
            /\ Stays /\ UNCHANGED <<dpi, owed, out, saved, meant, excused, lines>>

SuspendOrResume(p) ==
    /\ Run(p) /\ Does("suspend")
    /\ \E q \in Procs \ {p} :
          \/ q \notin {e.pid : e \in mem.suspended}
             /\ mem' \in Waits(Suspended(mem, q), p)
          \/ mem' \in Waits(Resumed(mem, q), p)
    /\ Stays /\ UNCHANGED <<dpi, owed, out, saved, meant, excused, lines>>

\* A non-blocking assignment with a delay, in one of the two queues.
Assign(p) ==
    /\ Run(p)
    /\ \E t \in Later, form \in {"fast", "slow"} \cap design.does :
          /\ \E m \in Waits(mem, p) : mem' = [m EXCEPT ![form] = @ \cup {t}]
          /\ owed' = [owed EXCEPT ![form] = @ \cup {t}]
    /\ Stays /\ UNCHANGED <<dpi, out, saved, meant, excused, lines>>

\* A handle for appending that was opened again writes where it stands, which is
\* not the end once it was rewound or the file has another handle.
AppendsElsewhere(d) ==
    \E h \in Open(d) : /\ d.handles[h].mode = "a" /\ ~d.handles[h].append
                       /\ Open(d) # {h} \/ d.handles[h].pos # Len(d.file)

\* $fopen, $fdisplay, $rewind and $fclose.  The file that was meant is written
\* without buffers.
FileCall(p) ==
    /\ Run(p) /\ Does("files")
    /\ mem' \in Waits(mem, p)
    /\ \/ /\ Handles \ Open(out) # {}
          /\ \E mode \in design.modes :
                /\ out' = OpenFile(out, mode)
                /\ meant' = OpenFile(meant, mode)
          /\ lines' = lines
       \/ \E h \in Open(out) :
             \/ /\ lines < MaxLines /\ lines' = lines + 1
                /\ out' = WriteLine(out, h, lines')
                /\ meant' = WriteOut(WriteLine(meant, h, lines'), h)
             \/ out' = Rewind(out, h) /\ meant' = Rewind(meant, h) /\ lines' = lines
             \/ out' = CloseFile(out, h) /\ meant' = CloseFile(meant, h) /\ lines' = lines
    /\ saved' = Watch(saved, out'.file)
    /\ excused' = excused \cup IF AppendsElsewhere(out') THEN {"files"} ELSE {}
    /\ Stays /\ UNCHANGED <<dpi, owed>>

\* $save, $incsave and $restart.
Request(p) ==
    /\ Run(p)
    /\ mem' \in Waits(mem, p)
    /\ Len(ops) < MaxOps
    /\ \E op \in {"save", "restart"} : ops' = Append(ops, op)
    /\ UNCHANGED <<pc, time, dpi, owed, saveAt, next, replaced, out, saved, tmp,
                   meant, excused, bounds>>

\* A DPI task begins to wait in C, or returns.
DpiTask(p) == /\ Run(p) /\ Does("dpi")
              /\ mem' \in Waits(mem, p)
              /\ dpi' = ~dpi
              /\ Stays /\ UNCHANGED <<owed, out, saved, meant, excused, lines>>

-----------------------------------------------------------------------------
(* The end of a slot.                                                       *)

SlotOver == pc = "slot" /\ \A p \in Procs : ~Due(p)
Work     == {e.at : e \in mem.queue} \cup mem.fast \cup mem.slow
\* NoTime where nothing is left.
NextTime == IF Work = {} THEN NoTime ELSE Min(Work)
SaveDue  == saveAt # NoTime /\ NextTime > saveAt

\* The assignments of a slot are applied as the clock reaches it.
After(m, t) == [m EXCEPT !.fast = {x \in @ : x > t}, !.slow = {x \in @ : x > t}]

\* What a restore left in a queue may be of the past: it is applied in the slot
\* that the loop is at.
Overdue == \E t \in mem.fast \cup mem.slow : t <= time
ApplyLate == /\ SlotOver /\ Overdue
             /\ mem' = After(mem, time)
             /\ UNCHANGED <<pc, time, dpi, owed, serving, out, saved, tmp, meant,
                            excused, bounds>>

AdvanceTo(t) == /\ time' = t
                /\ mem' = After(mem, t)
                /\ owed' = After(owed, t)

Advance == /\ SlotOver /\ NextTime > time
           /\ dpi \/ (ops = <<>> /\ ~SaveDue)
           /\ AdvanceTo(NextTime)
           /\ UNCHANGED <<pc, dpi, serving, out, saved, tmp, meant, excused, bounds>>

\* serve_checkpoints: what the design asked for, then the --save-at that are due.
Serve == /\ SlotOver /\ NextTime > time
         /\ ~dpi /\ (ops # <<>> \/ SaveDue)
         /\ pc' = "serve" /\ next' = NextTime /\ replaced' = FALSE
         /\ ops' = IF SaveDue THEN Append(ops, "save") ELSE ops
         /\ saveAt' = IF SaveDue THEN NoTime ELSE saveAt
         /\ UNCHANGED <<kernel, out, saved, tmp, meant, excused, bounds>>

Served == ops' = Tail(ops) /\ UNCHANGED <<saveAt, next>>

\* checkpoint_save, up to the file beside the target: it may be written in part.
WriteTmp(whole) == tmp' = [Snapshot EXCEPT !.whole = whole]
SaveWrites ==
    /\ pc = "serve" /\ ops # <<>> /\ Head(ops) = "save"
    /\ out' = FlushAll(out)
    /\ saved' = Watch(saved, out'.file)
    /\ \E whole \in BOOLEAN : WriteTmp(whole)
    /\ pc' = "save"
    /\ UNCHANGED <<kernel, serving, meant, excused, bounds>>

\* Mutant: written in place.
SaveEndsInPlace ==
    /\ pc = "save"
    /\ saved' = tmp /\ tmp' = None
    /\ pc' = "serve"
    /\ Served
    /\ UNCHANGED <<kernel, replaced, out, meant, excused, bounds>>

\* It is renamed over the target, or removed when the write failed.
SaveEnds ==
    /\ pc = "save"
    /\ saved' = IF tmp.whole THEN tmp ELSE saved
    /\ tmp' = None
    /\ pc' = "serve"
    /\ Served
    /\ UNCHANGED <<kernel, replaced, out, meant, excused, bounds>>

Restart ==
    /\ pc = "serve" /\ ops # <<>> /\ Head(ops) = "restart"
    /\ saved.whole
    /\ \E fails \in BOOLEAN :
          /\ Restore(mem, out, fails)
          /\ replaced' = (replaced \/ ~fails)
    /\ Served
    /\ UNCHANGED <<pc, dpi, tmp, lines, boots>>

\* There is no checkpoint of that name.
RestartRefused ==
    /\ pc = "serve" /\ ops # <<>> /\ Head(ops) = "restart"
    /\ ~saved.whole
    /\ Served
    /\ UNCHANGED <<pc, kernel, replaced, out, saved, tmp, meant, excused, bounds>>

\* After a $restart the loop looks at the queues again; else the clock moves to
\* the time that was found before.
EndServe ==
    /\ pc = "serve" /\ ops = <<>>
    /\ pc' = "slot"
    /\ IF replaced THEN UNCHANGED <<time, mem, owed>> ELSE AdvanceTo(next)
    /\ UNCHANGED <<dpi, serving, out, saved, tmp, meant, excused, bounds>>

-----------------------------------------------------------------------------
(* The program.                                                             *)

Fresh == [queue |-> {[pid |-> p, at |-> 0] : p \in design.procs},
          ended |-> Procs \ design.procs,
          suspended |-> {}, fast |-> {}, slow |-> {}]

\* Nothing is left to run, or what is left lies in the past and the loop gives
\* up; the handles are dropped.  checkpoint_unserved names the requests left.
End == /\ SlotOver
       /\ NextTime <= time /\ ~Overdue
       /\ pc' = "off"
       /\ out' = NoHandles(FlushAll(out).file)
       /\ saved' = Watch(saved, out'.file)
       /\ ops' = <<>> /\ saveAt' = NoTime
       /\ UNCHANGED <<kernel, next, replaced, tmp, meant, excused, bounds>>

\* kill -9: what the handles buffer is lost.
Kill == /\ pc # "off"
        /\ pc' = "off"
        /\ out' = NoHandles(out.file)
        /\ ops' = <<>> /\ saveAt' = NoTime
        /\ UNCHANGED <<kernel, next, replaced, saved, tmp, meant, excused, bounds>>

\* A run from the beginning goes on with the file that it finds.
Boot == /\ pc = "off" /\ boots < MaxBoots /\ boots' = boots + 1
        /\ time' = 0 /\ mem' = Fresh /\ dpi' = FALSE /\ owed' = NoneDue
        /\ meant' = out /\ excused' = {}
        /\ saveAt' \in SaveAts
        /\ pc' = "slot"
        /\ UNCHANGED <<ops, next, replaced, out, saved, tmp, lines, restores>>

\* checkpoint_start with --restore; a restore that fails ends the run.
BootRestored ==
    /\ pc = "off" /\ boots < MaxBoots /\ boots' = boots + 1
    /\ saved.whole
    /\ Restore(Fresh, out, FALSE)
    /\ dpi' = FALSE
    /\ \E t \in SaveAts : saveAt' = IF t >= saved.time THEN t ELSE NoTime
    /\ pc' = "slot"
    /\ UNCHANGED <<ops, next, replaced, tmp, lines>>

Init == /\ design \in Designs
        /\ pc = "slot" /\ time = 0 /\ mem = Fresh /\ dpi = FALSE
        /\ ops = <<>> /\ saveAt \in SaveAts /\ next = 0 /\ replaced = FALSE
        /\ out = NoHandles(<<>>) /\ meant = out
        /\ saved = None /\ tmp = None /\ owed = NoneDue /\ excused = {}
        /\ lines = 0 /\ restores = 0 /\ boots = 1

Next == /\ UNCHANGED design
        /\ \/ \E p \in Procs : \/ Delay(p) \/ SuspendOrResume(p) \/ Assign(p)
                               \/ FileCall(p) \/ Request(p) \/ DpiTask(p)
           \/ ApplyLate \/ Advance \/ Serve \/ SaveWrites \/ SaveEnds
           \/ Restart \/ RestartRefused \/ EndServe
           \/ End \/ Kill \/ Boot \/ BootRestored

Spec == Init /\ [][Next]_vars

-----------------------------------------------------------------------------
(* Properties.                                                              *)

Known(causes) == excused \cap causes # {}

Places(p) == Cardinality({e \in mem.queue : e.pid = p})
             + Cardinality({e \in mem.suspended : e.pid = p})
EachProcessOnce ==
    \A p \in Procs : Places(p) = IF p \in mem.ended THEN 0 ELSE 1
Assignments == [fast |-> mem.fast, slow |-> mem.slow]
\* Of the queue that no checkpoint lists, only what this history has put there.
NothingPassed ==
    \A t \in {e.at : e \in mem.queue} \cup mem.fast \cup owed.slow : t >= time

\* A run that was restored, however often, goes on with the processes and the
\* delayed assignments of the run that was saved: each is there once, and none
\* is left behind by the clock.  Known causes are excepted.
ContinuesAsSaved ==
    pc = "slot" => /\ Known({"all", "processes"}) \/ EachProcessOnce
                   /\ Known({"all", "assignments"}) \/ Assignments = owed
                   /\ Known({"all"}) \/ NothingPassed

\* The file holds what this history has written and nothing of what was
\* written after the save ("output written after the save is dropped, as a
\* simulation that never ran past it would not have written it", checkpoint.rs:998),
\* also when the program was killed since then.
OutputAsSaved ==
    pc # "off" => Known({"all", "files"}) \/ FlushAll(out).file = meant.file

\* Killed at any point, the program leaves a whole checkpoint of that name, or
\* the earlier one ("a failed save leaves an earlier checkpoint of the same name
\* intact", checkpoint.rs:858).
SavesAreWhole ==
    [][saved.whole => saved'.whole]_vars

\* The guide: a checkpoint "holds every process" (user-guide.md:112), those that
\* are suspended too.
EveryProcessKept == pc = "slot" => Known({"all"}) \/ EachProcessOnce
=============================================================================
