# A TLA+ model of the xezim simulation kernel

xezim compiles a SystemVerilog design and simulates it. The compiler is a
straight pass over a design; what is hard to get right, and hard to test, is
the kernel under `src/src/compiler/`: simulated processes that park in a dozen
different lists and are woken, killed, suspended and resumed by each other; one
event loop that runs the regions of a time slot, some of them on threads;
signal handlers that may end the run at any moment; and files, dumps and
checkpoints, that must survive that. This directory models that kernel.

## 1. Inventory

Each row names the part, the state it keeps, what operates on it, and what makes
it correct.

| Part | State | Operations | Correct means | Modelled in |
|---|---|---|---|---|
| Event queue (`struct TimingWheel`, `simulator.rs`) | circular slots, bitmap, overflow map, memo of the next time, count per process, front counters | `schedule`, `schedule_front`, `requeue_front`, `reorder_slot`, `pop_front`, `remove`, `remove_pid`, `next_time`, `next_time_after` | a FIFO list per time; the clock passes no entry | `TimingWheel`, `EventQueue` |
| Process control (`process_control.rs`, `processes.rs`, `statements.rs`) | fork tree, killed/finished/suspended sets, the waiting lists, join and await waiters | fork/join, `wait fork`, five forms of `disable`, `kill`, `suspend`, `resume`, `await`, end of an activation | one continuation per process, none lost, no one waits on the dead | `ProcessControl` |
| Semaphores (`mailboxes.rs`, `construction.rs`) | key count and queue of requests | `put`, `get`, `try_get`; kill, suspend, resume of a waiter | keys conserved, no lost wakeup, first come first served | `Semaphore` |
| Mailboxes (`mailboxes.rs`, `construction.rs`, `calls.rs`, `processes.rs`) | messages, parked consumers and producers, bound | four forms of `put`, `get`, `peek`, `try_get`; kill, suspend, resume | FIFO, nothing lost, nobody sleeps beside work | `Mailbox` |
| Time slot (`event_loop.rs`, `system_tasks.rs`, `clocking.rs`, `edges.rs`, `signal_commits.rs`) | lists of continuations, conditions of waits, edge snapshots, pass flags | the passes of `run_one_tick`, the main loop between two ticks, the livelock breaker | region order; every list is empty and every true wait served when time moves; the slot ends | `TimeSlot` |
| Non-blocking assignments (`bytecode_runtime.rs`, `process_scopes.rs`, `statements.rs`, `two_state.rs`), edge blocks on threads (`edges.rs`) | `nba_fast` with its index, `nba_queue`, two delayed queues; the queues of the threads | assign whole and in part, elide, delay, run blocks on threads, merge, apply | the last assignment of a window wins, bit by bit, threads or not | `NonBlocking` |
| Interrupt and shutdown (`interrupt.rs`, `fst_sink.rs`, `event_loop.rs`, `setup.rs`) | three atomic flags, one alarm, threads | two signals, the alarm, polls, `take_interrupt`, `final` blocks, the guard thread | every interrupt is answered, finalizing is not cut short | `Interrupt` |
| Dump threads (`fst_sink.rs`, `waveforms.rs`) | a batch and a channel under one mutex, a block in memory, the tail request | post, hand off, write, flush, tail, close | changes in order, none lost at the close; a stuck run still reaches its file | `FstSink` |
| Dump file (`Staged`, `fst_sink.rs`) | a stage in memory, the file, how much of the stage is in it | append bodies, write terminator, write head, finish | readable after a kill or a failed write at any byte | `FstFile`, `BlockLog` |
| Checkpoint (`checkpoint.rs`, `sv_file.rs`) | the listed fields of the simulator, the design's files | `$save`, `$restart`, `--save-at`, `--restore` | the restored run continues as the saved one | `Checkpoint` |
| Named events (`named_events.rs`, `sensitivity.rs`) | waiter index by object and by signal | trigger, `triggered`, index maintenance | an event wakes its waiters | the wake-up in `TimeSlot`, the lists in `ProcessControl`; not the index |
| Clocking and assertions (`clocking.rs`, `assertions.rs`) | deferred reports, attempts | sample, evaluate, report | one report per attempt | waits and the maturing of reports, in `TimeSlot` |
| Class heap (`heap_gc.rs`, `heap_trace.rs`, `mailboxes.rs`) | objects and their handles, roots, messages with captured patterns, survivors of the last collection | `new`, access, `put`/`get`/`peek`, an imported task that waits, collect at a safe point | no reachable object is taken, all garbage is | `ClassHeap` |
| Constraint solver, bytecode, JIT, AOT, timing checks, VPI/DPI, front end | data | evaluate | values | not modelled |

How they interact. The event loop pops an entry from the queue, runs that
process until it parks or ends, and calls `child_finished` if it waits nowhere.
A running process calls process control, semaphores and mailboxes directly (one
thread, no preemption), and these put woken processes back in the queue. It
assigns to signals through the queues of non-blocking assignments, which the
loop applies after Active and Inactive, and posts the changes of a slot to the
dump. Signals reach the loop through the flags only. A checkpoint is taken and
restored by the loop, between two slots, and so are the objects of classes collected.
So the concurrency of process control,
semaphores, mailboxes and the time slot is that of *simulated* processes: one
call is atomic, their order is not. In the interrupt, the dump threads and
the edge blocks it is that of real threads: every access to a shared flag, and
every section under a lock, is a step. In the dump file and in the checkpoint a
step is one write, between any two of which the program may be killed.

What is hard, line by line, is the list `hazards` of `PROJECT.json`.

## 2. Modules

Each component has a module; `MC<module>` instantiates it for TLC, and
`<module>Proofs` holds its theorems where it has any; those of `FstFile`, of
`Interrupt` and of `TimeSlot` are together in `RunProofs`, those of `ClassHeap` and
of `NonBlocking` in `StorageProofs`. `InterruptState` and
`TimeSlotState` are the state of `Interrupt` and of `TimeSlot` and what their
properties say. `EventQueue` and
`BlockLog` are abstract specifications: `TimingWheel` implements the first by the refinement
mapping `QueueAt` (a time in the window is its slot, any other its overflow
list), `FstFile` the second by what a reader of the file finds.
Every action stands for a whole function or arm of the code; `PROJECT.json`,
`map`, gives its lines. A definition whose comment begins with "Mutant" is the
plausible bug that shows that a property is not vacuous; no action uses it.
Where a type invariant is not an invariant of its own it is the first conjunct
of one (`IndexesAgree`, `WaitsOnce`, `EachOnce`, `QueuesAreMeant`, `ChannelKept`,
`Readable`).

**TimingWheel.** `wheel`, `bitmap`, `overflow`, `nextCache`, `pidCounts`,
`frontTime`/`frontPending`/`lastPopFront` are the fields of the struct.
`batch` is `slot_batches` and `time` the simulator's clock, because both decide
what the callers may do next. `occupied_words` is derived from the bitmap in
every operation, as `bitmap_set` and `bitmap_clear` do. `WheelSize` and
`WordBits` are 4096 and 64 in the code. An entry keeps its process and whether
`schedule_front` put it there; the continuation is left out. `OnePerPid` says
that a process is queued once, which is part of `WaitsOnce` of `ProcessControl`
and is proved there.

**ProcessControl.** Processes are numbered as `next_pid` does. A waiting process
is in one of `Places` (`parked`), in `eventQueue`, in a join or await waiter or
suspended; `Places` merges lists that every operation treats alike (its comment
lists them), and keeps apart those that some operation forgets
(`mailbox_put`, `nba_region`). What a body does between two calls is left
open: the running process may do anything next. `woken` is the part of a list
that a pass of the event loop has taken and not yet run. A design uses one of
`Usages`, a set of operations, from its first state on (`features`). `spawner` and
`suspendCalled` are history.

**Semaphore, Mailbox.** One object of each. The continuation of a process is its
`state`; kill, suspend and resume are the lines of `process_control.rs`
that touch the object's queues. `"synchronous"` stands for calls that reach the
method dispatcher of `construction.rs` in a context that cannot park,
`"expression"` for the separate `put` of `calls.rs`. A mailbox has a bound and
one of `Usages`, a set of `features`, from its first state on: the order of
service and the bound are promised of a design that uses statements only.
`given`, `lent`, `unpaid`, `headGone`, `taken` are history.

**TimeSlot.** A tick may run a region again, and several ticks may belong to one
slot, so the passes still to come are a stack of stages (`stack`), of which each is
one action. Between two stages, and nowhere else, the processes of `batch` run,
one activation at a time: an activation has one effect (a write, an assignment,
an event, a `$strobe`, a deferred report, a fork) and parks in one of the lists
or ends. `lists` are the eight lists of continuations; `sig` is one variable
and one named event with what is pending for them, and `y`, one property of a class
object; `pass` the flags
(`cond_progress`, the dirty mark, the edge snapshot), `stall` the counter of the
livelock breaker. A design fixes what may occur: effects, places, the
processes of program blocks, whether writes are interpreted (these look at the waits of
others at once), and the limit, which is one of ticks and of activations.

Two kinds of wait park in `condition_waiters`. `wait(x == v)` ("cond") is looked at by
every round, in a re-pass once per time. `wait(y == v)` ("prop") reads only what is
noted in `STORE_WRITE_MASK` when it is written, and a round passes it over until then
(`Kept`): `pass.noted` says whether the two bits of `y` are in the mask, which a write of
`y` sets ("set"), and that of another name which shares them may set ("other"), and which every
round clears for all.

A process that has had all its activations at one time (`Spent`, `pass.hits`) is queued for
now again and does not run (`Defer`); `pass.defer` (`zero_delay_defer_pending`) then makes `Active`,
the rounds of waits and their runs leave off where they are, and the first late pass is skipped
(`Late`), while the NBA region and the others take place. The main loop
breaks a livelock at two places, one after the other: `BreakLivelock` at the limit
of ticks, then `BreakSpinner` for such a process, the stage `spinner` between them; both
move what is queued to the next time that has work (`BreakTo`), and where there is none the run
stops.

**NonBlocking.** `fast`, `index`, `queue`, `delayed` and `delayedQueue` are the
queues; a value is a function on bits, so that an assignment of a part can be
told from one of the whole. `phase` is the run of edge blocks on threads: each
gets the queues empty, leaves its list in `out`, and the lists are merged. The
reference is history: `want` has, bit by bit, what was last assigned in this
window, `wantAt` what is due in later slots. `spoiled` names the causes for which
the code is known to depart from it (blocking writes between two elided
assignments, blocks that share a signal, dynamic selects, the second queue), and
`LastAssignmentWins` holds of every signal without one of them.

**Interrupt.** Four actors: the handler (three steps after the exchange on
INTERRUPTED), the alarm, the simulation thread and the guard thread.
`acking` is the point between the store of ACKNOWLEDGED and `alarm(0)`,
`rearmed` the point between `alarm(n)` and the second look at ACKNOWLEDGED; these
two are where the ordering argument of `interrupt.rs` lives.
Time is left out: an armed alarm may fire at any moment.

**FstSink.** Three threads, or one (`mode = "inline"`). The simulation thread
posts the changes of a slot to `batch` and hands a full one off; the writer takes
messages from `chan` and packs or flushes; the guard hands off a partial batch, and
asks for the tail of the dump when an interrupt is not taken. A post is its
number. `dump` is `struct Writer`: the open block, what is in the file, and, as
history, what was dropped and which slots a tail has closed. Wall time
is left out: whatever a clock decides may happen or not.

**FstFile.** The file byte by byte. Heads have three bytes instead of nine and
pages eight instead of 4096; the append copies in chunks. A kill in a write that
crosses a page leaves the first pages of it; a failed write leaves any
prefix. `BlockLog` says what a reader is promised: whole blocks, in order, and
those it once found stay.

**ClassHeap.** A handle is the index of a slot, never given out again; `heap` are
the slots that hold an object, `field` is one property of each. Everything the trace visits
(`signal_table` to `cg_type_options`, the queue, the blocked operations'
continuations) is one set, `roots`; what it cannot visit is `frame`, the
native frames of the activation in progress, and `stack`, that of an imported
task that waits. A message is a handle, or a pattern captured at the `put`, of
which the queue has a number only and `captured` (`mbx_patterns`) the content.
A collection is one action, since nothing else runs; where the trace gives up, it has
counted the allocations and done nothing else. Which part of its frame an
activation leaves in traced state when it parks is left open.

**Checkpoint.** The fields of the simulator are five: the event queue, the
processes that have ended and `delayed_nba`, which the list of
`checkpoint_state!` names; the suspended processes and `delayed_nba_queue`, which
it does not. What an abandoned run left in `delayed_nba_queue` may be overdue when
a restore has set the clock; the loop then stays in the slot and applies it
(`ApplyLate`), so that only what this history has put there is promised not to
be passed by the clock. The design writes one file through handles that buffer, so the file
and what the design has written differ, and a restore cuts the file back to
where the handle stood. `tmp` is the file written beside the checkpoint before
it is renamed. A kill may come anywhere, and the program is started again with
or without `--restore`. `owed` and `meant` are history, kept per timeline: a
restore takes them back with the state. `excused` collects what a restore could not put
back for a cause that the model names: a field that is not listed, a file with
two handles, a rewound handle, a checkpoint taken with no handle open (nothing is then cut back, and what
was written after the save stays), a file that could not be opened.

## 3. What the runs check

| Run | Bounds | States | What it shows |
|---|---|---|---|
| `wheel_one` | 2 processes, times 0..5, 4 slots in 2 words, 2 entries at once | 72 688 | `TimingWheel` refines `EventQueue` (`ImplementsEventQueue`); next time, emptiness, counts exact; overflow beyond the window |
| `proc_all` | 3 processes, times 0..1; four designs: `kill` and `suspend` with delays and events or `await`, `disable fork` with two more forms of `disable` and `suspend` over the other lists | 1 074 236 | one continuation, none lost, the finished wait nowhere, no join or await on the dead, the tree follows the forks, a killed process never starts |
| `sem_all` | 3 processes, 3 keys | 235 244 | keys conserved, order of service, no lost wakeup but by removal of the head |
| `box_all` | 4 processes, bound none, 1 or 2, 7 puts | 316 904 | nothing lost or doubled, no one sleeps beside a message or a place, whatever form of put; order and bound where only statements are used |
| `slot` | 3 processes, 2 slots; five designs: all effects and places, a program block with deferred reports, a limit of one tick, waits on a property beside waits on `x`, processes that are put off after two activations; 3 activations that do something, 5 for the waits on a property, 6 with a limit | 1 179 653 | continuations kept (`WaitsOnce`); the NBA region comes when Active and Inactive are done (`ActiveIsDone`); nothing in any list (`SlotIsEmpty`) and no true wait missed (`NoTrueWaitLeft`) when time moves; every run ends |
| `nba` | 2 signals of 2 bits, 2 blocks, 3 assignments in a window | 2 483 443 | `LastAssignmentWins`; the index, the elision and the delayed queues agree with it |
| `int_threads` | one interrupt, handler on either thread | 5 580 | `InterruptAnswered`, `CloseEnds`, and on the simulation's own thread `BackstopOffOnOwnThread`, `LoopsInFullOnOwnThread` |
| `fst_sink` | batches of 3, 3 posts, 2 slots | 874 607 | order, completeness at the close, the tail covers the run, every post reaches the file |
| `fst_file` | 3 blocks, lengths 4, 5, 7, every offset in a page | 178 522 | `Readable` after a kill anywhere; final totals only in a complete file; `FstFile` refines `BlockLog` |
| `class_heap` | 3 objects, at most one a mailbox of one place, 2 messages, one handle in frames; a collection at every advance, or an imported task | 1 295 956 | `NothingReachableFreed`, with the patterns of all messages; `GarbageGoes` |
| `ckpt` | 2 processes, 4 slots (5 where an assignment may be overdue), 2 lines, 2 handles, 2 restores, 2 starts | 3 600 283 | `ContinuesAsSaved`, `OutputAsSaved`, `SavesAreWhole` |
| `ckpt_processes` | the same | | a suspended process is lost by a restore |

Why these bounds are enough to meet the hard cases. *Wheel*: six times over four
slots in words of two bits, so the scan needs all of its phases, the window
turns past the end of the array, and entries enter it from the overflow; two
entries suffice for every order question. *Processes*: three allow parent, child and
grandchild, or two siblings and a parent; `MCProcessControl_fork.cfg` is a larger
instance, of four, with a grandchild beside a sibling and a chain of four. One
step of time suffices to have a delay expire while its process is suspended.
*Semaphore*: three processes with requests of 0 to 3 keys put a large request
before a small one. *Mailbox*: four processes park two consumers, or two producers
and a peeker, with one left to act; 7 puts fill the box of two, park producers
and drain it twice. *Time slot*: three activations let one process wait, a second make the
wait true from any pass, and a third undo it; the second slot is where work left
behind would show. Five let two processes wait on the property and on `x` in turn while a
third writes both, one of the notes being taken by a round that was meant for the other;
six under a limit of two let a process be put off in each region that runs one, also
with a wait or a `#0` continuation of another behind it. *Assignments*: three in a window are one whole, one
in part and one that restores the old value, over two bits so that a part is
not the whole. *Interrupt*: finite without bounds. *Sink*: three posts and
batches of three make batches handed off full, partial and empty, and a slot
split over two. *File*: eight offsets and a page of eight put every boundary at every byte
of terminator, body and head. *Checkpoint*: two requests in a slot are
a save and a restart in either order; two restores and two starts include a restart,
a kill and a `--restore` of the same checkpoint.

*Class heap*: three objects make a mailbox with two objects in it, a cycle, and
an old object that holds a new one across two collections; a mailbox of one place
and two messages are one queued and one parked; two collections need the
survivors of the first, and one that fails leaves the newcomers to the second.

Runs that turn off the check for deadlock are those whose system may stop: a
design with every process waiting, a program that has ended.

Fairness. *Interrupt*: the kernel runs the handler it has started, delivers
a pending alarm, and schedules the guard thread, and `Exit` follows once
the guard is joined. Nothing is assumed of the simulation thread in a slot or a
`final` block, which may be stuck in a DPI call; `InterruptAnswered` then rests on the
backstop. It allows the process to end without finalizing: an interrupt after
`$finish` is never acknowledged (`take_interrupt` returns when `finished`), and
its alarm may fire during finalization. *FstSink*: each of the writer and the
guard is scheduled, and a `close` that was begun goes on; the
simulation may stay in a slot for ever, so that `ReachesFile` rests on
the guard alone. *TimeSlot*: the loop goes on (weak fairness of `Next`); that
the passes end is then a matter of the rounds, which activations bound.

What the properties of `slot` except. `ActiveIsDone` allows for a process that
was put off: the code leaves Active with it in the queue, and whatever is queued behind it,
and goes on to the NBA region. It is asked at the drain before the commit, not at the
commit: what that drain wakes may queue work (`NbaAfterActive` below). `SlotIsEmpty`
is not asked when a livelock is broken, at either place, since what is stuck is then moved on purpose.
`NoTrueWaitLeft` is not asked of a slot that ends while a process is put off: the drains
of waits were skipped; it is asked of one that ends at the limit of ticks. Of
a wait on `x` it says that it is false or that a re-pass has looked at it in this slot, for the code
looks no second time; of a wait on a property that it is false.

### Disagreements between the code and its texts

The run `ckpt_processes` ends in a counterexample of what the guide says of a
checkpoint; the finding in `PROJECT.json` quotes it. These
configurations end in one as well: `tlc -config <name>.cfg <module>` shows the trace.

| Configuration | Refutes | Text |
|---|---|---|
| `MCProcessControl_v_disablefork` | `DisableForkTakesAll`: `disable fork` misses the child of a child terminated by `disable <label>`: the tree was not mended | `statements.rs:5796` |
| `MCSemaphore_v_kill` | `OldestMustWait`: the oldest waiter, too large for the keys, is killed; the next fits and stays parked | `processes.rs:3955` |
| `MCMailbox_v_handoff` | `NobodyBesideMessage`: the `put` of `calls.rs` wakes a peeker and leaves a getter parked beside the message | `construction.rs:3366` |
| `MCInterrupt_v_final` | `FinalInFull`: the handler, on another thread, sets LOOP_STOP after `end_loop_stop`, and a `final` loop is cut; with the handler on the simulation thread and `Randomizes`, `randomize()` still polls INTERRUPTED | `interrupt.rs:23` |
| `MCTimeSlot_v_erased` | `NoEdgeErased`: a snapshot taken for one pass counts a write as seen that no edge block was shown | `event_loop.rs:327`, `simulator.rs:8357` |
| `MCTimeSlot_v_late` | `NbaAfterActive`: a write by a condition waiter in the last cascade of a slot is found by the first drain of `#0` in the next; whom it wakes parks again, and the assignments commit with work queued | `event_loop.rs:267`, `event_loop.rs:312` |
| `MCTimeSlot_v_twice` | `DeferInTime`: the limit of ticks and a process that is put off meet in one turn of the loop; the first moves the clock, then the request, now stale, moves it again, past what was due there, or ends the run where nothing is ahead | `event_loop.rs:2463` |
| `MCNonBlocking_v_dyn` | `DynLastWins`: a dynamic select whose value equals the table's is left out though another is pending | `bytecode_runtime.rs:4489` |
| `MCFstSink_v_dropped` | `DroppedOnlyAfterTail`: a change is dropped after a flush in the middle of a slot, without a tail | `fst_sink.rs:188` |
| `MCFstFile_v_bytes` | `FinishedByteForByte`: a finished dump keeps its pads, even an empty one | `fst_sink.rs:677` |

For the rest take the configuration on the left, with these values and the
property in place of its own.

| From | Values | Refutes | Text |
|---|---|---|---|
| `MCProcessControl_all` | MaxTime 0, Usages `{{"event", "kill"}}` | `KilledDoesNothing`: a process that kills itself goes on | `process_control.rs:175` |
| | Roots 2, MaxTime 0, `{{"suspend"}}` | `SuspendedDoesNotRun`: `suspend` misses a process that a pass has taken | `process_control.rs:255` |
| | Roots 2, MaxTime 0, `{{"event", "suspend"}}` | `ResumeReturnsToWait`: `resume` runs a process past its event | `process_control.rs:379` |
| | Roots 2, MaxTime 0, `{{"event", "await", "task"}}` | `NoStuckAwait`: `disable <task>` wakes no `await` | `process_control.rs:230` |
| | MaxTime 0, `{{"event"}}` | `WaitForkImmediate`, `WaitForkDescendants`: grandchildren that were moved up are waited for | `processes.rs:5535`, `simulator.rs:1732` |
| `MCSemaphore_all` | `{}` | `NoBarging`: a running process takes keys ahead of a parked one | `mailboxes.rs:25` |
| | `{"suspend"}` | `GetsArePaid`: `resume` out of `get` takes no keys | `processes.rs:3955` |
| `MCMailbox_all` | Bounds `{0}`, `{"expression"}` | `AllInOrder`: an expression's `put` overtakes a peeked message | `calls.rs:1450` |
| | Bounds `{1}`, `{"synchronous"}` | `AllWithinBound`: a `put` that cannot park overfills | `simulator.rs:7820` |
| | Bounds `{1}`, `{"kill"}` | `KilledPutsNothing`: the message of a killed producer is delivered | `process_control.rs:193` |
| `MCInterrupt_v_final` | | `BackstopOffOnceTaken`: a handler on another thread arms last | `interrupt.rs:121` |
| `MCTimingWheel_one` | MaxTime 4, WheelSize 2, WordBits 1, OnePerPid FALSE | `RemovePidRemovesAll`: one entry of two is removed | `simulator.rs:3584` |
| | MaxTime 6 | `LastPopFrontExact`: after a front entry was removed | `simulator.rs:3197` |
| `MCTimeSlot_v_erased` | | `TriggerInSlot`: a `->>` of a late pass fires in the next slot | `statements.rs:6341` |
| | | `StrobeInSlot`: a `$strobe` of a late pass prints in the next slot | `tests/scheduling/nested_delay_slot_servicing.rs:1` |
| | | `EdgeInSlot`: a waiter of `@x` is left waiting when the slot of the change ends | `event_loop.rs:276` |
| | | `NbaAfterInactive`: an assignment made by a cascade commits before `#0` | `event_loop.rs:312` |
| | | `HopSees`: `@(nba)` returns before the assignment it awaits | `simulator.rs:9116` |
| `MCNonBlocking_all` | | `OneWriterWins`: of one signal, with one writer | `two_state.rs:5906` |

Seen while the modules were written, in texts that no property states: the
comments of `promote_inactive_to_active` (`event_loop.rs:232`) and of
`inactive_queue` (`simulator.rs:9104`) say that `#0` continuations go on after
the assignments were applied, whereas the loop promotes them before (`drain_inactive_pre_nba`);
deferred reports mature in a later slot after the livelock breaker has moved the clock;
a named event is a bit that toggles, so that two `-> ev` between two checks
wake nobody. In `checkpoint.rs`: `pending_strobes` and `pending_nba_triggers` are not listed
either; a handle restored in append mode writes at its position; a `--save-at`
that is due in the slot of a `$restart` saves the restored state, under
the later time; and a restart that fails while it opens files leaves the
state replaced, while the loop goes on to the time that it had found before.

## 4. What is proved

TLAPS checks these for every value of the constants; the only assumptions
are the named ones on constants, which TLC evaluates in each run.

* `TimingWheelProofs!WindowIsExclusive` (`OverflowBeyondWindow`): inductive
  together with the types of the two clocks and of the overflow map. The
  argument is about windows, not about the wheel's size: an entry goes to the
  overflow only at or beyond `currentTime + WheelSize`, and `currentTime` moves
  only with `move_overflow_into_wheel`, which takes out all that the new window
  covers (lemma `WindowAdvances`).
* `TimingWheelProofs!TheWheelIsAQueue` (`ImplementsEventQueue`), `TheIndexes`
  (`IndexesAgree`) and `NothingIsLeftBehind` (`EQ!NothingLeftBehind`), for a wheel
  and words of any size and any times, when a process is scheduled only while it
  has no entry (`OnePerPid`, which is TRUE in the run, and which `ProcessWaitsOnce`
  proves of the callers). `IInv` says where the list of a time is: in its slot, when
  it is in the window, else in the overflow map, and a slot has its bit set when its list is
  not empty (`Shape`); that nothing waits before the clock; that the memo is unknown or the first time; and
  that no process has two entries, queued or taken, which is what makes
  `pid_counts` exact. Each call has a lemma that it keeps `IInv` and is the step of
  the queue (`ScheduleStep`, ..., `RemovePidStep`); `PutIs` and `ReplaceOne` say what a
  change of one list does to all times, `WindowMoves` that
  `move_overflow_into_wheel` changes the list of no time. `FoundIsNearest` goes through
  the three phases of `next_time_scan` (the rest of the first word, the later
  words, the first word again), and `ScanFinds` concludes that the slot found is that of the first time.
  The refinement needs that the rest of a list without one process is the same
  list whether `remove_pid` scans it or takes out one entry (`OneTakenOut`).
* `ProcessControlProofs!JoinsNeverStuck` (`NoStuckJoin`), for any number of
  processes and any mixture of operations. The property alone does not survive
  a step: a waiter could list a terminated child that no later completion will
  record, or a process not yet created that a later fork makes someone else's
  child. `IInv` excludes both: `JoinsOK` says that every terminated child is
  recorded and that no waiter left in the list has its condition met;
  `TreeOK` and `WaitingAreCreated` say that the tree and the lists hold created
  processes only, and that no terminated process is still in the tree.
  `AwaitNeverStuck` (`NoStuckAwait`) assumes that no design uses both `await` and
  `disable <task>`; a design that lacks the first has nobody who awaits
  (`NobodyAwaits`), and without the second every termination wakes.
* `ProcessControlProofs!ProcessWaitsOnce` (`WaitsOnce`), `FinishedWaitsNowhere`
  (`FinishedIsDone`) and `KilledStaysDown` (`KilledNeverStarts`), for any number
  of processes and times and any mixture of operations. `IInv` is strengthened by
  `HInv`: the seven kinds of place are disjoint (`Exclusive`), a process is in
  each at most once (`OnceInQueue` and so on), `suspended_pids` and
  `suspended_proc_info` agree (`Turns`), who has not ended is somewhere, and who
  has finished is nowhere. Each operation has its lemma (`KillKeeps`,
  `SuspendKeeps`, ...). The last conjunct is what makes the rest inductive: a
  process that waits for a join or in a list can only be put back in the queue once,
  because what wakes it takes it out of its place in the same step. That a
  killed process is left in a list that nobody searched (`mailbox_put` by
  `disable`) does not matter: it is in that one place only, and does not start.
  The types of the histories and of the queue (`TypesLeft`) go with it; the least
  time of a nonempty set (`MinExists`) comes from the well-foundedness of `<`.
* `ProcessControlProofs!ForksFormTheTree` (`TreeFollowsForks`), for any number of
  processes. `NearestAncestor` is a recursive function over the history of the
  forks. That it exists, and what each step does to it, is shown by induction on
  the process number, since a process is forked by one with a smaller number
  (`Upward`): `AfterFinish`, `AfterKill` and `AfterFork` say how the function
  changes, `NearestAncestorIs` ties them to the definition. With `HInv` the
  invariant is `TreeInv`: the forks go upward, the map follows them, and who just
  returned had not finished before unless it was killed, so that `child_finished`
  does not pass children on twice.
* `SemaphoreProofs!TypeInvariance` (the key count is never negative),
  `NoWakeupLost` (`WaitsForKeys`), inductive with the types, and
  `FirstComeFirstServed` (`NoneOvertaken`). The last needs that a process is queued once
  (`QueueOK`); then it is a matter of the three forms a change of the queue
  takes: a request appended (`LastInOrder`), a prefix served (`PutKeepsOrder`),
  one request taken out by kill or suspend (`LeavingKeepsOrder`).
  `NoKeyIsLost` (`KeysConserved`) needs the processes to be finitely many
  (`ProcsAssumption`), as those of a design are. `FoldFunction` takes the elements in an
  order of its own: that the function it is made of exists (`SumsExist`) and that
  any element may be taken first (`AnyFirst`) is shown by induction on the size of the
  set, from the well-foundedness of `<`; then one value raised raises the sum
  (`SumRaised`). `PutConserves` goes along the waiters that a put serves, and uses
  `QueueOK` again: a process queued twice would be lent one request for two
  decrements.
* `MailboxProofs`: `EveryMessageOnce` (`EachOnce`), `NobodySleepsInVain`
  (`NobodyWaitsInVain`), `BoundIsKept` (`WithinBound`) and
  `FirstComeFirstServed` (`ServedInOrder`). One call of the code is a chain of
  changes (deliver, consume, admit, and again), so the proof goes along the chain: what
  a record of the mailbox keeps (`Sound`, `All`, `NoSpace`, `Within`) is shown of
  each link (`AdmitKeeps`, `ConsumeKeeps`, `WakeKeeps`, `DeliverKeeps`), then of the
  loop (`DrainedKeeps`), then of each action. The loop is a recursive function;
  that it exists (`Turns`) and what its last turn keeps are two inductions
  on the number of turns, by `SetInduction`, which comes from the well-foundedness
  of `<`. The strengthening `IInv` adds to the properties that a producer in the
  queue is parked there or was killed, and only once (`PuttersWait`): without it a producer
  that parks could be in the queue twice, and admitting one could wake a process
  that waits to receive. `NoSpace` is what makes the order hold:
  a put that stores finds no producer parked. That receivers are
  served in order needs no history: a drain leaves a suffix of the queue
  (last conjunct of `DrainedKeeps`).
* `RunProofs` holds the proofs about a run. Of the dump
  (`FstFile`), for every layout that `LayoutAssumption` admits: `ADumpIsReadable`
  (`Readable`), `TotalsMeanComplete` (`FinalHeaderMeansComplete`) and `TheDumpIsALog`, the
  refinement of `BlockLog`. `FileInv` has a number `c` for the
  blocks that count: up to its terminator the dump holds the first `c`, the stage
  behind `staged` holds the others (`StageOK`, `DumpOK`), and what an
  append has copied so far stands behind the terminator as it stands in the stage (`AppendOK`).
  Hence a write of a body or of the next terminator, whole or cut short, changes nothing
  that can be read (`WriteBehind`), and the write of the first body's head makes
  all of it readable at once (`HeadWritten`); that write lies in one page, so a kill
  lets all of it through or nothing (`PartCommitsNothing`, `KillStep`). What a
  reader finds is a recursive function of the bytes: `StretchIsRead` says what it is for
  bytes that are whole items (`Stretch`), by induction from their end, and from there on the proof
  is about stretches, which can be joined and moved (`StretchesJoin`, `StretchMoves`).
  After a kill `DeadOK` keeps only what a reader finds.
* `RunProofs!BackstopNeverOutlives` and `FinalLoopsRunInFull` are about
  `Interrupt` (the instance `Stop`): on the simulation's own thread the handler is
  done before the thread can take the interrupt (`TakenAfterHandler`), so the alarm
  it arms and the flag it sets are older than `alarm(0)` and `end_loop_stop`.
  `StopTypes` gives the types.
* `RunProofs!WaitsOnceHolds` (`WaitsOnce`), `ActiveComesFirst` (`ActiveIsDone`),
  `SlotEndsEmpty` (`SlotIsEmpty`) and `WaitsAreSeen` (`NoTrueWaitLeft`) are about
  `TimeSlot` (the instance `Slot`), for any number of processes, times and designs.
  The invariant `SlotWhole` is `SlotTypes`, `SlotInv`, `Here`, `DeferInv` and `NoteInv`, kept by
  each action (`WholeStep`).

  `SlotInv` is about the stack. No property of the end of a slot is inductive, because
  in the middle of a slot nearly every list may hold something; what holds there is that
  a pass which will take it is still to come. `ShapeOf` says what may lie below each
  stage (`Fits`) and what right below it (`Adj`), `Tops` what there is to do when a
  stage is the next, and `Owed`, list by list, which stages to come take what waits: a
  `clocking` continuation has a drain of them ahead, or a late pass with one
  (`Again`); a wait that was not looked at, or a property that was written, has a round ahead
  (`Seen`). When a process is put off the rounds that are owed do not come, so the whole is
  asked only while none is (`Due`). When only the last
  stage, `loop`, is left, `Owed` leaves to it what the main loop finds by itself, and
  that is `SlotIsEmpty`. An activation may leave anything anywhere, so a stage that runs
  processes lies above the passes of every list; there is one lemma for each stage.

  `DeferInv` is what the exception in `ActiveComesFirst` rests on: while the flag is up, a
  process that has used up its activations is queued for now, from the moment it is put
  back to the break of the livelock, because no stage that takes from the queue of now runs
  meanwhile. `NoteInv` is the argument that the gate leaves nobody asleep: a parked wait on a
  property that is true is there only while the property is noted. It parks false; the write
  that makes it true notes the name in the same step; and a round that takes the notes takes
  these waits with them (`WaitRoundMarks`). With `Seen` no note is left when a slot ends.

  `Here` says that each process has one place: there is a function from processes
  to places such that each list has just those who are in it, once (`Placed`). A pass
  moves a set of processes from one place to another (`Move`, `Shift`), so the step
  of an action is which set, from where, to where, and no entries have to be
  counted. A list is split by `Only`, a recursive function of its length; that it
  exists and keeps order and members are inductions (`StepsExist`, `OnlyIs`).
* `StorageProofs!ReachableIsKept` (`NothingReachableFreed`), `PatternsAreKept`
  (`MessagesWhole`) and `GarbageIsTaken` (`GarbageGoes`), for any number of objects
  and messages. That every reachable handle names an object is not inductive: a
  collection may leave half of a dead structure only if it also clears what
  points into the other half. `IInv` therefore speaks of all objects,
  reachable or not: what an object, a root, a frame or a message holds is an
  object (`HeldAreObjects`), and every object is a survivor or a newcomer
  (`Listed`), so that the scan, although it looks at these only, follows every edge
  (`MarkedIsClosed`). `PatternsOK` says that patterns and messages
  correspond, `FramesOK` that at a safe point no frame and no foreign stack
  holds anything, whence what is marked is what is reachable
  (`MarkedIsReachable`, `CollectKeeps`).
* `StorageProofs!QueuesMeant` (`QueuesAreMeant`) and `LastWins`
  (`LastAssignmentWins`), for any signals, bits, blocks, times and designs.
  `LastAssignmentWins` speaks of one step, `Apply`, whose result depends on
  everything that is pending; so `NbaInv` says, after each
  assignment, what `Apply` would leave. Its first part, `WindowOK`, is about the
  window: the index has the last entry of each signal (`IndexOK`), else a merge would
  change an entry that a later one overwrites; threads run blocks that share no signal
  (`ThreadsOK`); a signal that was not assigned has no entry anywhere (`AssignedOK`);
  and bit by bit, what the queue makes of a signal's last entry is what was assigned
  (`MeantOK`), of the thread that has entries of it while threads run.
  Its second part, `DelayOK`, is about later slots: no entry is behind the clock, each
  expected value has an entry, and one that comes alone brings the value that is expected
  (`Delivers`).

  The three functions that take what is due are loops: `Matured`, which removes by
  `swap_remove` and so reorders the list while it is scanned, `CommitQueue` and `Sifted`.
  Each is shown to exist and to have the values of its steps (`StepsExist`), and what it
  leaves is an induction on the steps. `MaturedIs` needs of the scan that each entry that is
  not due stays, from where it was, that all before `at` are not due, and that a
  signal is untouched only while all that is due for it is ahead (`ScanKnows`); the
  order among several that are due for one signal is not known, which is why
  `LastAssignmentWins` leaves out a slot with two of them (`MeetsDelayed`). `SiftedIs` gives the places that entries came from, in order;
  `CommitEnds` says that the last part assigned to a bit is what the bit ends with.
  Then a signal has something due in one of the lists only (`DueCases`), and each case has its
  lemma (`LeavesAssigned`, `LeavesDelayed`, `LeavesQueued`). `ScheduleIs` does the
  elision: an entry left out is one whose value is what the queues leave anyway.
* `FstSinkProofs`: `ChangesStayInOrder` (`ChannelKept`), `CloseWritesAll`
  (`CloseIsComplete`) and `TailMeansWritten` (`TailCoversTheRun`), for any number of
  posts, slots and any size of a batch. A post is in one of the places that it
  passes through in order: written, in the batch of the writer thread, in the channel, in the
  pending batch; or it was dropped. `IInv` says that these places in
  this order are the posts in the order in which they were made, and what each
  thread has done at each step of its program, so that the writer is known to be past
  what a close or a tail waits for; what stands behind a tail belongs to later slots.
* `CheckpointProofs`: `RestoredRunContinues` (`ContinuesAsSaved`),
  `ACheckpointStays` (`SavesAreWhole`) and `OutputIsAsSaved` (`OutputAsSaved`), for any designs, times and numbers of saves,
  restores and kills. The invariant is about three states at once: the run, the
  checkpoint of that name and the file written beside it are each `Sound` in
  their own time, with what each has excused. Two parts make it inductive:
  what lies ahead lies strictly ahead (`Ahead`), so that `ApplyLate` finds only what
  an abandoned run left, and the time that the loop found before it served requests is
  still the next time unless a `$restart` replaced the state (`NextIsNext`).

  Of the file, `FileInv` says that the disk, once flushed, is what was meant to be
  written, in the run and in every checkpoint, unless a cause is known. It needs that
  at most one handle buffers and that it is alone (`OneBuffers`: `open_file_path` makes
  both write through), that a handle for appending that was opened again, which is no longer
  in append mode, stands at the end, and that lines written one by one end up where the
  buffer that holds them is put at once (`PutAfter`). What a flush or a reopening does
  handle by handle is a recursive function, whose existence is proved (`StepsExist`).

Every invariant and every action property of the passing runs is proved. Only
model-checked are the liveness properties `RunEnds`, `InterruptAnswered`,
`ReachesFile` and the two called `CloseEnds`: the prover has no liveness under fairness
and no `ENABLED`. The runs that find a violation are the other side of it, statements that
the code does not keep.

## 5. Not modelled, and the plan

Left out on purpose: values and expressions (bytecode, JIT, AOT, the constraint
solver), timing checks and path delays (arithmetic), the value formats of the
dumps and VCD, foreign interfaces (VPI and DPI; their calls are steps of the running process,
and of imported tasks there is what `ClassHeap` says of their stacks), and parsing
and elaboration.

Within the modelled parts:

* *Process control*: the reactive lists of `program` blocks, `disable` of a block
  of another instance, waiters that live in compiled (JIT) code.
* *Semaphore*: a negative number of keys.
* *Time slot*: the rounds of VPI callbacks and assertions that run processes too and heed
  `zero_delay_defer_pending` (`vpi_cb.rs:780`); the conditions that compare anything but one signal or
  one property, and `.triggered`; clock generators, continuous assignments and the settle loop,
  delayed signal updates, VPI callbacks, the waits of `##N`, guards
  (`iff`) of event controls; concurrent assertions, samples and output skews. Of
  named events the index of waiters by object.
* *Assignments*: `packed_nba`, `x` and `z`, widths and conversions.
* *Dump*: the direct output, a head begun in place, the content of the time
  table and the repack. A power failure: the code synchronises a file in the repack only,
  and what the kill of a process leaves is what was written.
* *Class heap*: which of the simulator's fields can hold a handle: the
  trace is taken to visit all of them, so a field missing from
  `trace_class_runtime_roots` would not be seen here. A number that equals a handle, which
  keeps an object for nothing; typed properties that hold no handles; the storage
  of arrays of an object; messages that are unpacked structs, whose members are in variables
  named after the message (`mbx_stash_struct`) and are roots; `semaphores`.
* *Checkpoint*: the addresses of statement lists, native frames, the digests of
  build and design (a head that is refused is `RestartRefused`), the audit.

Next, in this order:

1. `NamedEvents`: the index of `InstanceEventWaiters`, trigger against wait in
   the same slot, removal of waiters by kill.
2. A composition of `ProcessControl` with `Semaphore` and `Mailbox`, to show that the
   merged `sync_get` place is a sound abstraction.
3. Clock generators, continuous assignments and delayed updates in `TimeSlot`, and
   its composition with `NonBlocking`: the passes there, the queues here.
