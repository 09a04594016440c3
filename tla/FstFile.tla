-------------------------------- MODULE FstFile --------------------------------
(***************************************************************************)
(* The crash-safe output of an FST dump (`Staged` in fst_sink.rs).  The    *)
(* block writer fills a stage in memory; `commit` moves every finished     *)
(* block into the dump with three kinds of writes: the bodies behind the   *)
(* terminator at which readers stop, a new terminator behind them, and at  *)
(* last the nine bytes of the first head over the old terminator.  The     *)
(* process may be killed at any point: a write that crosses a page         *)
(* boundary of the file then lands in part.  A write may also fail.        *)
(*                                                                         *)
(* A byte is a record: its item (a block by number, a terminator, a pad),  *)
(* its place in the item and the item's length, which a head states.       *)
(***************************************************************************)
EXTENDS Integers, Sequences, FiniteSets

CONSTANTS TermLen,    \* bytes of a block head and of a terminator (9)
          Page,       \* bytes of a page (4096)
          Chunk,      \* bytes of the copy buffer (COPY_CHUNK)
          Bases,      \* lengths of header, hierarchy and geometry
          Sizes,      \* lengths of a block
          MaxBlocks   \* bound: blocks of the model

ASSUME LayoutAssumption ==
    /\ TermLen \in Nat \ {0} /\ Page \in Nat /\ Page > 2 * TermLen
    /\ Chunk \in Nat \ {0} /\ MaxBlocks \in Nat
    /\ Bases \subseteq Nat /\ Sizes \subseteq Nat
    /\ \A n \in Sizes : n > TermLen

VARIABLES
    base,      \* the length of what precedes the first block in the dump
    stage,     \* the bytes of the blocks in the stage
    produced,  \* how many blocks these are
    dump,      \* the bytes of the dump from offset base on
    header,    \* the dump's header: "absent", "open" (no totals), "final"
    staged,    \* stage bytes that are in the dump
    end,       \* offset of the dump's terminator, from base
    at,        \* stage bytes copied, while an append runs
    pc,        \* the next write
    closing,   \* whether finish() runs
    alive      \* whether the process runs

vars == <<base, stage, produced, dump, header, staged, end, at, pc, closing,
          alive>>

-----------------------------------------------------------------------------
(* Bytes.                                                                    *)
TermId == 0
PadId  == -1

\* Item `id` of n bytes.
Item(id, n) == [i \in 1 .. n |-> [of |-> id, at |-> i, len |-> n]]

\* terminator_at: a pad goes before a terminator that would cross a page.
TerminatorAt(o) ==
    IF (base + o) % Page > Page - TermLen
    THEN [bytes |-> Item(PadId, TermLen) \o Item(TermId, TermLen),
          at |-> o + TermLen]
    ELSE [bytes |-> Item(TermId, TermLen), at |-> o]

\* The file f after a write of s at offset o.
WriteAt(f, o, s) ==
    [i \in 1 .. (IF Len(f) > o + Len(s) THEN Len(f) ELSE o + Len(s)) |->
        IF i > o /\ i <= o + Len(s) THEN s[i - o] ELSE f[i]]

\* How much of a write of s at offset o may have landed when it is cut short.
Landed(o, s) == {n \in 0 .. Len(s) - 1 : n = 0 \/ (base + o + n) % Page = 0}

-----------------------------------------------------------------------------
(* What a reader makes of a file: the blocks up to the terminator or the     *)
(* end of the file; ok says that it does not reject the file.                *)
WholeItem(f, p) ==
    LET h == f[p + 1]
    IN  /\ h.at = 1
        /\ p + h.len <= Len(f)
        /\ \A i \in 1 .. h.len : f[p + i] = [h EXCEPT !.at = i]

ReadFile(f) ==
    LET From[p \in 0 .. Len(f)] ==
            IF p = Len(f) THEN [ok |-> TRUE, blocks |-> <<>>]
            ELSE IF ~WholeItem(f, p) THEN [ok |-> FALSE, blocks |-> <<>>]
            ELSE IF f[p + 1].of = TermId THEN [ok |-> TRUE, blocks |-> <<>>]
            ELSE LET rest == From[p + f[p + 1].len]
                 IN  IF f[p + 1].of = PadId THEN rest
                     ELSE [rest EXCEPT !.blocks = <<f[p + 1].of>> \o @]
    IN  From[0]

Blocks == ReadFile(dump).blocks
-----------------------------------------------------------------------------
TypeOK ==
    /\ base \in Bases
    /\ produced \in 0 .. MaxBlocks
    /\ header \in {"absent", "open", "final"}
    /\ staged \in 0 .. Len(stage) /\ at \in 0 .. Len(stage)
    /\ end \in 0 .. Len(dump)
    /\ pc \in {"begin", "run", "copy", "term", "head", "header", "truncate",
               "closed", "gave_up"}
    /\ closing \in BOOLEAN /\ alive \in BOOLEAN

Init == /\ base \in Bases
        /\ stage = <<>> /\ produced = 0
        /\ dump = <<>> /\ header = "absent"
        /\ staged = 0 /\ end = 0 /\ at = 0
        /\ pc = "begin"
        /\ closing = FALSE
        /\ alive = TRUE

\* begin: the header goes in by a rename, or not at all.
Begin ==
    /\ alive /\ pc = "begin"
    /\ pc' = "run"
    /\ \/ /\ dump' = TerminatorAt(0).bytes
          /\ end' = TerminatorAt(0).at
          /\ header' = "open"
       \/ UNCHANGED <<dump, end, header>>
    /\ UNCHANGED <<base, stage, produced, staged, at, closing, alive>>

\* Mutant: the head goes in with the body, as fst-writer's own order would be.
StartCommitHeadFirst(s) ==
    IF header = "absent" THEN at' = at /\ pc' = IF closing' THEN "gave_up" ELSE "run"
    ELSE IF Len(s) = staged THEN at' = at /\ pc' = IF closing' THEN "header" ELSE "run"
    ELSE at' = staged /\ pc' = "copy"

\* The first write of a commit, given the stage it finds; without a dump, or
\* with nothing new in the stage, it returns and finish goes on.
StartCommit(s) ==
    LET body == staged + TermLen
    IN  IF header = "absent" THEN at' = at /\ pc' = IF closing' THEN "gave_up" ELSE "run"
        ELSE IF Len(s) = staged THEN at' = at /\ pc' = IF closing' THEN "header" ELSE "run"
        ELSE at' = body /\ pc' = "copy"

\* fst-writer has written one more block into the stage, by a flush or, the
\* last one, by its own finish.  The bound is MaxBlocks.
FlushBlock ==
    /\ alive /\ pc = "run" /\ produced < MaxBlocks
    /\ \E n \in Sizes : stage' = stage \o Item(produced + 1, n)
    /\ produced' = produced + 1
    /\ closing' \in BOOLEAN
    /\ StartCommit(stage')
    /\ UNCHANGED <<base, dump, header, staged, end, alive>>

\* finish with no open block.
FinishEmpty ==
    /\ alive /\ pc = "run"
    /\ closing' = TRUE
    /\ StartCommit(stage)
    /\ UNCHANGED <<base, stage, produced, dump, header, staged, end, alive>>

\* The next write of an append: where it goes and its bytes.
NextWrite ==
    LET tail == end + Len(stage) - staged
        upto == IF at + Chunk < Len(stage) THEN at + Chunk ELSE Len(stage)
    IN  CASE pc = "copy" -> [to |-> end + at - staged,
                             bytes |-> SubSeq(stage, at + 1, upto)]
          [] pc = "term" -> [to |-> tail, bytes |-> TerminatorAt(tail).bytes]
          [] pc = "head" -> [to |-> end,
                             bytes |-> SubSeq(stage, staged + 1, staged + TermLen)]

Writing == pc \in {"copy", "term", "head"}

WriteLands == dump' = WriteAt(dump, NextWrite.to, NextWrite.bytes)

CopyPiece ==
    /\ alive /\ pc = "copy"
    /\ WriteLands
    /\ at' = at + Len(NextWrite.bytes)
    /\ pc' = IF at' = Len(stage) THEN "term" ELSE "copy"
    /\ UNCHANGED <<base, stage, produced, header, staged, end, closing, alive>>

WriteTerminator ==
    /\ alive /\ pc = "term"
    /\ WriteLands
    /\ pc' = "head"
    /\ UNCHANGED <<base, stage, produced, header, staged, end, at, closing, alive>>

\* The commit.
WriteHead ==
    /\ alive /\ pc = "head"
    /\ WriteLands
    /\ end' = TerminatorAt(end + Len(stage) - staged).at
    /\ staged' = Len(stage)
    /\ pc' = IF closing THEN "header" ELSE "run"
    /\ UNCHANGED <<base, stage, produced, header, at, closing, alive>>

\* What a failed write leaves of itself.
FailedWrite ==
    /\ alive /\ Writing
    /\ \E n \in Landed(NextWrite.to, NextWrite.bytes) :
          dump' = WriteAt(dump, NextWrite.to, SubSeq(NextWrite.bytes, 1, n))

\* Mutant: finish() goes on to the header after an append that failed.
WriteFailsIgnored ==
    /\ FailedWrite
    /\ pc' = IF closing THEN "header" ELSE "run"
    /\ UNCHANGED <<base, stage, produced, header, staged, end, at, closing, alive>>

\* Mutant: the stage bytes count as moved although the append failed.
WriteFailsCounted ==
    /\ FailedWrite
    /\ pc' = IF closing THEN "gave_up" ELSE "run"
    /\ staged' = Len(stage)
    /\ UNCHANGED <<base, stage, produced, header, end, at, closing, alive>>

\* A write fails, perhaps after a part of it: the append returns the error,
\* which is reported once; nothing that it has copied counts.
WriteFails ==
    /\ FailedWrite
    /\ pc' = IF closing THEN "gave_up" ELSE "run"
    /\ UNCHANGED <<base, stage, produced, header, staged, end, at, closing, alive>>

\* The final header, one write inside the first page, then the terminator goes.
WriteHeader ==
    /\ alive /\ pc = "header"
    /\ \/ header' = "final" /\ pc' = "truncate"
       \/ header' = header /\ pc' = "gave_up"
    /\ UNCHANGED <<base, stage, produced, dump, staged, end, at, closing, alive>>

Truncate ==
    /\ alive /\ pc = "truncate"
    /\ \/ dump' = SubSeq(dump, 1, end) /\ pc' = "closed"
       \/ dump' = dump /\ pc' = "gave_up"
    /\ UNCHANGED <<base, stage, produced, header, staged, end, at, closing, alive>>

\* SIGKILL, the out-of-memory killer or the second Ctrl-C, in a write or
\* between two.
Kill ==
    /\ alive
    /\ alive' = FALSE
    /\ \/ dump' = dump
       \/ /\ Writing
          /\ \E n \in Landed(NextWrite.to, NextWrite.bytes)
                      \cup {Len(NextWrite.bytes)} :
                dump' = WriteAt(dump, NextWrite.to, SubSeq(NextWrite.bytes, 1, n))
    /\ UNCHANGED <<base, stage, produced, header, staged, end, at, pc, closing>>

Next == \/ Begin \/ FlushBlock \/ FinishEmpty
        \/ CopyPiece \/ WriteTerminator \/ WriteHead \/ WriteFails
        \/ WriteHeader \/ Truncate
        \/ Kill

Spec == Init /\ [][Next]_vars
-----------------------------------------------------------------------------
(* Properties.                                                               *)

\* Whenever the run dies, and whatever part of a write the kill lets through,
\* a reader accepts the file: it finds whole items up to a terminator
\* (fst_sink.rs, "crash-safe output").
ReaderAccepts == header # "absent" => ReadFile(dump).ok

\* The terminator, which the commit overwrites in one write, lies within a page:
\* otherwise a kill could split the commit (terminator_at).
TerminatorInOnePage ==
    (header # "absent" /\ pc # "closed")
        => /\ (base + end) % Page <= Page - TermLen
           /\ alive => SubSeq(dump, end + 1, end + TermLen) = Item(TermId, TermLen)

\* Together: the file can be read now, and the next write cannot be split so that
\* it could not.
Readable == TypeOK /\ ReaderAccepts /\ TerminatorInOnePage

\* A final header, which states the end time and the totals of the whole run,
\* stands only in a file that holds every block (Staged::finish).
FinalHeaderMeansComplete ==
    header = "final" => Blocks = [i \in 1 .. produced |-> i]

\* What a reader finds grows by whole blocks in their order, also when a
\* failed append is repeated with the next block, and never shrinks.
Log == INSTANCE BlockLog WITH log <- Blocks
ImplementsBlockLog == Log!Spec

\* The comment at fst_sink.rs:678: the finished file is byte for byte what
\* fst-writer would have written.
FinishedByteForByte == pc = "closed" => dump = stage
=============================================================================
