----------------------------- MODULE StableRead -----------------------------
(***************************************************************************)
(* How one named input file is read while others may be writing it.        *)
(* Thirteen functions of the program do this, in three ways:               *)
(*   the startup configuration and the impact inputs: stat the path, open  *)
(*   it, read it, rewind, read it again, stat the handle and the path;     *)
(*   the compiler index: the same, without the look at the path first;     *)
(*   a portable graph: the second reading is compared as it goes, then the *)
(*   path is opened again and that handle is read once more.               *)
(* Any difference is refused.                                              *)
(*                                                                         *)
(* A file's content is a sequence of at most MaxLength blocks; a read      *)
(* takes one block at a time, so a writer can change the file between two  *)
(* blocks.  Writers overwrite a block, truncate and append, or replace the *)
(* path by another file.  The file system's clock advances in ticks, and   *)
(* at most WritesPerTick writes fall into one tick: a modification time    *)
(* tells apart only writes of different ticks.                             *)
(***************************************************************************)
EXTENDS Naturals, Sequences

CONSTANTS
    Blocks,         \* what a block may hold
    Files,          \* the inodes
    FirstFile,      \* the one the path names at first
    FirstContent,   \* what each file holds at first
    MaxLength,      \* blocks in a file
    Maximum,        \* the reader's bound on the blocks it accepts
    MaxWrites,      \* MaxWrites[s]: bound on the writes of writers of style s
    WritesPerTick,  \* writes the modification time may fail to tell apart
    MaxTicks        \* bound on the clock

Styles == {"in_place", "rewrite", "replace"}

ASSUME StableReadAssumption ==
    /\ FirstFile \in Files /\ FirstContent \in [Files -> Seq(Blocks)]
    /\ MaxLength \in Nat /\ Maximum \in Nat
    /\ MaxWrites \in [Styles -> Nat] /\ WritesPerTick \in Nat /\ MaxTicks \in Nat

-----------------------------------------------------------------------------
(* The readers.  looks: the metadata of the path before opening is part of *)
(* the comparison; bounded: a file that is too large is refused before it  *)
(* is read; reopens: the path is opened and read a second time.            *)

Reader(looks, bounded, reopens) == [looks |-> looks, bounded |-> bounded, reopens |-> reopens]

read_stable_configuration == Reader(TRUE, FALSE, FALSE)
read_stable_with == Reader(TRUE, FALSE, FALSE)
read_stable_input == Reader(TRUE, FALSE, FALSE)
read_immutable_with == Reader(FALSE, TRUE, FALSE)
read_portable_graph_with == Reader(FALSE, TRUE, TRUE)
read_portable_graph_v2_with == Reader(FALSE, TRUE, TRUE)
read_portable_graph_v3_with == Reader(FALSE, TRUE, TRUE)
read_portable_graph_v4_with == Reader(FALSE, TRUE, TRUE)
read_portable_graph_v5_with == Reader(FALSE, TRUE, TRUE)
read_portable_graph_v6_with == Reader(FALSE, TRUE, TRUE)
read_portable_graph_v7_with == Reader(FALSE, TRUE, TRUE)
read_portable_graph_v8_with == Reader(FALSE, TRUE, TRUE)
read_portable_graph_v9_with == Reader(FALSE, TRUE, TRUE)

Readers ==
    { read_stable_configuration, read_stable_with, read_stable_input, read_immutable_with,
      read_portable_graph_with, read_portable_graph_v2_with, read_portable_graph_v3_with,
      read_portable_graph_v4_with, read_portable_graph_v5_with, read_portable_graph_v6_with,
      read_portable_graph_v7_with, read_portable_graph_v8_with, read_portable_graph_v9_with }

VARIABLES
    content,    \* content[f]: the blocks of file f
    mtime,      \* mtime[f]: the tick of its last write
    named,      \* the file the path names
    clock,      \* the file system's clock
    recent,     \* writes in the current tick
    writes,     \* writes so far
    style,      \* how this behaviour's writers write
    reader      \* the reading call

fileVars == <<content, mtime, named, clock, recent, writes, style>>
stableVars == <<content, mtime, named, clock, recent, writes, style, reader>>

\* What the comparison of two Metadata values looks at.
Metadata(f) == [ino |-> f, len |-> Len(content[f]), mtime |-> mtime[f]]

\* A call before its first step.  `stats` are the metadata it has taken, in
\* order.  `seen` is a history variable: what the file that was opened first
\* held at each moment since then.
NewReader(kind) ==
    [kind |-> kind, at |-> "start", stats |-> <<>>, file |-> "none", opened |-> "none",
     bytes |-> <<>>, verification |-> <<>>, result |-> "none", seen |-> {}]

StableInit ==
    /\ content = FirstContent /\ named = FirstFile
    /\ mtime = [f \in Files |-> 0]
    /\ style \in Styles
    /\ clock = 0 /\ recent = 0 /\ writes = 0
    /\ \E kind \in Readers : reader = NewReader(kind)

-----------------------------------------------------------------------------
(* The reading call. *)

Reading(at) == reader.at = at

Ends(result) == [reader EXCEPT !.at = "end", !.result = result]

\* fs::symlink_metadata before opening.
StatPath ==
    /\ Reading("start")
    /\ reader' = [reader EXCEPT !.at = "open", !.stats = IF reader.kind.looks THEN <<Metadata(named)>> ELSE <<>>]
    /\ UNCHANGED fileVars

\* File::open and the metadata of the handle.
Open ==
    /\ Reading("open")
    /\ reader' = IF reader.kind.bounded /\ Len(content[named]) > Maximum THEN Ends("limit")
                 ELSE [reader EXCEPT !.file = named, !.opened = named, !.seen = {content[named]},
                                     !.stats = Append(@, Metadata(named)), !.at = "read"]
    /\ UNCHANGED fileVars

\* One block further of file.take(bound + 1).read_to_end, into `so_far`.
AtEnd(so_far, bound) ==
    Len(so_far) >= Len(content[reader.file]) \/ Len(so_far) = bound + 1

Extended(so_far) == Append(so_far, content[reader.file][Len(so_far) + 1])

FirstRead ==
    /\ Reading("read")
    /\ reader' = IF ~AtEnd(reader.bytes, Maximum) THEN [reader EXCEPT !.bytes = Extended(@)]
                 ELSE IF Len(reader.bytes) > Maximum THEN Ends("limit")
                 ELSE [reader EXCEPT !.at = "verify"]
    /\ UNCHANGED fileVars

\* @mutant: one reading is thought to be enough.
NoSecondRead ==
    /\ Reading("verify")
    /\ reader' = [reader EXCEPT !.at = "stat", !.verification = reader.bytes]
    /\ UNCHANGED fileVars

\* rewind, and the second reading.  verify_open_file_bytes stops at the first
\* difference and looks one byte past what it expects; the others read on to
\* their bound and compare at the end.
VerificationRead ==
    /\ Reading("verify")
    /\ LET so_far == reader.verification
           prefix == Len(so_far) <= Len(reader.bytes) /\ so_far = SubSeq(reader.bytes, 1, Len(so_far))
       IN  reader' = IF reader.kind.reopens /\ ~prefix THEN Ends("unstable")
                     ELSE IF ~AtEnd(so_far, IF reader.kind.reopens THEN Len(reader.bytes) ELSE Maximum)
                          THEN [reader EXCEPT !.verification = Extended(@)]
                     ELSE IF reader.kind.reopens /\ so_far # reader.bytes THEN Ends("unstable")
                     ELSE [reader EXCEPT !.at = "stat"]
    /\ UNCHANGED fileVars

\* The metadata of the handle, after.
StatHandle ==
    /\ Reading("stat")
    /\ reader' = [reader EXCEPT !.at = "statpath", !.stats = Append(@, Metadata(reader.file))]
    /\ UNCHANGED fileVars

\* same_file_metadata: device, inode, length and modification time.
same_file_metadata(left, right) ==
    left.ino = right.ino /\ left.len = right.len /\ left.mtime = right.mtime

\* The comparison that ends the call, over the metadata in the order taken.
Unstable(r) ==
    \/ r.bytes # r.verification
    \/ r.stats[1].len # Len(r.bytes)
    \/ \E k \in 1..Len(r.stats) - 1 : ~same_file_metadata(r.stats[k], r.stats[k + 1])

\* The metadata of the path, after, and the verdict, unless the path is to be
\* opened once more.
StatPathAgain ==
    /\ Reading("statpath")
    /\ LET r == [reader EXCEPT !.stats = Append(@, Metadata(named))]
       IN  reader' = IF r.kind.reopens /\ r.file = r.opened /\ Len(r.stats) = 3
                     THEN [r EXCEPT !.at = "reopen"]
                     ELSE IF Unstable(r) THEN [r EXCEPT !.at = "end", !.result = "unstable"]
                     ELSE [r EXCEPT !.at = "end", !.result = "ok"]
    /\ UNCHANGED fileVars

\* The second File::open: its handle is read and compared like the first.
Reopen ==
    /\ Reading("reopen")
    /\ reader' = [reader EXCEPT !.file = named, !.stats = Append(@, Metadata(named)),
                                !.verification = <<>>, !.at = "verify"]
    /\ UNCHANGED fileVars

ReadStep ==
    \/ StatPath \/ Open \/ FirstRead \/ VerificationRead
    \/ StatHandle \/ StatPathAgain \/ Reopen

-----------------------------------------------------------------------------
(* Other processes (external). *)

Allowed(s) == style = s /\ writes < MaxWrites[s] /\ recent < WritesPerTick

\* File f now holds c.
Stored(f, c) ==
    /\ content' = [content EXCEPT ![f] = c]
    /\ mtime' = [mtime EXCEPT ![f] = clock]
    /\ writes' = writes + 1 /\ recent' = recent + 1
    /\ reader' = IF reader.opened = f THEN [reader EXCEPT !.seen = @ \cup {c}] ELSE reader
    /\ UNCHANGED <<named, clock, style>>

OverwriteBlock(b) ==
    /\ Allowed("in_place")
    /\ \E k \in 1..Len(content[named]) :
        /\ content[named][k] # b
        /\ Stored(named, [content[named] EXCEPT ![k] = b])

Truncate == Allowed("rewrite") /\ content[named] # <<>> /\ Stored(named, <<>>)

AppendBlock(b) ==
    /\ Allowed("rewrite") /\ Len(content[named]) < MaxLength
    /\ Stored(named, Append(content[named], b))

\* rename(2) puts another file under the path.
ReplacePath ==
    /\ Allowed("replace")
    /\ \E f \in Files \ {named} : named' = f
    /\ writes' = writes + 1 /\ recent' = recent + 1
    /\ UNCHANGED <<content, mtime, clock, style, reader>>

Tick ==
    /\ clock < MaxTicks /\ recent > 0 /\ writes < MaxWrites[style]
    /\ clock' = clock + 1 /\ recent' = 0
    /\ UNCHANGED <<content, mtime, named, writes, style, reader>>

WriterStep ==
    /\ reader.at \notin {"start", "end"}
    /\ \/ \E b \in Blocks : OverwriteBlock(b) \/ AppendBlock(b)
       \/ Truncate \/ ReplacePath \/ Tick

StableNext == ReadStep \/ WriterStep \/ (Reading("end") /\ UNCHANGED stableVars)

StableSpec == StableInit /\ [][StableNext]_stableVars

-----------------------------------------------------------------------------
(* Properties. *)

\* What a successful reading returns is what the opened file held, as a
\* whole, at one moment of the call, and the file the path still names: never
\* the head of one version and the tail of another.  It takes both the second
\* reading and the comparison of modification times (read_stable_configuration,
\* read_stable_with, read_stable_input, read_immutable_with, read_portable_graph*).
StableIsWhole ==
    Reading("end") /\ reader.result = "ok" =>
        /\ reader.bytes \in reader.seen
        /\ Len(reader.bytes) <= Maximum
        /\ reader.stats[Len(reader.stats)].ino = reader.opened
=============================================================================
