----------------------------- MODULE SplitMerge -----------------------------
(***************************************************************************)
(* bintool's bsplit and bmerge, run one after the other on one directory.  *)
(* bsplit writes a file as numbered chunks <prefix>-<index>.bin; bmerge    *)
(* concatenates every file of the directory whose name it takes for a      *)
(* chunk of its prefix, in numeric order.  Neither leaves a record of how  *)
(* many chunks belong together, and bsplit removes nothing: what a merge   *)
(* restores depends on everything earlier splits left in the directory.    *)
(* Both ignore the results of reads and writes; the disk is taken to work. *)
(***************************************************************************)
EXTENDS Integers, Sequences, FiniteSets, TLC

CONSTANTS
  Jobs,      \* splits considered: length of the file, which is all that is known
             \* of it, chunk size (-s), prefix (-p) and index width (-z)
  MaxCalls   \* bound on the number of tool invocations

\* One prefix extends the other by a dash and a number.
ChunkPrefixes == {"chunk", "chunk-2"}

ASSUME JobsAssumption ==
  /\ Jobs # {}
  /\ \A j \in Jobs : /\ j.file \in Nat /\ j.size \in Nat \ {0}
                     /\ j.prefix \in ChunkPrefixes /\ j.pad \in Nat \ {0}
ASSUME CallsAssumption == MaxCalls \in Nat

VARIABLES
  pc,       \* which tool is running
  job,      \* the last split: file, chunk size, prefix and index width
  pos,      \* bytes it has read
  index,    \* index of its next chunk
  split,    \* how it ended
  dir,      \* the directory: contents by chunk name
  todo,     \* names the merge has still to copy
  out,      \* the merged file
  merged,   \* prefix and outcome of the last merge
  written,  \* history: names the last split wrote
  calls     \* number of invocations so far

splitVars == <<pc, job, pos, index, split, dir, todo, out, merged, written, calls>>

splitting == <<job, pos, index, split, written>>
merging == <<todo, out, merged>>

-----------------------------------------------------------------------------
(* Files and names.                                                        *)

\* Byte k of the file of length n is <<n, k>>.
Content(n) == [k \in 1 .. n |-> <<n, k>>]

Digits(i) == CHOOSE d \in 1 .. i : i < 10 ^ d /\ \A e \in 1 .. d - 1 : i >= 10 ^ e

\* prefix-format_index(i, pad).bin, as far as names differ: two names are one when
\* prefix, number and number of digits agree.
ChunkName(prefix, i, pad) ==
  [prefix |-> prefix, index |-> i,
   digits |-> IF pad > Digits(i) THEN pad ELSE Digits(i)]

\* extract_chunk_index: the digits after "<prefix>-", up to the first other
\* character.  So chunk-2-7.bin is chunk 2 of prefix "chunk".  0: not a chunk.
ChunkIndex(name, prefix) ==
  CASE name.prefix = prefix -> name.index
    [] name.prefix = "chunk-2" /\ prefix = "chunk" -> 2
    [] OTHER -> 0

Matching(prefix) == {name \in DOMAIN dir : ChunkIndex(name, prefix) # 0}

SplitInit ==
  /\ pc = "idle"
  /\ job = CHOOSE j \in Jobs : TRUE
  /\ pos = 0 /\ index = 1 /\ split = "none"
  /\ dir = <<>>
  /\ todo = {} /\ out = <<>>
  /\ merged = [prefix |-> "chunk", exit |-> "none"]
  /\ written = {}
  /\ calls = 0

-----------------------------------------------------------------------------
(* bsplit.                                                                 *)

\* Options are read and the directory is made unless it is there.
SplitStart ==
  /\ pc = "idle" /\ calls < MaxCalls
  /\ job' \in Jobs
  /\ pc' = "split"
  /\ pos' = 0 /\ index' = 1 /\ written' = {}
  /\ split' = "running"
  /\ merged' = [merged EXCEPT !.exit = "none"]
  /\ calls' = calls + 1
  /\ UNCHANGED <<dir, todo, out>>

Name == ChunkName(job.prefix, index, job.pad)

\* What input.read() delivers.
Read == SubSeq(Content(job.file), pos + 1,
               IF pos + job.size < job.file THEN pos + job.size ELSE job.file)

\* The chunk at Name is made, or truncated and written again.
StoreChunk(data) ==
  /\ dir' = [name \in DOMAIN dir \cup {Name} |-> IF name = Name THEN data ELSE dir[name]]
  /\ written' = written \cup {Name}

SplitChunk ==
  /\ pc = "split" /\ pos < job.file
  /\ StoreChunk(Read)
  /\ pos' = pos + Len(Read)
  /\ index' = index + 1
  /\ UNCHANGED <<pc, job, split, merging, calls>>

\* The end of the file; an empty file still makes one, empty, chunk.
SplitEnd ==
  /\ pc = "split" /\ pos = job.file
  /\ pc' = "idle" /\ split' = "ok"
  /\ IF index = 1 THEN StoreChunk(<<>>) ELSE UNCHANGED <<dir, written>>
  /\ UNCHANGED <<job, pos, index, merging, calls>>

\* A chunk cannot be opened, or bsplit is killed, perhaps between making a chunk and
\* having written it.
SplitStops ==
  /\ pc = "split"
  /\ pc' = "idle" /\ split' = "stopped"
  /\ \/ UNCHANGED <<dir, written>>
     \/ /\ pos < job.file
        /\ \E k \in {0, Len(Read) - 1} : StoreChunk(SubSeq(Read, 1, k))
  /\ UNCHANGED <<job, pos, index, merging, calls>>

-----------------------------------------------------------------------------
(* bmerge.                                                                 *)

\* The directory is listed; without a matching name bmerge fails and makes no output.
MergeStart(prefix) ==
  /\ pc = "idle" /\ calls < MaxCalls
  /\ IF Matching(prefix) = {}
     THEN /\ merged' = [prefix |-> prefix, exit |-> "error"]
          /\ UNCHANGED <<pc, todo, out>>
     ELSE /\ merged' = [prefix |-> prefix, exit |-> "none"]
          /\ pc' = "merge" /\ todo' = Matching(prefix) /\ out' = <<>>
  /\ calls' = calls + 1
  /\ UNCHANGED <<splitting, dir>>

\* Mutant: chunks are sorted by name, so that 10 and 11 come before 2.
NextChunkByName(name) ==
  name \in todo /\ \A other \in todo :
    LET lead(n) == IF n.digits = 1 THEN n.index * 10 ELSE n.index
    IN  lead(name) <= lead(other)

\* Chunks are sorted by number; std::sort leaves those of one number in any order.
NextChunk(name) ==
  name \in todo /\ \A other \in todo :
    ChunkIndex(name, merged.prefix) <= ChunkIndex(other, merged.prefix)

MergeChunk ==
  /\ pc = "merge"
  /\ \E name \in todo :
       /\ NextChunk(name)
       /\ out' = out \o dir[name]
       /\ todo' = todo \ {name}
  /\ UNCHANGED <<pc, splitting, dir, merged, calls>>

\* A chunk cannot be opened, or bmerge is killed.
MergeStops ==
  /\ pc = "merge"
  /\ pc' = "idle" /\ todo' = {}
  /\ merged' = [merged EXCEPT !.exit = "error"]
  /\ UNCHANGED <<splitting, dir, out, calls>>

MergeEnd ==
  /\ pc = "merge" /\ todo = {}
  /\ pc' = "idle"
  /\ merged' = [merged EXCEPT !.exit = "ok"]
  /\ UNCHANGED <<splitting, dir, todo, out, calls>>

SplitRest == pc = "idle" /\ calls = MaxCalls /\ UNCHANGED splitVars

SplitNext ==
  \/ SplitStart \/ SplitChunk \/ SplitEnd \/ SplitStops
  \/ \E prefix \in ChunkPrefixes : MergeStart(prefix)
  \/ MergeChunk \/ MergeStops \/ MergeEnd
  \/ SplitRest

SplitSpec == SplitInit /\ [][SplitNext]_splitVars

-----------------------------------------------------------------------------
(* Properties.                                                             *)

\* The last split was merged back with its own prefix, and bmerge reported success.
Restored == merged.exit = "ok" /\ merged.prefix = job.prefix

\* Every file the merge takes for a chunk was written by the last split.
OnlyOwnChunks == Matching(merged.prefix) \subseteq written

\* Round trip: a complete split, merged with its prefix, gives the file back byte by
\* byte for every chunk size and index width, with ten chunks and more, with a short
\* last chunk, for the empty file, and over the chunks of an earlier split if it
\* replaced them all.
RoundTrip ==
  Restored /\ split = "ok" /\ OnlyOwnChunks => out = Content(job.file)

\* A split that was cut off merges, without an error, to a beginning of its file: no
\* byte is out of place and none is from another file.
PartialIsPrefix ==
  Restored /\ split = "stopped" /\ OnlyOwnChunks =>
    /\ Len(out) <= job.file
    /\ out = SubSeq(Content(job.file), 1, Len(out))

\* What a merge makes of a complete split and of a partial one.
MergeIsSound == RoundTrip /\ PartialIsPrefix

\* What bmerge's documentation says: it reassembles what bsplit split.
Reassembles == Restored /\ split = "ok" => out = Content(job.file)
=============================================================================
