------------------------------- MODULE Bpatch -------------------------------
(***************************************************************************)
(* bintool's bpatch (bpatch.cpp): a file is read into memory, bytes are    *)
(* written over it or inserted, and the file is truncated and written      *)
(* again in place.  Nothing keeps other programs from changing the file in *)
(* between, and what is on the disk while it is written is all there is of *)
(* it.  The surround markers are one byte each, "<" and ">".               *)
(***************************************************************************)
EXTENDS Integers, SequencesExt

CONSTANTS
  PatchFiles,   \* contents of the target file, sequences of bytes
  PatchTexts,   \* the patch argument, sequences of characters
  PatchOffsets  \* values of -o, 0 without it

ASSUME PatchAssumption ==
  /\ PatchTexts \subseteq Seq(STRING) /\ PatchFiles \subseteq Seq({"char"} \X STRING)
  /\ PatchOffsets \subseteq Nat

VARIABLE patch   \* the program and its file: see PatchStart

-----------------------------------------------------------------------------
\* Characters of a patch argument: a backslash, the "x" of an escape, hex digits and
\* "g", which is none.  The digit's value is all that is known of an escaped byte.
HexValue == [c \in {"1", "2"} |-> IF c = "1" THEN 1 ELSE 2]

IsHex(c) == c \in DOMAIN HexValue

\* std::stoul(two characters, 16): what is hex from the start of them; a failure if
\* nothing is.
Stoul(pair) ==
  CASE IsHex(pair[1]) /\ IsHex(pair[2]) -> HexValue[pair[1]] * 16 + HexValue[pair[2]]
    [] IsHex(pair[1]) /\ ~IsHex(pair[2]) -> HexValue[pair[1]]
    [] ~IsHex(pair[1]) -> -1

\* An escape with two characters behind it.
Escape(text, i) == i + 3 <= Len(text) /\ text[i] = "\\" /\ text[i + 1] = "x"

\* parse_escaped_hex: \xHH is a byte, any other character stands for itself, and so
\* does an escape that the argument ends in.  An escape that is not hex fails.
ParseEscapedHex(text) ==
  LET parse[i \in 1 .. Len(text) + 4] ==
        IF i > Len(text) THEN [ok |-> TRUE, bytes |-> <<>>]
        ELSE IF ~Escape(text, i)
        THEN [parse[i + 1] EXCEPT !.bytes = <<<<"char", text[i]>>>> \o @]
        ELSE LET byte == Stoul(SubSeq(text, i + 2, i + 3))
             IN  IF byte = -1 THEN [ok |-> FALSE, bytes |-> <<>>]
                 ELSE [parse[i + 4] EXCEPT !.bytes = <<<<"hex", byte>>>> \o @]
  IN  IF parse[1].ok THEN parse[1].bytes ELSE <<>>

Zero == <<"hex", 0>>

Payload(opt) ==
  LET bytes == ParseEscapedHex(opt.text)
  IN  IF opt.surround THEN <<<<"char", "<">>>> \o bytes \o <<<<"char", ">">>>> ELSE bytes

\* Mutant: an overwrite does not make the file longer.
PatchedTruncating(data, payload, opt) ==
  IF opt.insert
  THEN SubSeq(data, 1, opt.offset) \o payload \o SubSeq(data, opt.offset + 1, Len(data))
  ELSE [i \in DOMAIN data |-> IF i - opt.offset \in DOMAIN payload
                              THEN payload[i - opt.offset] ELSE data[i]]

\* data.resize(required): zeros behind the data, when there are not enough of them.
Resized(data, required) ==
  IF required > Len(data) THEN data \o [i \in 1 .. required - Len(data) |-> Zero] ELSE data

\* An insertion, or an overwrite for which the data are made long enough.
Patched(data, payload, opt) ==
  IF opt.insert
  THEN SubSeq(data, 1, opt.offset) \o payload \o SubSeq(data, opt.offset + 1, Len(data))
  ELSE LET resized == Resized(data, opt.offset + Len(payload))
       IN  [i \in DOMAIN resized |-> IF i - opt.offset \in DOMAIN payload
                                     THEN payload[i - opt.offset] ELSE resized[i]]

-----------------------------------------------------------------------------
PatchOptions ==
  [text : PatchTexts, offset : PatchOffsets, insert : BOOLEAN, surround : BOOLEAN, dry : BOOLEAN]

\* opt, pc, the file on disk and what it was at the start, the data in memory, whether
\* another program changed the file, whether a write failed, the exit status (-2: killed).
PatchStart(opt, file) ==
  [opt |-> opt, pc |-> "read", disk |-> file, before |-> file, data |-> <<>>,
   meddled |-> FALSE, failed |-> FALSE, exit |-> -1]

PatchInit == patch \in {PatchStart(opt, file) : opt \in PatchOptions, file \in PatchFiles}

PatchEnds(status) == patch' = [patch EXCEPT !.pc = "done", !.exit = status]

\* The patch is parsed, the file read whole; an empty or bad patch, a file that is not
\* there or cannot be read, an offset behind its end fail before anything is changed.
ReadTarget ==
  /\ patch.pc = "read"
  /\ \/ PatchEnds(1)
     \/ /\ ParseEscapedHex(patch.opt.text) # <<>>
        /\ patch.opt.offset <= Len(patch.disk)
        /\ patch' = [patch EXCEPT !.pc = IF patch.opt.dry THEN "dry" ELSE "open",
                       !.data = Patched(patch.disk, Payload(patch.opt), patch.opt)]

DryRun == patch.pc = "dry" /\ PatchEnds(0)

\* The file is truncated, unless it cannot be opened for writing.
OpenTarget ==
  /\ patch.pc = "open"
  /\ \/ PatchEnds(1)
     \/ patch' = [patch EXCEPT !.pc = "write", !.disk = <<>>]

\* write() and close(), whose results are not looked at: a full disk cuts the file off.
WriteTarget ==
  /\ patch.pc = "write"
  /\ \/ patch' = [patch EXCEPT !.pc = "done", !.exit = 0, !.disk = patch.data]
     \/ \E n \in {0, Len(patch.data) - 1} :
          patch' = [patch EXCEPT !.pc = "done", !.exit = 0, !.failed = TRUE,
                                 !.disk = SubSeq(patch.data, 1, n)]

\* Another program appends a byte.
Meddle ==
  /\ patch.pc \in {"open", "dry"} /\ ~patch.meddled
  /\ patch' = [patch EXCEPT !.meddled = TRUE, !.disk = Append(@, <<"char", "m">>)]

\* The program is killed.
KillPatch ==
  /\ patch.pc \in {"read", "open", "write"}
  /\ patch' = [patch EXCEPT !.pc = "done", !.exit = -2]

PatchStep == ReadTarget \/ DryRun \/ OpenTarget \/ WriteTarget \/ Meddle \/ KillPatch

-----------------------------------------------------------------------------
\* A patch that has been written leaves all the other bytes as they are, one by one,
\* behind an insertion moved by its length, and the patch is at its offset.  A call that
\* fails, a dry run and one killed before it has opened the file for writing change
\* nothing.  (A write that fails, and a change between the two openings, are lost
\* without a word.)
PatchIsExact ==
  LET payload == Payload(patch.opt)
      at == patch.opt.offset
      shift == IF patch.opt.insert THEN Len(payload) ELSE 0
      old(i) == IF i <= at THEN i ELSE i + shift
      unchanged == patch.disk = IF patch.meddled THEN Append(patch.before, <<"char", "m">>)
                                ELSE patch.before
  IN  /\ patch.exit = 0 /\ ~patch.opt.dry /\ ~patch.failed =>
           /\ Len(patch.disk) = IF patch.opt.insert \/ at + Len(payload) < Len(patch.before)
                                THEN Len(patch.before) + shift ELSE at + Len(payload)
           /\ SubSeq(patch.disk, at + 1, at + Len(payload)) = payload
           /\ \A i \in DOMAIN patch.before :
                old(i) \in at + 1 .. at + Len(payload) \/ patch.disk[old(i)] = patch.before[i]
      /\ patch.exit = 1 \/ patch.opt.dry \/ patch.pc \in {"read", "open", "dry"} => unchanged
=============================================================================
