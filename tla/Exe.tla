-------------------------------- MODULE Exe --------------------------------
(***************************************************************************)
(* bintool's exe (exe.cpp): what an executable contains, collected in a    *)
(* fixed order and then written, all or nothing, to standard output or a   *)
(* file.  The parser (LIEF) and the disassembler (Capstone) are external:  *)
(* of what they deliver there is one record of each kind.  The strings are *)
(* searched by exe itself, in the bytes it has read before the parser      *)
(* reads the file again.  Bytes are "p", "q" (printable), 0 and "x".       *)
(***************************************************************************)
EXTENDS Integers, SequencesExt, FiniteSetsExt

CONSTANTS
  ExeFiles,    \* contents of the file
  ExeKinds     \* sets of kinds of information asked for

\* What can be asked for.
Kinds == {"info", "sections", "addresses", "mapping", "strings", "disassembly"}

ASSUME ExeAssumption ==
  /\ ExeFiles \subseteq Seq(STRING)
  /\ ExeKinds \subseteq SUBSET Kinds

VARIABLE exe   \* the program: see ExeStart

-----------------------------------------------------------------------------
(* collect_strings.                                                        *)

MinLength == 4   \* MIN_LENGTH

Printable(c) == c \in {"p", "q"}

NoString == [start |-> 0, text |-> <<>>]

\* A string that ends is kept if it is long enough.
Kept(scan, encoding) ==
  IF Len(scan.text) >= MinLength
  THEN Append(scan.found, [start |-> scan.start, text |-> <<encoding>> \o scan.text])
  ELSE scan.found

\* A unit that is not printable ends a string,
ScanUnit(scan, char, offset, encoding) ==
  IF Printable(char)
  THEN [scan EXCEPT !.start = IF scan.text = <<>> THEN offset ELSE @, !.text = Append(@, char)]
  ELSE [scan EXCEPT !.found = Kept(scan, encoding), !.text = <<>>]

\* and so do the data.  A unit has size bytes.
ScanUnits(chars, size, encoding) ==
  LET scan[i \in 0 .. Len(chars)] ==
        IF i = 0 THEN [found |-> <<>>, start |-> 0, text |-> <<>>]
        ELSE ScanUnit(scan[i - 1], chars[i], size * (i - 1), encoding)
  IN  Kept(scan[Len(chars)], encoding)

\* Pairs of bytes from the beginning; a last single byte is none.  A character of ASCII
\* is one whose high byte is 0.
Utf16(data, low, high) ==
  [i \in 1 .. Len(data) \div 2 |->
     IF data[2 * i - high] = "0" THEN data[2 * i - low] ELSE "x"]

Strings(data) ==
  ScanUnits(data, 1, "ASCII")
    \o ScanUnits(Utf16(data, 1, 0), 2, "LE") \o ScanUnits(Utf16(data, 0, 1), 2, "BE")

-----------------------------------------------------------------------------
(* execute.                                                                *)

\* The output: none but standard output, another file, one that is a directory, the
\* input by some path, a second name (hard link) of the input.
Outputs == {"stdout", "other", "directory", "same", "link"}

\* opt, pc, the file on disk, the output file, the bytes read, the records, what is
\* printed, the exit status.
ExeStart(opt, file) ==
  [opt |-> opt, pc |-> "read", disk |-> file, output |-> <<"old">>, raw |-> <<>>,
   records |-> <<>>, printed |-> <<>>, exit |-> -1]

ExeInit ==
  exe \in {ExeStart([kinds |-> kinds, out |-> out], file) :
             kinds \in ExeKinds, out \in Outputs, file \in ExeFiles}

ExeEnds(status) == exe' = [exe EXCEPT !.pc = "done", !.exit = status]

\* No regular file, or it cannot be opened, measured, read.
ExeRead ==
  /\ exe.pc = "read"
  /\ \/ ExeEnds(2)
     \/ exe' = [exe EXCEPT !.pc = "collect", !.raw = exe.disk]

\* The kinds in their order; one record each stands for what the libraries deliver.
Collected(raw, kinds) ==
  LET of(kind, records) == IF kind \in kinds THEN records ELSE <<>>
      one(kind) == of(kind, <<[kind |-> kind, string |-> NoString]>>)
      strings == Strings(raw)
  IN  one("info") \o one("sections") \o one("addresses") \o one("mapping")
        \o of("strings", [i \in DOMAIN strings |->
                            [kind |-> "strings", string |-> strings[i]]])
        \o one("disassembly")

\* The file is parsed, or is no ELF or PE file; everything asked for is collected, or
\* there is no disassembler for its architecture.
ExeCollect ==
  /\ exe.pc = "collect"
  /\ \/ ExeEnds(1)
     \/ exe' = [exe EXCEPT !.pc = "output",
                   !.records = Collected(exe.raw, exe.opt.kinds)]

\* Mutant: the output is opened before its path is compared with the input's.
OpenOutputFirst ==
  /\ exe.pc = "output"
  /\ exe' = CASE exe.opt.out = "same" -> [exe EXCEPT !.pc = "done", !.exit = 4, !.disk = <<>>]
              [] exe.opt.out = "directory" -> [exe EXCEPT !.pc = "done", !.exit = 2]
              [] exe.opt.out = "link" -> [exe EXCEPT !.pc = "print", !.disk = <<>>]
              [] exe.opt.out = "other" -> [exe EXCEPT !.pc = "print", !.output = <<>>]
              [] OTHER -> [exe EXCEPT !.pc = "print"]

\* The canonical paths are compared (4), a directory refused (2), the file truncated.
OpenOutput ==
  /\ exe.pc = "output"
  /\ exe' = CASE exe.opt.out = "same" -> [exe EXCEPT !.pc = "done", !.exit = 4]
              [] exe.opt.out = "directory" -> [exe EXCEPT !.pc = "done", !.exit = 2]
              [] exe.opt.out = "link" -> [exe EXCEPT !.pc = "print", !.disk = <<>>]
              [] exe.opt.out = "other" -> [exe EXCEPT !.pc = "print", !.output = <<>>]
              [] OTHER -> [exe EXCEPT !.pc = "print"]

OpenFails == exe.pc = "output" /\ exe.opt.out \in {"other", "link"} /\ ExeEnds(2)

\* print_human, print_json, print_pipe.  The disk is taken to have room.
ExePrint ==
  /\ exe.pc = "print"
  /\ exe' = [exe EXCEPT !.pc = "done", !.exit = 0, !.printed = exe.records,
               !.output = IF exe.opt.out = "other" THEN exe.records ELSE @,
               !.disk = IF exe.opt.out = "link" THEN exe.records ELSE @]

ExeStep == ExeRead \/ ExeCollect \/ OpenOutput \/ OpenFails \/ ExePrint

-----------------------------------------------------------------------------
\* Reference: the longest runs of printable units.
RunsOf(chars) ==
  {r \in (1 .. Len(chars)) \X (1 .. Len(chars)) :
     /\ r[2] - r[1] + 1 >= MinLength
     /\ \A i \in r[1] .. r[2] : Printable(chars[i])
     /\ r[1] > 1 => ~Printable(chars[r[1] - 1])
     /\ r[2] < Len(chars) => ~Printable(chars[r[2] + 1])}

RunStrings(chars, size, encoding) ==
  {[start |-> size * (r[1] - 1), text |-> <<encoding>> \o SubSeq(chars, r[1], r[2])] :
     r \in RunsOf(chars)}

StringsOf(data) ==
  RunStrings(data, 1, "ASCII")
    \cup RunStrings(Utf16(data, 1, 0), 2, "LE") \cup RunStrings(Utf16(data, 0, 1), 2, "BE")

\* The records for what is asked for.
Asked(raw, kinds) ==
  {[kind |-> kind, string |-> NoString] : kind \in kinds \ {"strings"}}
    \cup {[kind |-> "strings", string |-> string] :
            string \in IF "strings" \in kinds THEN StringsOf(raw) ELSE {}}

\* What exe prints has every string of at least four printable characters of the file,
\* as long as it is and once for each encoding, and with it everything else asked for; a
\* call that fails prints nothing and leaves the output file as it was; the executable
\* is not changed, unless the output is a hard link to it.
ExeIsSound ==
  /\ exe.exit = 0 =>
       /\ IsInjective(exe.printed)
       /\ ToSet(exe.printed) = Asked(exe.raw, exe.opt.kinds)
  /\ exe.exit > 0 => exe.printed = <<>> /\ exe.output = <<"old">>
  /\ exe.opt.out # "link" /\ exe.raw # <<>> => exe.disk = exe.raw
=============================================================================
