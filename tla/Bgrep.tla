-------------------------------- MODULE Bgrep --------------------------------
(***************************************************************************)
(* bintool's bgrep (bgrep.cpp): the offsets of a file at which a pattern   *)
(* of bytes occurs (with -v: does not), each with a window of the bytes    *)
(* around it.  Sizes are of type size_t and wrap around at SizeLimit.      *)
(* Bytes are characters, "A" and "a" one letter in two cases.              *)
(***************************************************************************)
EXTENDS Integers, SequencesExt, FiniteSetsExt

CONSTANTS
  GrepFiles,      \* contents of the input file
  GrepPatterns,   \* the pattern's bytes, after parse_hex_pattern with -x
  GrepContexts,   \* values of -C
  GrepCounts,     \* values of -m, 0 without it
  SizeLimit       \* 2^64 in the program

ASSUME SizeAssumption ==
  /\ SizeLimit \in Nat \ {0} /\ GrepContexts \subseteq 0 .. SizeLimit - 1
  /\ GrepCounts \subseteq Nat
ASSUME GrepAssumption == GrepFiles \cup GrepPatterns \subseteq Seq(STRING)

VARIABLE grep   \* the program: see GrepStart

-----------------------------------------------------------------------------
GrepOptions ==
  [pattern : GrepPatterns, hex : BOOLEAN, ignoreCase : BOOLEAN, invert : BOOLEAN,
   context : GrepContexts, max : GrepCounts]

\* opt, pc, the file, the offset to be looked at next, the reports, the exit status.
GrepStart(opt, file) ==
  [opt |-> opt, pc |-> "read", file |-> file, offset |-> 0, found |-> <<>>, exit |-> -1]

GrepInit == grep \in {GrepStart(opt, file) : opt \in GrepOptions, file \in GrepFiles}

\* make_casefolded, with -i unless -x.
Folded(bytes, opt) ==
  IF opt.ignoreCase /\ ~opt.hex
  THEN [i \in DOMAIN bytes |-> IF bytes[i] = "A" THEN "a" ELSE bytes[i]] ELSE bytes

\* The file is read whole; there is no file, it cannot be read, or the pattern is
\* empty or no hex.
GrepRead ==
  /\ grep.pc = "read"
  /\ \/ grep' = [grep EXCEPT !.pc = "done", !.exit = 1]
     \/ grep.opt.pattern # <<>> /\ grep' = [grep EXCEPT !.pc = "search"]

\* The pattern's bytes from an offset on, up to the first that differs.
MatchesAt(file, pattern, offset) ==
  \A i \in DOMAIN pattern : file[offset + i] = pattern[i]

\* format_context_bytes of start and length.
Window(opt, offset) ==
  LET n == Len(grep.file)
      start == IF offset > opt.context THEN offset - opt.context ELSE 0
      length == Min({(opt.context * 2 + Len(opt.pattern)) % SizeLimit, n - start})
  IN  [start |-> start, bytes |-> SubSeq(grep.file, start + 1, start + length)]

\* Mutant: the search goes on behind a match, as for text.
NextOffsetBehind(report) == grep.offset + (IF report THEN Len(grep.opt.pattern) ELSE 1)

NextOffset(report) == grep.offset + 1

\* One offset; a report too many ends the loop.
GrepOffset ==
  /\ grep.pc = "search"
  /\ grep.offset + Len(grep.opt.pattern) <= Len(grep.file)
  /\ LET match == MatchesAt(Folded(grep.file, grep.opt), Folded(grep.opt.pattern, grep.opt),
                            grep.offset)
         report == match # grep.opt.invert
     IN  grep' = CASE report /\ grep.opt.max > 0 /\ Len(grep.found) >= grep.opt.max ->
                        [grep EXCEPT !.pc = "end"]
                   [] report /\ ~(grep.opt.max > 0 /\ Len(grep.found) >= grep.opt.max) ->
                        [grep EXCEPT !.offset = NextOffset(TRUE),
                           !.found = Append(@, [offset |-> grep.offset,
                                                window |-> Window(grep.opt, grep.offset)])]
                   [] ~report -> [grep EXCEPT !.offset = NextOffset(FALSE)]

GrepLoopEnds ==
  /\ grep.pc = "search"
  /\ grep.offset + Len(grep.opt.pattern) > Len(grep.file)
  /\ grep' = [grep EXCEPT !.pc = "end"]

GrepExit ==
  /\ grep.pc = "end"
  /\ grep' = [grep EXCEPT !.pc = "done", !.exit = IF grep.found = <<>> THEN 1 ELSE 0]

GrepStep == GrepRead \/ GrepOffset \/ GrepLoopEnds \/ GrepExit

-----------------------------------------------------------------------------
\* Two bytes that are one to this search.
Alike(a, b) ==
  \/ a = b
  \/ grep.opt.ignoreCase /\ ~grep.opt.hex /\ {a, b} \subseteq {"a", "A"}

\* The offsets of all occurrences, overlapping ones too; with -v of everything else.
Occurrences ==
  LET m == Len(grep.opt.pattern)
      here(k) == \A i \in 1 .. m : Alike(grep.file[k + i], grep.opt.pattern[i])
  IN  {k \in 0 .. Len(grep.file) - m : here(k) # grep.opt.invert}

\* The reports are the first -m occurrences, each once and in order.
FirstOccurrences ==
  LET reported == {grep.found[i].offset : i \in DOMAIN grep.found}
  IN  /\ \A i, j \in DOMAIN grep.found : i < j => grep.found[i].offset < grep.found[j].offset
      /\ reported \subseteq Occurrences
      /\ grep.opt.max > 0 => Len(grep.found) <= grep.opt.max
      /\ \A k \in Occurrences \ reported :
           /\ grep.opt.max > 0 /\ Len(grep.found) = grep.opt.max
           /\ \A r \in reported : r < k

\* A search that has ended reports the first -m occurrences, status 0 means that there
\* is one, and each window is the bytes of the file, as they are there, around an
\* occurrence that lies within it whole (unless -C is so large that the window's length
\* wraps around).
SearchIsExact ==
  LET m == Len(grep.opt.pattern)
  IN  /\ grep.pc = "done" /\ (grep.exit = 0 \/ grep.offset > 0) =>
           FirstOccurrences /\ (grep.exit = 0 <=> Occurrences # {})
      /\ grep.opt.context * 2 + m < SizeLimit =>
           \A i \in DOMAIN grep.found :
             LET f == grep.found[i] IN
             /\ f.window.start <= f.offset
             /\ f.offset + m <= f.window.start + Len(f.window.bytes)
             /\ f.offset - f.window.start <= grep.opt.context
             /\ \A k \in DOMAIN f.window.bytes : f.window.bytes[k] = grep.file[f.window.start + k]
=============================================================================
