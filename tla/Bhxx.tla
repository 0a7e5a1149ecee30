-------------------------------- MODULE Bhxx --------------------------------
(***************************************************************************)
(* bintool's bhxx (bhxx.cpp): a file is dumped line by line, as hex or as  *)
(* bits, and the dump may be converted back (-r) by a second call.  A byte *)
(* is its two hex digits.  Of a line of the dump the model has the offset, *)
(* a cell for each column and the sidebar; colours and upper case, which   *)
(* change neither, are left out, and so is the reversal of a bit dump.     *)
(***************************************************************************)
EXTENDS Integers, SequencesExt, FiniteSetsExt

CONSTANTS
  BhxxInputs,    \* contents of the input file, sequences of Bytes
  BhxxLayouts,   \* -c and -g: records [cols, group]
  BhxxSeeks,     \* -s
  BhxxLengths    \* -l, 0 without it

VARIABLE bhxx   \* the program: see BhxxStart

-----------------------------------------------------------------------------
\* A byte that is not printed, a letter that is a hex digit, one that is not, a blank.
Bytes == {<<"0", "0">>, <<"6", "1">>, <<"7", "a">>, <<"2", "0">>}

\* What the sidebar shows for a byte.
Printed(byte) ==
  CASE byte = <<"6", "1">> -> "a"
    [] byte = <<"7", "a">> -> "z"
    [] byte = <<"2", "0">> -> " "
    [] OTHER -> "."

NoByte == <<" ", " ">>

BhxxOptions ==
  [style : {"hex", "bits", "plain"}, layout : BhxxLayouts, little : BOOLEAN,
   autoskip : BOOLEAN, seek : BhxxSeeks, len : BhxxLengths, stdin : BOOLEAN, sameFile : BOOLEAN]

ASSUME BhxxAssumption ==
  /\ BhxxInputs \subseteq Seq(Bytes) /\ BhxxLayouts \subseteq [cols : Nat, group : Nat]
  /\ BhxxSeeks \subseteq Nat /\ BhxxLengths \subseteq Nat

Lesser(a, b) == IF a < b THEN a ELSE b

\* opt, pc, the input file, what is left to read, the bytes read so far, the offset of
\* the next line, the last line shown, whether a "*" stands for the lines since; the
\* dump; what it is converted back to; the exit status.
BhxxStart(opt, input) ==
  [opt |-> opt, pc |-> "open", input |-> input, left |-> <<>>, total |-> 0,
   offset |-> opt.seek, prev |-> <<>>, skipping |-> FALSE, dump |-> <<>>, back |-> <<>>,
   exit |-> -1]

BhxxInit ==
  bhxx \in {BhxxStart(opt, input) :
              opt \in {o \in BhxxOptions : ~(o.stdin /\ o.sameFile)}, input \in BhxxInputs}

-----------------------------------------------------------------------------
(* run_hex_dump.                                                           *)

\* The input is opened and -s skipped, unless it is standard input; then the output is
\* opened and truncated, which leaves nothing to read if it is the same file.
BhxxOpen ==
  /\ bhxx.pc = "open"
  /\ \/ bhxx' = [bhxx EXCEPT !.pc = "done", !.exit = 1]
     \/ bhxx' = [bhxx EXCEPT !.pc = "dump",
                   !.left = CASE bhxx.opt.sameFile -> <<>>
                              [] bhxx.opt.stdin -> bhxx.input
                              [] OTHER -> SubSeq(bhxx.input, bhxx.opt.seek + 1, Len(bhxx.input))]

\* The next line's bytes: -c of them, fewer at the end of -l or of the input.
NextBytes ==
  LET wanted == IF bhxx.opt.len = 0 THEN bhxx.opt.layout.cols
                ELSE Lesser(bhxx.opt.layout.cols, bhxx.opt.len - bhxx.total)
  IN  SubSeq(bhxx.left, 1, Lesser(wanted, Len(bhxx.left)))

\* Which byte column i shows (from 0): with -e the bytes of a group change places.
Swaps(o) == o.little /\ o.style = "hex" /\ o.layout.group > 0

ByteOf(o, i) ==
  LET g == o.layout.group
  IN  IF Swaps(o) THEN (i \div g) * g + (g - 1 - (i % g)) ELSE i

Cell(data, o, i) == IF ByteOf(o, i) < Len(data) THEN data[ByteOf(o, i) + 1] ELSE NoByte

\* A plain line has its bytes only.
Line(data, o, offset) ==
  [shown |-> TRUE, offset |-> offset,
   cells |-> IF o.style = "plain" THEN data
             ELSE [i \in 1 .. o.layout.cols |-> Cell(data, o, i - 1)],
   sidebar |-> IF o.style = "plain" THEN <<>> ELSE [i \in DOMAIN data |-> Printed(data[i])]]

Star == [shown |-> FALSE, offset |-> 0, cells |-> <<>>, sidebar |-> <<>>]

\* Mutant: skipped lines do not count for the offset of the next one.
AdvanceShown(data, skips) ==
  [bhxx EXCEPT !.total = @ + Len(data), !.left = SubSeq(@, Len(data) + 1, Len(@)),
               !.offset = IF skips THEN @ ELSE @ + Len(data)]

Advance(data, skips) ==
  [bhxx EXCEPT !.total = @ + Len(data), !.left = SubSeq(@, Len(data) + 1, Len(@)),
               !.offset = @ + Len(data)]

\* A full line like the last one shown is skipped with -a; the first of them is a "*".
SkipLine ==
  /\ bhxx.pc = "dump" /\ NextBytes # <<>>
  /\ bhxx.opt.autoskip /\ Len(NextBytes) = bhxx.opt.layout.cols /\ NextBytes = bhxx.prev
  /\ bhxx' = [Advance(NextBytes, TRUE) EXCEPT
                !.skipping = TRUE, !.dump = IF bhxx.skipping THEN @ ELSE Append(@, Star)]

ShowLine ==
  /\ bhxx.pc = "dump" /\ NextBytes # <<>>
  /\ ~(bhxx.opt.autoskip /\ Len(NextBytes) = bhxx.opt.layout.cols /\ NextBytes = bhxx.prev)
  /\ bhxx' = [Advance(NextBytes, FALSE) EXCEPT
                !.skipping = FALSE, !.prev = NextBytes,
                !.dump = Append(@, Line(NextBytes, bhxx.opt, bhxx.offset))]

DumpEnds ==
  /\ bhxx.pc = "dump" /\ NextBytes = <<>>
  /\ bhxx' = [bhxx EXCEPT !.pc = IF bhxx.opt.style = "bits" THEN "done" ELSE "reverse",
                          !.exit = 0]

-----------------------------------------------------------------------------
(* run_hex_reverse.                                                        *)

HexDigits == {"0", "1", "2", "6", "7", "a"}

\* A line after its colon, or a plain one: cells with a blank between groups, two
\* blanks, the sidebar.
HexPart(line, o) ==
  LET g == o.layout.group
      gap(i) == IF g > 0 /\ i % g = 0 /\ i < o.layout.cols THEN <<" ">> ELSE <<>>
  IN  IF o.style = "plain" THEN FlattenSeq(line.cells)
      ELSE <<" ">> \o FlattenSeq([i \in DOMAIN line.cells |-> line.cells[i] \o gap(i)])
             \o <<" ", " ">> \o line.sidebar

\* Hex digits, wherever they are, until another character comes after 32 of them.
TakeChar(acc, c, colon) ==
  CASE acc.stop \/ (c = " " /\ Len(acc.hex) % 2 = 0) -> acc
    [] ~acc.stop /\ c \in HexDigits -> [acc EXCEPT !.hex = Append(@, c)]
    [] OTHER -> [acc EXCEPT !.stop = colon /\ Len(acc.hex) >= 32]

TakeAll(acc, text, colon) ==
  LET taken[i \in 0 .. Len(text)] ==
        IF i = 0 THEN acc ELSE TakeChar(taken[i - 1], text[i], colon)
  IN  taken[Len(text)]

CleanHex(text, colon) == TakeAll([hex |-> <<>>, stop |-> FALSE], text, colon).hex

ReverseLine(line, o) ==
  LET hex == IF line.shown THEN CleanHex(HexPart(line, o), o.style # "plain") ELSE <<>>
  IN  [i \in 1 .. Len(hex) \div 2 |-> <<hex[2 * i - 1], hex[2 * i]>>]

ReverseDump ==
  /\ bhxx.pc = "reverse"
  /\ bhxx' = [bhxx EXCEPT !.pc = "done",
                !.back = FlattenSeq([i \in DOMAIN bhxx.dump |->
                                       ReverseLine(bhxx.dump[i], bhxx.opt)])]

BhxxStep == BhxxOpen \/ SkipLine \/ ShowLine \/ DumpEnds \/ ReverseDump

-----------------------------------------------------------------------------
(* Properties.                                                             *)

\* What was asked for.  -s counts on a file only; -c 0 shows nothing.
Wanted ==
  LET o == bhxx.opt
      rest == SubSeq(bhxx.input, o.seek + 1, Len(bhxx.input))
  IN  IF o.len = 0 THEN rest ELSE SubSeq(rest, 1, Lesser(o.len, Len(rest)))

\* Calls that mean what they say: not an output that is the input, not -s on standard
\* input, not -e with groups that do not fill the line.
Sensible ==
  LET o == bhxx.opt IN
  /\ ~o.sameFile /\ (o.stdin => o.seek = 0) /\ o.layout.cols > 0
  /\ Swaps(o) => o.layout.cols % o.layout.group = 0

\* The cells of a line in the order of the file: with -e, each group read backwards.
InOrder(cells, o) ==
  LET g == IF Swaps(o) THEN o.layout.group ELSE 1
  IN  FlattenSeq([k \in 1 .. Len(cells) \div g |->
                    Reverse(SubSeq(cells, (k - 1) * g + 1, k * g))])

\* The byte at offset k is read off the last line that starts at or before it: in its
\* column, or, where a "*" follows that line, in the column it would have.
ShownAt(k) ==
  LET o == bhxx.opt
      n == Max({i \in DOMAIN bhxx.dump : bhxx.dump[i].shown /\ bhxx.dump[i].offset <= k})
      line == bhxx.dump[n]
      column == ((k - line.offset) % o.layout.cols) + 1
  IN  /\ k - line.offset >= o.layout.cols => n < Len(bhxx.dump) /\ ~bhxx.dump[n + 1].shown
      /\ column <= Len(line.sidebar)
      /\ InOrder(line.cells, o)[column] = Wanted[k - o.seek + 1]
      /\ line.sidebar[column] = Printed(Wanted[k - o.seek + 1])

\* A complete dump shows every byte asked for, at its offset, in the cells as in the
\* sidebar, and no other; lines replaced by "*" can be told from the offsets.
DumpShows ==
  bhxx.exit = 0 /\ Sensible /\ bhxx.opt.style # "plain" =>
    /\ \A k \in bhxx.opt.seek .. bhxx.opt.seek + Len(Wanted) - 1 : ShownAt(k)
    /\ bhxx.total = Len(Wanted)
    /\ \A i \in DOMAIN bhxx.dump :
         Cardinality({j \in DOMAIN bhxx.dump[i].cells : bhxx.dump[i].cells[j] # NoByte})
           = Len(bhxx.dump[i].sidebar)

\* Converting back gives the bytes that were dumped: of a plain dump always, of another
\* if no character of its sidebar is a hex digit and its bytes are in order.  (A sidebar
\* with hex digits adds bytes; "*" lines are lost.)
ReverseRestores ==
  /\ bhxx.pc = "done" /\ bhxx.exit = 0 /\ Sensible
  /\ ~bhxx.opt.autoskip
  /\ \/ bhxx.opt.style = "plain"
     \/ /\ bhxx.opt.style = "hex" /\ ~bhxx.opt.little
        /\ \A i \in DOMAIN Wanted : Printed(Wanted[i]) \notin HexDigits
  => bhxx.back = Wanted

\* Nothing of the file is lost on the way to the reader or back.
DumpIsFaithful == DumpShows /\ ReverseRestores
=============================================================================
