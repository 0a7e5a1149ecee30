--------------------------------- MODULE Kp ---------------------------------
(***************************************************************************)
(* devutils' kp (kp.cpp): replaces a text in the selected lines of a file, *)
(* or whole lines, or counts what it would replace.  OLD and NEW become a  *)
(* regular expression and its replacement, so that what is special in them *)
(* has to be escaped; std::regex is external.  Characters: "a" and "A"     *)
(* (one letter), "." (matches any character unless escaped), "$" (one      *)
(* dollar of a replacement is written as two), and the newline "nl".       *)
(***************************************************************************)
EXTENDS Integers, SequencesExt, FiniteSetsExt

CONSTANTS
  KpInputs,   \* the contents of the input file
  KpTexts,    \* OLD and NEW: pairs of sequences of characters, OLD not empty
  KpRanges    \* -R A:B, -r A, -Rr A: records [kind, from, to]

\* A line of the file is a sequence of characters without a newline, and so are OLD and NEW.
ASSUME KpAssumption ==
  /\ KpInputs \subseteq Seq(STRING)
  /\ KpTexts \subseteq (Seq(STRING \ {"nl"}) \ {<<>>}) \X Seq(STRING \ {"nl"})
  /\ KpRanges \subseteq
       [kind : {"all", "range", "first", "last"}, from : Nat \ {0}, to : Nat]

VARIABLE kp   \* the program: see KpStart

-----------------------------------------------------------------------------
KpOptions == [text : KpTexts, range : KpRanges, inside : BOOLEAN, first : BOOLEAN,
              invert : BOOLEAN, count : BOOLEAN, ignoreCase : BOOLEAN]

\* Mutant: the dot is left as it is.
EscapeRegexKeepsDot(old) == [i \in DOMAIN old |-> [char |-> old[i], escaped |-> FALSE]]

Special == {"\\", ".", "^", "$", "|", "(", ")", "[", "]", "{", "}", "*", "+", "?"}

\* escapeRegex: every special character is escaped.
EscapeRegex(old) == [i \in DOMAIN old |-> [char |-> old[i], escaped |-> old[i] \in Special]]

\* Whether a character is what one element of the expression stands for.
Accepted(element, c, ignoreCase) ==
  \/ element.char = c
  \/ element.char = "." /\ ~element.escaped
  \/ ignoreCase /\ {element.char, c} = {"a", "A"}

MatchAt(line, i, expr, o) ==
  /\ i + Len(expr) - 1 <= Len(line)
  /\ \A k \in DOMAIN expr : Accepted(expr[k], line[i + k - 1], o.ignoreCase)

\* A position that matches is found after the end of the match before.
NextMatch(found, line, i, expr, o) ==
  IF MatchAt(line, i, expr, o) /\ (found # <<>> => Last(found) + Len(expr) <= i)
  THEN Append(found, i) ELSE found

\* std::sregex_iterator: the matches, from left to right.
Matches(line, expr, o) ==
  LET upTo[i \in 0 .. Len(line)] ==
        IF i = 0 THEN <<>> ELSE NextMatch(upTo[i - 1], line, i, expr, o)
  IN  upTo[Len(line)]

\* countMatches: the whole line, or with -mi every match inside it.
CountMatches(line, expr, o) ==
  IF o.inside THEN Len(Matches(line, expr, o))
  ELSE IF Len(line) = Len(expr) /\ MatchAt(line, 1, expr, o) THEN 1 ELSE 0

\* escapeReplacement, and std::match_results::format, which undoes it.
EscapeReplacement(new) ==
  FlattenSeq([i \in DOMAIN new |-> IF new[i] = "$" THEN <<"$", "$">> ELSE <<new[i]>>])

\* The second of two dollars adds nothing.
FormatChar(acc, c) ==
  IF acc.dollar /\ c = "$" THEN [acc EXCEPT !.dollar = FALSE]
  ELSE [text |-> Append(acc.text, c), dollar |-> c = "$"]

Formatted(format) ==
  LET upTo[i \in 0 .. Len(format)] ==
        IF i = 0 THEN [text |-> <<>>, dollar |-> FALSE] ELSE FormatChar(upTo[i - 1], format[i])
  IN  upTo[Len(format)].text

\* replaceLine: the line if nothing matches.
ReplaceLine(line, expr, o) ==
  LET new == Formatted(EscapeReplacement(o.text[2]))
      all == Matches(line, expr, o)
      used == IF o.first /\ all # <<>> THEN <<Head(all)>> ELSE all
      \* what stands at position i of the result
      piece(i) == IF Contains(used, i) THEN new
                  ELSE IF \E k \in DOMAIN used : i \in used[k] .. (used[k] + Len(expr) - 1)
                  THEN <<>> ELSE <<line[i]>>
  IN  IF o.inside THEN FlattenSeq([i \in DOMAIN line |-> piece(i)])
      ELSE IF CountMatches(line, expr, o) = 1 THEN new ELSE line

\* main()'s loop over the content.
SplitChar(acc, c) ==
  IF c = "nl" THEN [done |-> Append(acc.done, acc.line), line |-> <<>>]
  ELSE [acc EXCEPT !.line = Append(@, c)]

SplitLines(s) ==
  LET upTo[i \in 0 .. Len(s)] ==
        IF i = 0 THEN [done |-> <<>>, line |-> <<>>] ELSE SplitChar(upTo[i - 1], s[i])
      end == upTo[Len(s)]
  IN  IF end.line = <<>> THEN end.done ELSE Append(end.done, end.line)

LineSelected(i, total, range) ==
  CASE range.kind = "all"   -> TRUE
    [] range.kind = "range" -> range.from <= i /\ i <= range.to
    [] range.kind = "first" -> i <= range.to
    [] range.kind = "last"  -> i > total - Min({total, range.from})

\* One line: what becomes of it, and how many replacements that is.
EditLine(line, expr, o) ==
  LET n == CountMatches(line, expr, o)
  IN  IF o.invert
      THEN IF n # 0 THEN [line |-> line, count |-> 0] ELSE [line |-> o.text[2], count |-> 1]
      ELSE IF n = 0 THEN [line |-> line, count |-> 0]
      ELSE [line |-> ReplaceLine(line, expr, o),
            count |-> IF o.inside /\ ~o.first THEN n ELSE 1]

Total(counts) == FoldLeft(LAMBDA n, count : n + count, 0, counts)

EditLines(lines, o) ==
  LET expr == EscapeRegex(o.text[1])
  IN  [i \in DOMAIN lines |-> IF LineSelected(i, Len(lines), o.range)
                              THEN EditLine(lines[i], expr, o)
                              ELSE [line |-> lines[i], count |-> 0]]

JoinLines(lines, finalNewline) ==
  FlattenSeq([i \in DOMAIN lines |->
    IF i < Len(lines) \/ finalNewline THEN Append(lines[i], "nl") ELSE lines[i]])

-----------------------------------------------------------------------------
\* opt, pc, the input file, what the output file holds at the end ("old": what it was,
\* "cut": some of what was written), what -c prints, the exit status; and history: whether
\* a buffer was lost when the stream was closed.
KpStart(opt, input) ==
  [opt |-> opt, pc |-> "read", input |-> input, output |-> <<"old">>, count |-> -1,
   exit |-> -1, lost |-> FALSE]

KpInit == kp \in {KpStart(opt, s) : opt \in KpOptions, s \in KpInputs}

\* The input cannot be read, the output cannot be opened, or write() fails at once, with
\* more text than the stream's buffer takes.
KpFails ==
  \/ /\ kp.pc = "read"
     /\ kp' = [kp EXCEPT !.pc = "done", !.exit = 1]
  \/ /\ kp.pc = "edit" /\ ~kp.opt.count
     /\ \E output \in {<<"old">>, <<"cut">>} :
          kp' = [kp EXCEPT !.pc = "done", !.exit = 1, !.output = output]

KpReads == kp.pc = "read" /\ kp' = [kp EXCEPT !.pc = "edit"]

\* The stream is looked at as soon as it has taken the text.  What is in its buffer is
\* written when it is destroyed, or by exit(): a failure then is nobody's, and -c looks at
\* no failure at all.
KpEdits ==
  LET edited == EditLines(SplitLines(kp.input), kp.opt)
      final == kp.input # <<>> /\ Last(kp.input) = "nl"
      text == JoinLines([i \in DOMAIN edited |-> edited[i].line], final)
  IN  /\ kp.pc = "edit"
      /\ \E lost \in BOOLEAN :
           kp' = IF kp.opt.count
                 THEN [kp EXCEPT !.pc = "done", !.exit = 0, !.lost = lost,
                         !.count = Total([i \in DOMAIN edited |-> edited[i].count])]
                 ELSE [kp EXCEPT !.pc = "done", !.exit = 0, !.lost = lost,
                         !.output = IF lost THEN <<"cut">> ELSE text]

KpStep == KpFails \/ KpReads \/ KpEdits

-----------------------------------------------------------------------------
(* Reference: the occurrences of OLD as plain text.                        *)

SameChar(c, d, o) == c = d \/ (o.ignoreCase /\ {c, d} = {"a", "A"})

OccursAt(line, i, o) ==
  LET old == o.text[1] IN
  /\ i + Len(old) - 1 <= Len(line)
  /\ \A k \in DOMAIN old : SameChar(old[k], line[i + k - 1], o)

\* The occurrences replaced: no two overlap, and one left out overlaps an earlier one.
Replaced(line, o) ==
  LET n == Len(o.text[1])
      all == {i \in DOMAIN line : OccursAt(line, i, o)}
      greedy == CHOOSE g \in SUBSET all :
                  /\ \A i, j \in g : i < j => i + n <= j
                  /\ \A i \in all \ g : \E j \in g : j < i /\ i < j + n
  IN  IF o.first /\ all # {} THEN {Min(greedy)} ELSE greedy

\* A selected line as it has to be, and the replacements that takes.
Expected(line, o) ==
  LET old == o.text[1]
      new == o.text[2]
      at == Replaced(line, o)
      hit == IF o.inside THEN at # {} ELSE Len(line) = Len(old) /\ OccursAt(line, 1, o)
      left(i) == \A j \in at : i \notin j .. (j + Len(old) - 1)
      inside == FlattenSeq([i \in DOMAIN line |->
                  IF i \in at THEN new ELSE IF left(i) THEN <<line[i]>> ELSE <<>>])
  IN  IF o.invert THEN IF hit THEN <<line, 0>> ELSE <<new, 1>>
      ELSE IF ~hit THEN <<line, 0>>
      ELSE IF o.inside THEN <<inside, Cardinality(at)>>
      ELSE <<new, 1>>

\* The lines a range means, whatever the number of lines there is.
InRange(i, total, range) ==
  CASE range.kind = "all"   -> TRUE
    [] range.kind = "range" -> i \in range.from .. range.to
    [] range.kind = "first" -> i \in 1 .. range.to
    [] range.kind = "last"  -> i \in (total - range.from + 1) .. total

Newlines(s) == Cardinality({i \in DOMAIN s : s[i] = "nl"})

\* What is special in OLD or NEW for a regular expression is not special for kp: OLD is
\* replaced where it stands as text, in the selected lines only, without looking again
\* into what was put there; line ends stay, the last one too; and -c counts what the
\* same call without it replaces, and leaves the output alone.  Status 0 promises that
\* much of what the stream has taken; the file has it unless the last buffer was lost.
KpReplacesText ==
  LET lines == SplitLines(kp.input)
      total == Len(lines)
      want == [i \in DOMAIN lines |-> IF InRange(i, total, kp.opt.range)
                                      THEN Expected(lines[i], kp.opt) ELSE <<lines[i], 0>>]
  IN  kp.exit = 0 =>
        IF kp.opt.count
        THEN kp.count = Total([i \in DOMAIN lines |-> want[i][2]]) /\ kp.output = <<"old">>
        ELSE kp.lost
          \/ /\ Newlines(kp.output) = Newlines(kp.input)
             /\ \A i \in DOMAIN lines :
                  want[i][1] # <<>> \/ i < total =>
                    i \in DOMAIN SplitLines(kp.output) /\ SplitLines(kp.output)[i] = want[i][1]
=============================================================================
