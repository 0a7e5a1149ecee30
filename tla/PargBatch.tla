------------------------------ MODULE PargBatch ------------------------------
(***************************************************************************)
(* What parg.cpp runs: from the bytes of the input to the argument vector  *)
(* of every command.  main() reads the input, cuts it into tokens, groups  *)
(* the tokens into batches by count (-mx) or by lines (-L), and each batch *)
(* becomes one command line: appended, or substituted for a placeholder    *)
(* (-p one token, -J the whole batch).  The pool that runs the batches is  *)
(* module Parg.                                                            *)
(*                                                                         *)
(* A character is one of a few classes: an ordinary one, one that is the   *)
(* placeholder, a blank, newline and carriage return.                      *)
(***************************************************************************)
EXTENDS Naturals, SequencesExt, FiniteSetsExt

CONSTANTS
  InputLength,   \* longest input considered
  Chars,         \* characters that occur in it
  Limits         \* values of -mx and -L considered, 0 for "not given"

ASSUME ParameterAssumption ==
  /\ InputLength \in Nat
  /\ Chars \subseteq {"x", "P", "blank", "nl", "cr"}
  /\ Limits \subseteq Nat

VARIABLES
  options,  \* the options parseOptions accepted
  input,    \* the bytes of the input
  stage,    \* where main() is
  text,     \* what readInput returned
  batches,  \* the batches
  argvs,    \* the argument vector of each batch
  status    \* exit status when main ends before the pool runs

planVars == <<options, input, stage, text, batches, argvs, status>>

-----------------------------------------------------------------------------
(* Options.  A delimiter is <<>> (blanks separate) or a non-empty string;  *)
(* -0 is the delimiter of one character.  holder is the placeholder        *)
(* option in use.                                                          *)

Delimiters == {<<>>, <<"blank">>, <<"blank", "blank">>}

\* parseOptions: -mx excludes -L, -p excludes both.
PlanOptions == {o \in [maxArgs : Limits, maxLines : Limits, delimiter : Delimiters,
                       holder : {"none", "p", "J"}, noRunEmpty : BOOLEAN,
                       inputFile : BOOLEAN] :
                  /\ o.maxArgs = 0 \/ o.maxLines = 0
                  /\ o.holder = "p" => o.maxArgs = 0 /\ o.maxLines = 0}

\* The command: two arguments, the placeholder twice in one of them and once in
\* the other.  parseOptions refuses -p and -J when it occurs nowhere.
Command == <<<<"c">>, <<"c", "P", "P">>, <<"P">>>>

-----------------------------------------------------------------------------
(* split: three loops over the input, one per kind of separator.           *)

IsSpace(c) == c \in {"blank", "nl", "cr"}

\* std::string::find(d, start), with the length plus one for npos.
Find(s, d, start) ==
  Min({Len(s) + 1} \cup
      {i \in start .. (Len(s) + 1 - Len(d)) : SubSeq(s, i, i + Len(d) - 1) = d})

\* Append piece unless it is empty, as every loop of split does.
Keep(pieces, piece) == IF piece = <<>> THEN pieces ELSE Append(pieces, piece)

\* Where the n-th turn of a loop with find() begins: behind the delimiter of the turn
\* before.
Starts(s, d) ==
  LET start[n \in 1 .. (Len(s) + 1)] ==
        IF n = 1 THEN 1 ELSE Find(s, d, start[n - 1]) + Len(d)
  IN  start

\* What the turns of that loop look at, as long as there is text: pieces, empty ones too,
\* and nothing behind a final delimiter.
Pieces(s, d) ==
  LET start == Starts(s, d)
  IN  [n \in {m \in DOMAIN start : start[m] <= Len(s)} |->
         SubSeq(s, start[n], Find(s, d, start[n]) - 1)]

DelimitedTokens(s, d) ==
  LET pieces == Pieces(s, d) IN FlattenSeq([n \in DOMAIN pieces |-> Keep(<<>>, pieces[n])])

\* One character of the loop over blanks: the tokens so far and the one begun.
BlankStep(acc, c) ==
  IF IsSpace(c) THEN [pieces |-> Keep(acc.pieces, acc.piece), piece |-> <<>>]
  ELSE [acc EXCEPT !.piece = Append(@, c)]

BlankLoop(s) ==
  LET after[n \in 0 .. Len(s)] ==
        IF n = 0 THEN [pieces |-> <<>>, piece |-> <<>>] ELSE BlankStep(after[n - 1], s[n])
  IN  after

\* Mutant: the last token is lost when the input does not end in a blank.
BlankTokensNoTail(s) == BlankLoop(s)[Len(s)].pieces

BlankTokens(s) ==
  LET end == BlankLoop(s)[Len(s)] IN Keep(end.pieces, end.piece)

split(s, o) == IF o.delimiter = <<>> THEN BlankTokens(s)
                                     ELSE DelimitedTokens(s, o.delimiter)

-----------------------------------------------------------------------------
(* makeBatches.                                                            *)

\* The lines of the -L loop: one carriage return is stripped from the end of each.
Chomp(line) == IF line # <<>> /\ Last(line) = "cr" THEN Front(line) ELSE line

Lines(s) ==
  LET pieces == Pieces(s, <<"nl">>) IN [n \in DOMAIN pieces |-> Chomp(pieces[n])]

ByCount(tokens, n) ==
  LET full == Len(tokens) \div n
      count == IF Len(tokens) % n = 0 THEN full ELSE full + 1
  IN  [i \in 1 .. count |->
         SubSeq(tokens, n * (i - 1) + 1, Min({n * i, Len(tokens)}))]

\* Mutant: blank lines count towards -L.
LineStepCountingBlank(acc, tokens, n) ==
  LET current == acc.current \o tokens
      count == acc.count + 1
  IN  IF count = n
      THEN [done |-> Append(acc.done, current), current |-> <<>>, count |-> 0]
      ELSE [done |-> acc.done, current |-> current, count |-> count]

\* A line of the -L loop: the batches so far, the one begun, its lines that hold a token.
LineStep(acc, tokens, n) ==
  LET current == acc.current \o tokens
      count == IF tokens = <<>> THEN acc.count ELSE acc.count + 1
  IN  IF count = n
      THEN [done |-> Append(acc.done, current), current |-> <<>>, count |-> 0]
      ELSE [done |-> acc.done, current |-> current, count |-> count]

LineLoop(lines, n, o) ==
  LET after[k \in 0 .. Len(lines)] ==
        IF k = 0 THEN [done |-> <<>>, current |-> <<>>, count |-> 0]
        ELSE LineStep(after[k - 1], split(lines[k], o), n)
  IN  after

\* n lines that hold a token make a batch; what is left over makes the last.
ByLines(lines, n, o) ==
  LET end == LineLoop(lines, n, o)[Len(lines)] IN Keep(end.done, end.current)

makeBatches(s, o) ==
  IF o.maxLines > 0 THEN ByLines(Lines(s), o.maxLines, o)
  ELSE IF o.maxArgs > 0 THEN ByCount(split(s, o), o.maxArgs)
  ELSE Keep(<<>>, split(s, o))

\* main: -p makes one batch of every token; an empty list of batches still runs
\* the bare command unless -nrun or a placeholder is given.
PlannedBatches(s, o) ==
  LET made == IF o.holder = "p" THEN [i \in DOMAIN split(s, o) |-> <<split(s, o)[i]>>]
                                ELSE makeBatches(s, o)
  IN  IF made = <<>> /\ ~o.noRunEmpty /\ o.holder = "none" THEN <<<<>>>> ELSE made

-----------------------------------------------------------------------------
(* The argument vector of a batch.                                         *)

\* Every placeholder of every argument, left to right, without looking again
\* into the text put in its place.
replaceIndividual(command, value) ==
  LET expand(arg) ==
        FlattenSeq([i \in DOMAIN arg |-> IF arg[i] = "P" THEN value ELSE <<arg[i]>>])
  IN  [i \in DOMAIN command |-> expand(command[i])]

\* Mutant: the placeholder is replaced in every argument, as -p does.
replaceBatchEverywhere(command, values) ==
  FlattenSeq([i \in DOMAIN command |->
    IF "P" \in Range(command[i]) THEN values ELSE <<command[i]>>])

\* The first placeholder of the whole command becomes the batch: its prefix
\* sticks to the first value and, in the code, so does the suffix.
replaceBatch(command, values) ==
  LET holders == {i \in DOMAIN command : "P" \in Range(command[i])}
      k == Min(holders)
      pos == Find(command[k], <<"P">>, 1)
      prefix == SubSeq(command[k], 1, pos - 1)
      suffix == SubSeq(command[k], pos + 1, Len(command[k]))
      inserted == IF values = <<>> THEN <<prefix \o suffix>>
                  ELSE <<prefix \o Head(values) \o suffix>> \o Tail(values)
  IN  SubSeq(command, 1, k - 1) \o inserted
        \o SubSeq(command, k + 1, Len(command))

argvOf(batch, o) ==
  IF o.holder = "p" THEN replaceIndividual(Command, Head(batch))
  ELSE IF o.holder = "J" THEN replaceBatch(Command, batch)
  ELSE Command \o batch

-----------------------------------------------------------------------------
PlanInit ==
  /\ options \in PlanOptions
  /\ input \in UNION {[1 .. n -> Chars] : n \in 0 .. InputLength}
  /\ stage = "read"
  /\ text = <<>> /\ batches = <<>> /\ argvs = <<>>
  /\ status = "none"

\* readInput, then the second look at the file: the first open fails and the
\* second too (status 1), or the first fails and the file is there by the second,
\* so that main goes on with an empty text.
ReadInput ==
  /\ stage = "read"
  /\ \E opened, good \in BOOLEAN :
       /\ opened \/ options.inputFile
       /\ good \/ options.inputFile
       /\ text' = IF opened THEN input ELSE <<>>
       /\ \/ /\ options.inputFile /\ ~good
             /\ stage' = "exit" /\ status' = "1"
          \/ /\ ~options.inputFile \/ good
             /\ IF text' = <<>> /\ options.noRunEmpty
                THEN stage' = "exit" /\ status' = "0"
                ELSE stage' = "batch" /\ status' = status
  /\ UNCHANGED <<options, input, batches, argvs>>

MakeBatches ==
  /\ stage = "batch"
  /\ batches' = PlannedBatches(text, options)
  /\ IF batches' = <<>>
     THEN stage' = "exit" /\ status' = "0"
     ELSE stage' = "build" /\ status' = status
  /\ UNCHANGED <<options, input, text, argvs>>

\* A worker builds the arguments of the batch it claimed.
BuildArgs ==
  /\ stage = "build"
  /\ argvs' = [i \in DOMAIN batches |-> argvOf(batches[i], options)]
  /\ stage' = "run"
  /\ UNCHANGED <<options, input, text, batches, status>>

PlanEnded == stage \in {"exit", "run"} /\ UNCHANGED planVars

PlanNext == ReadInput \/ MakeBatches \/ BuildArgs \/ PlanEnded

PlanSpec == PlanInit /\ [][PlanNext]_planVars

-----------------------------------------------------------------------------
(* Reference definitions: what the words of the documentation ask for,     *)
(* said with positions instead of loops.                                   *)

\* Maximal runs of non-blank characters: a run has as many of them up to it as it is the
\* n-th.
WordsOf(s) ==
  LET words == {w \in (1 .. Len(s)) \X (1 .. Len(s)) :
                  /\ w[1] <= w[2]
                  /\ \A k \in w[1] .. w[2] : ~IsSpace(s[k])
                  /\ w[1] = 1 \/ IsSpace(s[w[1] - 1])
                  /\ w[2] = Len(s) \/ IsSpace(s[w[2] + 1])}
      nth(n) == CHOOSE w \in words : Cardinality({v \in words : v[1] <= w[1]}) = n
  IN  [n \in 1 .. Cardinality(words) |-> SubSeq(s, nth(n)[1], nth(n)[2])]

\* The characters of a text that are no separators.
Letters(s) ==
  FlattenSeq([i \in DOMAIN s |-> IF s[i] \in {"x", "P"} THEN <<s[i]>> ELSE <<>>])

Grouped == stage \in {"build", "run"}

\* No input token is lost, duplicated, cut or moved by the grouping: with blanks
\* as separators the batches put end to end are the words of the input, whatever
\* -mx, -L or -p; with a delimiter no token holds the delimiter, and only
\* delimiters (and, with -L, line ends) are dropped from the text.
TokensPreserved ==
  Grouped =>
    LET tokens == FlattenSeq(batches) IN
    IF options.delimiter = <<>> THEN tokens = WordsOf(text)
    ELSE /\ \A t \in Range(tokens) :
              t # <<>> /\ Find(t, options.delimiter, 1) = Len(t) + 1
         /\ IF options.maxLines = 0
            THEN \A t \in Range(tokens) : Find(text, t, 1) <= Len(text)
            ELSE \A t \in Range(tokens) : "nl" \notin Range(t)
         /\ Letters(FlattenSeq(tokens)) = Letters(text)

\* The lines that have tokens.
WordLines(s, o) ==
  LET lines == Lines(s)
  IN  FlattenSeq([k \in DOMAIN lines |->
        IF split(lines[k], o) = <<>> THEN <<>> ELSE <<lines[k]>>])

NoToken == IF options.maxLines > 0 THEN WordLines(text, options) = <<>>
                                   ELSE split(text, options) = <<>>

\* -mx fills every batch but the last, -L gives every batch but the last exactly
\* that many lines with tokens on them; no batch is empty except the single one
\* that stands for "run the bare command".  The bare command is run exactly when the
\* input holds no token, and neither -nrun nor a placeholder is given: a blank input
\* counts as an empty one.
BatchShape ==
  /\ Grouped =>
       /\ \A i \in DOMAIN batches : batches[i] = <<>> => batches = <<<<>>>>
       /\ options.maxArgs > 0 =>
            /\ \A b \in Range(batches) : Len(b) <= options.maxArgs
            /\ \A i \in 1 .. (Len(batches) - 1) : Len(batches[i]) = options.maxArgs
       /\ options.maxLines > 0 =>
            LET lines == WordLines(text, options) IN
            \A i \in DOMAIN batches :
              batches[i] = FlattenSeq(
                [k \in 1 .. Min({options.maxLines, Len(lines) - options.maxLines * (i - 1)}) |->
                   split(lines[options.maxLines * (i - 1) + k], options)])
  /\ stage \in {"run", "exit"} /\ status # "1" =>
       ((stage = "run" /\ batches = <<<<>>>>)
          <=> (NoToken /\ ~options.noRunEmpty /\ options.holder = "none"))

\* With -p or -J every command still has its own arguments, the batch's tokens
\* appear in it in order and untouched by the text around them, and only -J
\* leaves placeholders of the command standing (all but the first).
Substituted ==
  stage = "run" =>
    \A i \in DOMAIN argvs :
      CASE options.holder = "p" ->
             /\ Len(argvs[i]) = Len(Command)
             /\ argvs[i] = <<<<"c">>, <<"c">> \o batches[i][1] \o batches[i][1],
                             batches[i][1]>>
        [] options.holder = "J" ->
             /\ Len(argvs[i]) = Len(Command) + Len(batches[i]) - 1
             /\ argvs[i][1] = Command[1] /\ Last(argvs[i]) = Last(Command)
             /\ argvs[i][2] = <<"c">> \o Head(batches[i]) \o <<"P">>
             /\ SubSeq(argvs[i], 3, Len(argvs[i]) - 1) = Tail(batches[i])
        [] options.holder = "none" -> argvs[i] = Command \o batches[i]
=============================================================================
