------------------------------- MODULE Buniq -------------------------------
(***************************************************************************)
(* devutils' buniq (buniq.cpp): the records of the input are grouped by a  *)
(* key, next to each other or, with -aj, wherever they are, and each mode  *)
(* prints its choice of groups.  The whole input is read before the output *)
(* is opened.  Characters are "a", "A" (one letter in two cases), "b",     *)
(* "sp" (a blank) and "nl" (the record delimiter).                         *)
(***************************************************************************)
EXTENDS Integers, SequencesExt, FiniteSetsExt

CONSTANTS
  BuniqInputs,   \* the contents of the input file
  BuniqKeys      \* what the key is made of: records [i, f, s, w]

VARIABLE buniq   \* the program: see BuniqStart

-----------------------------------------------------------------------------
\* set_mode: each mode with the methods it can have; -d, -D and -u have none.
BuniqModes ==
  {<<"default", "separate">>, <<"duplicates", "none">>, <<"unique", "none">>}
    \cup {<<"all-repeated", m>> : m \in {"none", "prepend", "separate"}}
    \cup {<<"group", m>> : m \in {"separate", "prepend", "append", "both"}}

BuniqOptions == [mode : BuniqModes, nonAdjacent : BOOLEAN, key : BuniqKeys]

IsBlank(c) == c = "sp"

\* The position after the characters from pos on that satisfy P.
SkipWhile(P(_), s, pos) ==
  Min({Len(s) + 1} \cup {i \in pos .. Len(s) : ~P(s[i])})

\* One field: blanks, then what is not blank; nothing if the record ends in the blanks.
SkipField(s, pos) ==
  SkipWhile(LAMBDA c : ~IsBlank(c), s, SkipWhile(IsBlank, s, pos))

\* make_key: fields, the blanks after them, characters; at most w of the rest.
MakeKey(s, key) ==
  LET field[n \in 0 .. key.f] == IF n = 0 THEN 1 ELSE SkipField(s, field[n - 1])
      start == IF key.f = 0 THEN 1 ELSE SkipWhile(IsBlank, s, field[key.f])
      skipped == Min({start + key.s, Len(s) + 1})
      text == SubSeq(s, skipped, Min({Len(s), skipped + key.w - 1}))
  IN  IF key.i THEN [i \in DOMAIN text |-> IF text[i] = "A" THEN "a" ELSE text[i]] ELSE text

\* read_records: a record ends at a delimiter, or at the end if it is not empty.
ReadRecords(s) ==
  LET step(acc, c) == IF c = "nl"
                      THEN [done |-> Append(acc.done, acc.record), record |-> <<>>]
                      ELSE [acc EXCEPT !.record = Append(@, c)]
      last == FoldLeft(step, [done |-> <<>>, record |-> <<>>], s)
  IN  IF last.record = <<>> THEN last.done ELSE Append(last.done, last.record)

\* Mutant: without -aj, too, a record joins the group its key was first seen in.
GroupOfAnywhere(groups, key, o) ==
  LET same == {g \in DOMAIN groups : groups[g].key = key}
  IN  IF same = {} THEN 0 ELSE Min(same)

\* The group a record with this key joins, 0 for a new one: the last, or with -aj the
\* one the map of keys has.
GroupOf(groups, key, o) ==
  LET same == {g \in DOMAIN groups :
                 groups[g].key = key /\ (o.nonAdjacent \/ g = Len(groups))}
  IN  IF same = {} THEN 0 ELSE Min(same)

\* make_groups.  The representative is the first record, and the count their number.
MakeGroups(records, o) ==
  LET join(groups, record) ==
        LET key == MakeKey(record, o.key)
            g == GroupOf(groups, key, o)
        IN  IF g = 0 THEN Append(groups, [key |-> key, records |-> <<record>>])
            ELSE [groups EXCEPT ![g].records = Append(@, record)]
  IN  FoldLeft(join, <<>>, records)

Selected(group, o) ==
  CASE o.mode[1] \in {"default", "group"} -> TRUE
    [] o.mode[1] \in {"duplicates", "all-repeated"} -> Len(group.records) > 1
    [] o.mode[1] = "unique" -> Len(group.records) = 1

\* emit_group: records with the count that -c puts before them.
EmitGroup(group, o) ==
  LET kept == IF o.mode[1] \in {"all-repeated", "group"} THEN group.records
              ELSE <<Head(group.records)>>
  IN  [i \in DOMAIN kept |-> [count |-> Len(group.records), record |-> kept[i]]]

\* write_empty_record.
EmptyRecord == <<[count |-> 0, record |-> <<>>]>>

\* write_output.
WriteOutput(groups, o) ==
  LET emitted == SelectSeq(groups, LAMBDA g : Selected(g, o))
      blank(condition) == IF condition /\ emitted # <<>> THEN EmptyRecord ELSE <<>>
      separate == o.mode[1] \in {"all-repeated", "group"} /\ o.mode[2] = "separate"
  IN  blank(o.mode[2] \in {"prepend", "both"})
        \o FlattenSeq([i \in DOMAIN emitted |->
             blank(separate /\ i > 1) \o EmitGroup(emitted[i], o)])
        \o blank(o.mode[2] \in {"append", "both"})

-----------------------------------------------------------------------------
\* opt, pc, the input file, the records read, the output file ("old": as it was),
\* the exit status.
BuniqStart(opt, input) ==
  [opt |-> opt, pc |-> "read", input |-> input, records |-> <<>>, output |-> <<"old">>,
   exit |-> -1]

BuniqInit == buniq \in {BuniqStart(opt, s) : opt \in BuniqOptions, s \in BuniqInputs}

\* The same file twice (2), an input that cannot be opened or read, an output that
\* cannot be opened (1).
BuniqFails ==
  \/ /\ buniq.pc = "read"
     /\ \E status \in {1, 2} : buniq' = [buniq EXCEPT !.pc = "done", !.exit = status]
  \/ /\ buniq.pc = "write"
     /\ buniq' = [buniq EXCEPT !.pc = "done", !.exit = 1]

BuniqReads ==
  /\ buniq.pc = "read"
  /\ buniq' = [buniq EXCEPT !.pc = "write", !.records = ReadRecords(buniq.input)]

\* The output is truncated, the groups are made and written; a write may fail.
BuniqWrites ==
  /\ buniq.pc = "write"
  /\ \/ buniq' = [buniq EXCEPT !.pc = "done", !.exit = 0,
                    !.output = WriteOutput(MakeGroups(buniq.records, buniq.opt), buniq.opt)]
     \/ buniq' = [buniq EXCEPT !.pc = "done", !.exit = 1, !.output = <<"cut">>]

BuniqStep == BuniqFails \/ BuniqReads \/ BuniqWrites

-----------------------------------------------------------------------------
(* Reference: which records belong together, said with positions.          *)

\* For each position, those whose records belong with its own, given all their keys.
Classes(key, nonAdjacent) ==
  [i \in DOMAIN key |->
    {j \in DOMAIN key :
       /\ key[j] = key[i]
       /\ nonAdjacent \/ \A k \in Min({i, j}) .. Max({i, j}) : key[k] = key[i]}]

\* Whether a mode keeps a position.
Keeps(mode, i, class) ==
  CASE mode = "default"      -> i = Min(class)
    [] mode = "duplicates"   -> i = Min(class) /\ Cardinality(class) > 1
    [] mode = "unique"       -> Cardinality(class) = 1
    [] mode = "all-repeated" -> Cardinality(class) > 1
    [] mode = "group"        -> TRUE

\* The positions kept, each class at the place of its first record.
KeptPositions(class, mode) ==
  SetToSortSeq({i \in DOMAIN class : Keeps(mode, i, class[i])},
               LAMBDA i, j : \/ Min(class[i]) < Min(class[j])
                             \/ class[i] = class[j] /\ i < j)

\* The empty records a mode adds to what is kept.
Blanks(mode, kept, class) ==
  CASE kept = <<>> -> 0
    [] mode[1] \in {"all-repeated", "group"} /\ mode[2] = "separate" ->
         Cardinality({class[i] : i \in ToSet(kept)}) - 1
    [] mode[2] \in {"prepend", "append"} -> 1
    [] mode[2] = "both" -> 2
    [] OTHER -> 0

\* What the output is to be, kept and class given.
OutputIs(kept, class) ==
  LET written == SelectSeq(buniq.output, LAMBDA r : r.count > 0)
  IN  /\ written = [n \in DOMAIN kept |-> [count |-> Cardinality(class[kept[n]]),
                                           record |-> buniq.records[kept[n]]]]
      /\ Len(buniq.output) - Len(written) = Blanks(buniq.opt.mode, kept, class)

ClassesSelected(class) == OutputIs(KeptPositions(class, buniq.opt.mode[1]), class)

\* A finished buniq has written the records of the classes the mode asks for, each once
\* and in the order of the classes' first records, with the size of its class; only
\* --group and --all-repeated add empty records, one between two classes, or one at an
\* end.  A failed one that did not open its output has left it alone.
BuniqSelects ==
  /\ buniq.exit = 0 =>
       ClassesSelected(Classes([i \in DOMAIN buniq.records |->
                                  MakeKey(buniq.records[i], buniq.opt.key)],
                               buniq.opt.nonAdjacent))
  /\ buniq.exit = 2 \/ buniq.pc # "done" => buniq.output = <<"old">>
=============================================================================
