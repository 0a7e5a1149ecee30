---------------------------- MODULE ToolsProofs ----------------------------
(***************************************************************************)
(* Proofs about bgrep, bsplit and bmerge, bpatch, fill, exe and kp, as     *)
(* Tools runs them: for inputs, options and chunk sizes of any kind and    *)
(* length.                                                                 *)
(***************************************************************************)
EXTENDS Tools, TLAPS, FiniteSetTheorems, SequenceTheorems, WellFoundedInduction

-----------------------------------------------------------------------------
(* bgrep.                                                                  *)

Reports == [offset : Nat, window : [start : Nat, bytes : Seq(STRING)]]

GrepStates ==
  [opt : GrepOptions, pc : {"read", "search", "end", "done"}, file : GrepFiles,
   offset : Nat, found : Seq(Reports), exit : {-1, 0, 1}]

\* The reports so far are the occurrences in front of the offset, each once and in order,
\* with the window of its offset; there are no more of them than -m allows.
ReportsInOrder ==
  \A i, j \in DOMAIN grep.found : i < j => grep.found[i].offset < grep.found[j].offset
ReportsOccur ==
  \A i \in DOMAIN grep.found :
    /\ grep.found[i].offset \in Occurrences
    /\ grep.found[i].offset < grep.offset
    /\ grep.found[i].window = Window(grep.opt, grep.found[i].offset)
AllReported ==
  \A k \in Occurrences : k < grep.offset =>
    \E i \in DOMAIN grep.found : grep.found[i].offset = k
MaxReached == grep.opt.max > 0 /\ Len(grep.found) = grep.opt.max
ReportsCounted == grep.opt.max > 0 => Len(grep.found) <= grep.opt.max

\* The loop has looked at every offset, or has met one report too many.
Searched == grep.offset + Len(grep.opt.pattern) > Len(grep.file) \/ MaxReached

GrepPhases ==
  /\ grep.pc = "read" => grep.offset = 0 /\ grep.found = <<>>
  /\ grep.pc = "end" => Searched
  /\ grep.pc = "done" =>
       \/ grep.exit = 1 /\ grep.offset = 0 /\ grep.found = <<>>
       \/ Searched /\ grep.exit = IF grep.found = <<>> THEN 1 ELSE 0

GrepInv ==
  IF tool = "bgrep"
  THEN /\ grep \in GrepStates
       /\ ReportsInOrder /\ ReportsOccur /\ AllReported /\ ReportsCounted
       /\ GrepPhases
  ELSE grep.pc = "read" /\ grep.found = <<>>

-----------------------------------------------------------------------------
(* The search of one offset.                                               *)

\* What the fields of a state of bgrep are.
LEMMA GrepFields ==
  ASSUME grep \in GrepStates
  PROVE  /\ grep.file \in Seq(STRING) /\ grep.opt.pattern \in Seq(STRING)
         /\ grep.opt.ignoreCase \in BOOLEAN /\ grep.opt.hex \in BOOLEAN
         /\ grep.opt.invert \in BOOLEAN /\ grep.opt.context \in 0 .. SizeLimit - 1
         /\ grep.opt.max \in Nat /\ grep.offset \in Nat /\ grep.found \in Seq(Reports)
         /\ SizeLimit \in Nat \ {0}
BY GrepAssumption, SizeAssumption, Zenon DEF GrepStates, GrepOptions

\* Two bytes are one to the search when their folded forms are the same byte.
LEMMA FoldedAlike ==
  ASSUME grep \in GrepStates,
         NEW a \in Seq(STRING), NEW b \in Seq(STRING), NEW i \in DOMAIN a, NEW j \in DOMAIN b
  PROVE  Folded(a, grep.opt)[i] = Folded(b, grep.opt)[j] <=> Alike(a[i], b[j])
<1>1. a[i] \in STRING /\ b[j] \in STRING
  OBVIOUS
<1>2. CASE grep.opt.ignoreCase /\ ~grep.opt.hex
  <2>1. Folded(a, grep.opt)[i] = IF a[i] = "A" THEN "a" ELSE a[i]
    BY <1>2 DEF Folded
  <2>2. Folded(b, grep.opt)[j] = IF b[j] = "A" THEN "a" ELSE b[j]
    BY <1>2 DEF Folded
  <2> QED
    BY <2>1, <2>2, <1>2 DEF Alike
<1>3. CASE ~(grep.opt.ignoreCase /\ ~grep.opt.hex)
  BY <1>3 DEF Folded, Alike
<1> QED
  BY <1>2, <1>3

\* The loop's comparison at an offset tells whether it is an occurrence.
LEMMA MatchIsOccurrence ==
  ASSUME grep \in GrepStates, NEW k \in Nat,
         k + Len(grep.opt.pattern) <= Len(grep.file)
  PROVE  (MatchesAt(Folded(grep.file, grep.opt), Folded(grep.opt.pattern, grep.opt), k)
            # grep.opt.invert) <=> k \in Occurrences
<1> DEFINE m == Len(grep.opt.pattern)
           folded == Folded(grep.file, grep.opt)
           sought == Folded(grep.opt.pattern, grep.opt)
           here == \A i \in 1 .. m : Alike(grep.file[k + i], grep.opt.pattern[i])
<1>1. grep.file \in Seq(STRING) /\ grep.opt.pattern \in Seq(STRING)
  BY GrepFields
<1>2. DOMAIN sought = 1 .. m
  BY <1>1 DEF Folded
<1>3. ASSUME NEW i \in 1 .. m
      PROVE  folded[k + i] = sought[i] <=> Alike(grep.file[k + i], grep.opt.pattern[i])
  <2>1. k + i \in DOMAIN grep.file /\ i \in DOMAIN grep.opt.pattern
    BY <1>1
  <2> QED
    BY <2>1, <1>1, FoldedAlike, Zenon
<1>4. MatchesAt(folded, sought, k) <=> here
  <2>1. MatchesAt(folded, sought, k) <=> \A i \in 1 .. m : folded[k + i] = sought[i]
    BY <1>2 DEF MatchesAt
  <2> QED
    BY <2>1, <1>3
<1>5. k \in 0 .. Len(grep.file) - m
  BY <1>1
<1>6. k \in Occurrences <=> here # grep.opt.invert
  BY <1>5, Zenon DEF Occurrences
<1>7. MatchesAt(folded, sought, k) \in BOOLEAN /\ here \in BOOLEAN
  BY DEF MatchesAt
<1> QED
  BY <1>4, <1>6, <1>7, Zenon

\* An occurrence lies within the file.
LEMMA OccurrencesWithin ==
  ASSUME grep \in GrepStates, NEW k \in Occurrences
  PROVE  k \in Nat /\ k + Len(grep.opt.pattern) <= Len(grep.file)
BY GrepFields DEF Occurrences

\* The window of an offset at which the pattern lies within the file: bytes of the file
\* at most -C before it, which hold all of it unless the length wraps around.
LEMMA WindowOfOffset ==
  ASSUME grep \in GrepStates, NEW k \in Nat,
         k + Len(grep.opt.pattern) <= Len(grep.file)
  PROVE  LET w == Window(grep.opt, k) IN
         /\ w \in [start : Nat, bytes : Seq(STRING)]
         /\ w.start <= k /\ k - w.start <= grep.opt.context
         /\ \A i \in DOMAIN w.bytes : w.bytes[i] = grep.file[w.start + i]
         /\ grep.opt.context * 2 + Len(grep.opt.pattern) < SizeLimit =>
              k + Len(grep.opt.pattern) <= w.start + Len(w.bytes)
<1> DEFINE c == grep.opt.context
           m == Len(grep.opt.pattern)
           n == Len(grep.file)
           start == IF k > c THEN k - c ELSE 0
           span == (c * 2 + m) % SizeLimit
           length == Min({span, n - start})
           w == Window(grep.opt, k)
<1>1. /\ c \in Nat /\ m \in Nat /\ n \in Nat /\ SizeLimit \in Nat \ {0}
      /\ grep.file \in Seq(STRING)
  BY GrepFields
<1>2. /\ start \in Nat /\ start <= k /\ k - start <= c /\ start <= n
      /\ k <= start + c
  BY <1>1
<1>3. span \in Nat /\ (c * 2 + m < SizeLimit => span = c * 2 + m)
  <2>1. ASSUME NEW a \in Nat, NEW b \in Nat \ {0}
        PROVE  a % b \in Nat /\ (a < b => a % b = a)
    BY SMTT(30)
  <2>2. c * 2 + m \in Nat
    BY <1>1
  <2> QED
    BY <2>1, <2>2, <1>1, Zenon
<1>4. length = IF span < n - start THEN span ELSE n - start
  <2> HIDE DEF span, start, n
  <2> QED
    BY <1>1, <1>2, <1>3 DEF Min
<1>5. length \in Nat /\ length <= n - start
  <2> HIDE DEF span, start, n, length
  <2> QED
    BY <1>1, <1>2, <1>3, <1>4
<1>6. w = [start |-> start, bytes |-> SubSeq(grep.file, start + 1, start + length)]
  BY DEF Window
<1> HIDE DEF start, span, length, w, c, m
<1>7. w.start = start /\ w.bytes = SubSeq(grep.file, start + 1, start + length)
  BY <1>6, Zenon
<1>8. /\ w.bytes \in Seq(STRING) /\ Len(w.bytes) = length
      /\ \A i \in DOMAIN w.bytes : w.bytes[i] = grep.file[start + i]
  <2>1. \A i \in start + 1 .. start + length : grep.file[i] \in STRING
    BY <1>1, <1>2, <1>5 DEF n
  <2>2. /\ SubSeq(grep.file, start + 1, start + length) \in Seq(STRING)
        /\ Len(SubSeq(grep.file, start + 1, start + length)) = length
        /\ \A i \in 1 .. length :
             SubSeq(grep.file, start + 1, start + length)[i] = grep.file[start + i]
    <3>1. ASSUME NEW f, NEW a \in Nat, NEW l \in Nat, \A i \in a + 1 .. a + l : f[i] \in STRING
          PROVE  /\ SubSeq(f, a + 1, a + l) \in Seq(STRING)
                 /\ Len(SubSeq(f, a + 1, a + l)) = l
                 /\ \A i \in 1 .. l : SubSeq(f, a + 1, a + l)[i] = f[a + i]
      <4>1. a + 1 \in Int /\ a + l \in Int /\ a + l - (a + 1) + 1 = l
        OBVIOUS
      <4>2. \A i \in 1 .. l : (a + 1) + i - 1 = a + i
        OBVIOUS
      <4> QED
        BY <3>1, <4>1, <4>2, SubSeqProperties
    <3> QED
      BY <2>1, <3>1, <1>2, <1>5, Zenon
  <2>3. w.bytes \in Seq(STRING) /\ Len(w.bytes) = length
    BY <2>2, <1>7
  <2>4. DOMAIN w.bytes = 1 .. length
    BY <2>3
  <2> QED
    BY <2>2, <2>3, <2>4, <1>7, Zenon
<1>9. c * 2 + m < SizeLimit => k + m <= start + length
  <2> SUFFICES ASSUME c * 2 + m < SizeLimit
               PROVE  k + m <= start + length
    OBVIOUS
  <2>1. CASE span < n - start
    BY <2>1, <1>1, <1>2, <1>3, <1>4
  <2>2. CASE ~(span < n - start)
    <3>1. k + m <= n
      BY DEF m
    <3> QED
      BY <2>2, <3>1, <1>1, <1>2, <1>3, <1>4
  <2> QED
    BY <2>1, <2>2
<1>10. w \in [start : Nat, bytes : Seq(STRING)]
  BY <1>2, <1>6, <1>7, <1>8
<1> QED
  BY <1>2, <1>7, <1>8, <1>9, <1>10, Zenon DEF w, c, m

-----------------------------------------------------------------------------
(* The steps of bgrep.                                                     *)

\* What the search reports of a state that differs only in offset and reports.
LEMMA OccurrencesStay ==
  ASSUME grep \in GrepStates, grep'.opt = grep.opt, grep'.file = grep.file
  PROVE  /\ Occurrences' = Occurrences
         /\ \A k : Window(grep.opt, k)' = Window(grep.opt, k)
BY DEF Occurrences, Alike, Window

LEMMA GrepInitInv == Init => GrepInv
<1> SUFFICES ASSUME Init
             PROVE  GrepInv
  OBVIOUS
<1>1. CASE tool # "bgrep"
  BY <1>1 DEF Init, GrepIdle, GrepStart, GrepInv
<1>2. CASE tool = "bgrep"
  <2>1. PICK opt \in GrepOptions, file \in GrepFiles : grep = GrepStart(opt, file)
    BY <1>2 DEF Init, GrepInit
  <2>2. /\ grep.opt = opt /\ grep.pc = "read" /\ grep.file = file
        /\ grep.offset = 0 /\ grep.found = <<>> /\ grep.exit = -1
    BY <2>1 DEF GrepStart
  <2>3. grep \in GrepStates
    BY <2>1 DEF GrepStart, GrepStates
  <2>4. \A k \in Occurrences : k \in Nat
    BY <2>3, OccurrencesWithin
  <2>5. ReportsInOrder /\ ReportsOccur /\ AllReported
    BY <2>2, <2>4 DEF ReportsInOrder, ReportsOccur, AllReported
  <2>6. ReportsCounted
    BY <2>2, <2>3, GrepFields DEF ReportsCounted
  <2>7. GrepPhases
    BY <2>2 DEF GrepPhases
  <2> QED
    BY <1>2, <2>3, <2>5, <2>6, <2>7 DEF GrepInv
<1> QED
  BY <1>1, <1>2

\* Steps that leave the options, the file, the offset and the reports alone.
LEMMA GrepKeepsReports ==
  ASSUME grep \in GrepStates, grep' \in GrepStates,
         ReportsInOrder, ReportsOccur, AllReported, ReportsCounted,
         grep'.opt = grep.opt, grep'.file = grep.file,
         grep'.offset = grep.offset, grep'.found = grep.found
  PROVE  (ReportsInOrder /\ ReportsOccur /\ AllReported /\ ReportsCounted)'
<1>1. Occurrences' = Occurrences /\ \A k : Window(grep.opt, k)' = Window(grep.opt, k)
  BY OccurrencesStay
<1>2. ReportsInOrder'
  BY DEF ReportsInOrder
<1>3. ReportsOccur'
  BY <1>1 DEF ReportsOccur
<1>4. AllReported'
  BY <1>1 DEF AllReported
<1>5. ReportsCounted'
  BY DEF ReportsCounted
<1> QED
  BY <1>2, <1>3, <1>4, <1>5

\* A report of an occurrence, when -m allows it.
LEMMA GrepReports ==
  ASSUME grep \in GrepStates,
         ReportsInOrder, ReportsOccur, AllReported, ReportsCounted,
         grep.offset \in Occurrences,
         ~(grep.opt.max > 0 /\ Len(grep.found) >= grep.opt.max),
         grep' = [grep EXCEPT !.offset = grep.offset + 1,
                    !.found = Append(grep.found,
                                [offset |-> grep.offset,
                                 window |-> Window(grep.opt, grep.offset)])]
  PROVE  /\ grep' \in GrepStates
         /\ (ReportsInOrder /\ ReportsOccur /\ AllReported /\ ReportsCounted)'
         /\ grep'.pc = grep.pc
<1> DEFINE window == Window(grep.opt, grep.offset)
           report == [offset |-> grep.offset, window |-> window]
           l == Len(grep.found)
<1>1. grep.offset \in Nat /\ grep.found \in Seq(Reports) /\ grep.opt.max \in Nat
  BY GrepFields
<1>2. report \in Reports
  <2>1. grep.offset + Len(grep.opt.pattern) <= Len(grep.file)
    BY OccurrencesWithin
  <2>2. window \in [start : Nat, bytes : Seq(STRING)]
    BY <1>1, <2>1, WindowOfOffset
  <2> HIDE DEF window
  <2> QED
    BY <1>1, <2>2 DEF Reports
<1>3. report.offset = grep.offset /\ report.window = window
  OBVIOUS
<1> HIDE DEF report, window
<1>4. /\ grep'.opt = grep.opt /\ grep'.file = grep.file /\ grep'.pc = grep.pc
      /\ grep'.exit = grep.exit
      /\ grep'.offset = grep.offset + 1 /\ grep'.found = Append(grep.found, report)
  BY DEF GrepStates, report, window
<1>5. grep' \in GrepStates
  <2>1. grep.offset + 1 \in Nat /\ Append(grep.found, report) \in Seq(Reports)
    BY <1>1, <1>2
  <2> QED
    BY <2>1, Zenon DEF GrepStates, report, window
<1>6. /\ l \in Nat /\ DOMAIN grep.found = 1 .. l
      /\ Len(grep'.found) = l + 1 /\ DOMAIN grep'.found = 1 .. l + 1
      /\ grep'.found[l + 1] = report
      /\ \A i \in 1 .. l : grep'.found[i] = grep.found[i]
  BY <1>1, <1>2, <1>4
<1>7. \A i \in 1 .. l : grep.found[i].offset \in Nat
  <2>1. \A i \in 1 .. l : grep.found[i] \in Reports
    BY <1>1
  <2> QED
    BY <2>1 DEF Reports
<1>8. Occurrences' = Occurrences /\ \A k : Window(grep.opt, k)' = Window(grep.opt, k)
  BY <1>4, OccurrencesStay
<1> HIDE DEF l
<1>9. ReportsInOrder'
  <2> SUFFICES ASSUME NEW i \in 1 .. l + 1, NEW j \in 1 .. l + 1, i < j
               PROVE  grep'.found[i].offset < grep'.found[j].offset
    BY <1>6 DEF ReportsInOrder
  <2>1. i \in 1 .. l /\ grep'.found[i] = grep.found[i]
    BY <1>6
  <2>2. CASE j = l + 1
    BY <2>1, <2>2, <1>3, <1>6 DEF ReportsOccur
  <2>3. CASE j \in 1 .. l
    BY <2>1, <2>3, <1>6 DEF ReportsInOrder
  <2> QED
    BY <2>2, <2>3, <1>6
<1>10. ReportsOccur'
  <2> SUFFICES ASSUME NEW i \in 1 .. l + 1
               PROVE  /\ grep'.found[i].offset \in Occurrences
                      /\ grep'.found[i].offset < grep.offset + 1
                      /\ grep'.found[i].window = Window(grep.opt, grep'.found[i].offset)
    BY <1>4, <1>6, <1>8 DEF ReportsOccur
  <2>1. CASE i = l + 1
    BY <2>1, <1>1, <1>3, <1>6 DEF window
  <2>2. CASE i \in 1 .. l
    BY <2>2, <1>1, <1>6, <1>7 DEF ReportsOccur
  <2> QED
    BY <2>1, <2>2, <1>6
<1>11. AllReported'
  <2> SUFFICES ASSUME NEW k \in Occurrences, k < grep.offset + 1
               PROVE  \E i \in 1 .. l + 1 : grep'.found[i].offset = k
    BY <1>4, <1>6, <1>8 DEF AllReported
  <2>1. k \in Nat
    BY OccurrencesWithin
  <2>2. CASE k = grep.offset
    BY <2>2, <1>3, <1>6
  <2>3. CASE k < grep.offset
    <3>1. PICK i \in 1 .. l : grep.found[i].offset = k
      BY <2>3, <1>6 DEF AllReported
    <3>2. i \in 1 .. l + 1 /\ grep'.found[i] = grep.found[i]
      BY <1>6
    <3> QED
      BY <3>1, <3>2, Zenon
  <2>4. k = grep.offset \/ k < grep.offset
    BY <2>1, <1>1
  <2> QED
    BY <2>2, <2>3, <2>4, Zenon
<1>12. ReportsCounted'
  BY <1>1, <1>4, <1>6 DEF ReportsCounted, l
<1> QED
  BY <1>4, <1>5, <1>9, <1>10, <1>11, <1>12

\* An offset that is no occurrence.
LEMMA GrepPasses ==
  ASSUME grep \in GrepStates,
         ReportsInOrder, ReportsOccur, AllReported, ReportsCounted,
         grep.offset \notin Occurrences,
         grep' = [grep EXCEPT !.offset = grep.offset + 1]
  PROVE  /\ grep' \in GrepStates
         /\ (ReportsInOrder /\ ReportsOccur /\ AllReported /\ ReportsCounted)'
         /\ grep'.pc = grep.pc
<1>1. grep.offset \in Nat /\ grep.found \in Seq(Reports)
  BY GrepFields
<1>2. /\ grep'.opt = grep.opt /\ grep'.file = grep.file /\ grep'.pc = grep.pc
      /\ grep'.offset = grep.offset + 1 /\ grep'.found = grep.found
  BY DEF GrepStates
<1>3. grep' \in GrepStates
  BY <1>1 DEF GrepStates
<1>4. Occurrences' = Occurrences /\ \A k : Window(grep.opt, k)' = Window(grep.opt, k)
  BY <1>2, OccurrencesStay
<1>5. ReportsInOrder'
  BY <1>2 DEF ReportsInOrder
<1>6. ReportsOccur'
  <2>1. ASSUME NEW i \in DOMAIN grep.found
        PROVE  grep.found[i].offset < grep.offset => grep.found[i].offset < grep.offset + 1
    <3>1. grep.found[i] \in Reports
      BY <1>1
    <3>2. grep.found[i].offset \in Nat
      BY <3>1 DEF Reports
    <3> QED
      BY <3>2, <1>1
  <2> QED
    BY <2>1, <1>2, <1>4 DEF ReportsOccur
<1>7. AllReported'
  <2>1. \A k \in Occurrences : k < grep.offset + 1 => k < grep.offset
    <3>1. \A k \in Occurrences : k \in Nat /\ k # grep.offset
      BY OccurrencesWithin
    <3> QED
      BY <3>1, <1>1
  <2> QED
    BY <2>1, <1>2, <1>4 DEF AllReported
<1>8. ReportsCounted'
  BY <1>2 DEF ReportsCounted
<1> QED
  BY <1>2, <1>3, <1>5, <1>6, <1>7, <1>8

LEMMA GrepStepInv ==
  ASSUME tool = "bgrep", tool' = tool, GrepInv, GrepStep
  PROVE  GrepInv'
<1> DEFINE Found == ReportsInOrder /\ ReportsOccur /\ AllReported /\ ReportsCounted
           m == Len(grep.opt.pattern)
<1>1. grep \in GrepStates /\ Found /\ GrepPhases
  BY DEF GrepInv
<1>2. SUFFICES (grep \in GrepStates /\ Found /\ GrepPhases)'
  BY DEF GrepInv
<1>3. ASSUME NEW pc1 \in {"read", "search", "end", "done"}, NEW exit1 \in {-1, 0, 1},
             grep' = [grep EXCEPT !.pc = pc1, !.exit = exit1]
      PROVE  /\ (grep \in GrepStates /\ Found)'
             /\ grep'.pc = pc1 /\ grep'.exit = exit1 /\ grep'.opt = grep.opt
             /\ grep'.file = grep.file /\ grep'.offset = grep.offset
             /\ grep'.found = grep.found
  <2>1. /\ grep' \in GrepStates
        /\ grep'.pc = pc1 /\ grep'.exit = exit1 /\ grep'.opt = grep.opt
        /\ grep'.file = grep.file /\ grep'.offset = grep.offset
        /\ grep'.found = grep.found
    BY <1>1, <1>3, Zenon DEF GrepStates
  <2> QED
    BY <2>1, <1>1, GrepKeepsReports
<1>4. ASSUME NEW pc1 \in {"read", "search", "end", "done"},
             grep' = [grep EXCEPT !.pc = pc1]
      PROVE  /\ grep.exit \in {-1, 0, 1}
             /\ grep' = [grep EXCEPT !.pc = pc1, !.exit = grep.exit]
  BY <1>1, <1>4, Zenon DEF GrepStates
<1>5. CASE GrepRead
  <2>1. grep.offset = 0 /\ grep.found = <<>>
    BY <1>1, <1>5 DEF GrepRead, GrepPhases
  <2>2. CASE grep' = [grep EXCEPT !.pc = "done", !.exit = 1]
    BY <2>1, <2>2, <1>3 DEF GrepPhases
  <2>3. CASE grep' = [grep EXCEPT !.pc = "search"]
    <3>1. (grep \in GrepStates /\ Found)' /\ grep'.pc = "search"
      BY <2>3, <1>3, <1>4, Zenon
    <3> QED
      BY <3>1 DEF GrepPhases
  <2> QED
    BY <2>2, <2>3, <1>5 DEF GrepRead
<1>6. CASE GrepOffset
  <2>1. /\ grep.pc = "search" /\ grep.offset \in Nat
        /\ grep.offset + m <= Len(grep.file)
    BY <1>1, <1>6, GrepFields DEF GrepOffset
  <2> DEFINE report == MatchesAt(Folded(grep.file, grep.opt),
                                 Folded(grep.opt.pattern, grep.opt), grep.offset)
                         # grep.opt.invert
             full == grep.opt.max > 0 /\ Len(grep.found) >= grep.opt.max
  <2>2. report <=> grep.offset \in Occurrences
    BY <1>1, <2>1, MatchIsOccurrence
  <2>3. \/ report /\ full /\ grep' = [grep EXCEPT !.pc = "end"]
        \/ /\ report /\ ~full
           /\ grep' = [grep EXCEPT !.offset = grep.offset + 1,
                         !.found = Append(grep.found,
                                     [offset |-> grep.offset,
                                      window |-> Window(grep.opt, grep.offset)])]
        \/ ~report /\ grep' = [grep EXCEPT !.offset = grep.offset + 1]
    <3> DEFINE met == MatchesAt(Folded(grep.file, grep.opt),
                                 Folded(grep.opt.pattern, grep.opt), grep.offset)
    <3>1. grep' = CASE report /\ full -> [grep EXCEPT !.pc = "end"]
                    [] report /\ ~full ->
                         [grep EXCEPT !.offset = grep.offset + 1,
                            !.found = Append(@, [offset |-> grep.offset,
                                                 window |-> Window(grep.opt, grep.offset)])]
                    [] ~report -> [grep EXCEPT !.offset = grep.offset + 1]
      BY <1>6 DEF GrepOffset, NextOffset
    <3> HIDE DEF report, full
    <3> QED
      BY <3>1
  <2> HIDE DEF report, full
  <2>4. CASE report /\ full /\ grep' = [grep EXCEPT !.pc = "end"]
    <3>1. (grep \in GrepStates /\ Found)'
      BY <2>4, <1>3, <1>4, Zenon
    <3>2. /\ grep'.pc = "end" /\ grep'.opt = grep.opt /\ grep'.found = grep.found
      BY <2>4, <1>3, <1>4
    <3>3. MaxReached
      BY <2>4, <1>1, GrepFields DEF full, MaxReached, ReportsCounted
    <3> QED
      BY <3>1, <3>2, <3>3 DEF GrepPhases, Searched, MaxReached
  <2>5. CASE /\ report /\ ~full
             /\ grep' = [grep EXCEPT !.offset = grep.offset + 1,
                           !.found = Append(grep.found,
                                       [offset |-> grep.offset,
                                        window |-> Window(grep.opt, grep.offset)])]
    <3>1. (grep \in GrepStates /\ Found)' /\ grep'.pc = grep.pc
      BY <2>2, <2>5, <1>1, GrepReports DEF full
    <3> QED
      BY <2>1, <3>1 DEF GrepPhases
  <2>6. CASE ~report /\ grep' = [grep EXCEPT !.offset = grep.offset + 1]
    <3>1. (grep \in GrepStates /\ Found)' /\ grep'.pc = grep.pc
      BY <2>2, <2>6, <1>1, GrepPasses
    <3> QED
      BY <2>1, <3>1 DEF GrepPhases
  <2> QED
    BY <2>3, <2>4, <2>5, <2>6
<1>7. CASE GrepLoopEnds
  <2>1. grep' = [grep EXCEPT !.pc = "end"] /\ Searched
    BY <1>7 DEF GrepLoopEnds, Searched
  <2>2. (grep \in GrepStates /\ Found)'
    BY <2>1, <1>3, <1>4, Zenon
  <2>3. /\ grep'.pc = "end" /\ grep'.opt = grep.opt /\ grep'.found = grep.found
        /\ grep'.file = grep.file /\ grep'.offset = grep.offset
    BY <2>1, <1>3, <1>4
  <2> QED
    BY <2>1, <2>2, <2>3 DEF GrepPhases, Searched, MaxReached
<1>8. CASE GrepExit
  <2> DEFINE exit1 == IF grep.found = <<>> THEN 1 ELSE 0
  <2>1. grep' = [grep EXCEPT !.pc = "done", !.exit = exit1]
    BY <1>8 DEF GrepExit
  <2>2. Searched
    BY <1>1, <1>8 DEF GrepExit, GrepPhases
  <2>3. exit1 \in {-1, 0, 1}
    OBVIOUS
  <2>4. (grep \in GrepStates /\ Found)'
    BY <2>1, <2>3, <1>3, Zenon
  <2>5. /\ grep'.pc = "done" /\ grep'.opt = grep.opt /\ grep'.found = grep.found
        /\ grep'.file = grep.file /\ grep'.offset = grep.offset /\ grep'.exit = exit1
    BY <2>1, <2>3, <1>3
  <2> QED
    BY <2>2, <2>4, <2>5 DEF GrepPhases, Searched, MaxReached
<1> QED
  BY <1>5, <1>6, <1>7, <1>8 DEF GrepStep

\* What the invariant says of a search that has ended.
LEMMA GrepInvExact == GrepInv => SearchIsExact
<1> SUFFICES ASSUME GrepInv
             PROVE  SearchIsExact
  OBVIOUS
<1> DEFINE m == Len(grep.opt.pattern)
           reported == {grep.found[i].offset : i \in DOMAIN grep.found}
           Windows ==
             grep.opt.context * 2 + m < SizeLimit =>
               \A i \in DOMAIN grep.found :
                 LET f == grep.found[i] IN
                 /\ f.window.start <= f.offset
                 /\ f.offset + m <= f.window.start + Len(f.window.bytes)
                 /\ f.offset - f.window.start <= grep.opt.context
                 /\ \A k \in DOMAIN f.window.bytes :
                      f.window.bytes[k] = grep.file[f.window.start + k]
<1>1. CASE tool # "bgrep"
  <2>1. grep.pc = "read" /\ DOMAIN grep.found = {}
    BY <1>1 DEF GrepInv
  <2> QED
    BY <2>1 DEF SearchIsExact
<1>2. CASE tool = "bgrep"
  <2>1. /\ grep \in GrepStates /\ ReportsInOrder /\ ReportsOccur /\ AllReported
        /\ ReportsCounted /\ GrepPhases
    BY <1>2 DEF GrepInv
  <2>2. /\ grep.offset \in Nat /\ grep.found \in Seq(Reports) /\ grep.opt.max \in Nat
        /\ m \in Nat /\ Len(grep.file) \in Nat
    BY <2>1, GrepFields
  <2>3. Windows
    <3> SUFFICES ASSUME NEW i \in DOMAIN grep.found, grep.opt.context * 2 + m < SizeLimit
                 PROVE  LET f == grep.found[i] IN
                        /\ f.window.start <= f.offset
                        /\ f.offset + m <= f.window.start + Len(f.window.bytes)
                        /\ f.offset - f.window.start <= grep.opt.context
                        /\ \A k \in DOMAIN f.window.bytes :
                             f.window.bytes[k] = grep.file[f.window.start + k]
      OBVIOUS
    <3> DEFINE k == grep.found[i].offset
               w == grep.found[i].window
    <3>1. k \in Occurrences /\ w = Window(grep.opt, k)
      BY <2>1 DEF ReportsOccur
    <3>2. k \in Nat /\ k + m <= Len(grep.file)
      BY <2>1, <3>1, OccurrencesWithin
    <3> HIDE DEF k, w
    <3>3. /\ w.start <= k /\ k - w.start <= grep.opt.context
          /\ \A j \in DOMAIN w.bytes : w.bytes[j] = grep.file[w.start + j]
          /\ k + m <= w.start + Len(w.bytes)
      BY <2>1, <3>1, <3>2, WindowOfOffset, Zenon
    <3> QED
      BY <3>3 DEF k, w
  <2>4. ASSUME grep.pc = "done", grep.exit = 0 \/ grep.offset > 0
        PROVE  FirstOccurrences /\ (grep.exit = 0 <=> Occurrences # {})
    <3>1. Searched /\ grep.exit = IF grep.found = <<>> THEN 1 ELSE 0
      BY <2>1, <2>2, <2>4 DEF GrepPhases
    <3>2. ASSUME NEW k \in Occurrences, k \notin reported
          PROVE  MaxReached /\ k >= grep.offset
      <4>1. k \in Nat /\ k + m <= Len(grep.file)
        BY <2>1, OccurrencesWithin
      <4>2. ~(k < grep.offset)
        BY <2>1, <3>2 DEF AllReported
      <4>3. k >= grep.offset
        BY <4>1, <4>2, <2>2
      <4>4. ~(grep.offset + m > Len(grep.file))
        BY <4>1, <4>3, <2>2
      <4> QED
        BY <4>3, <4>4, <3>1 DEF Searched
    <3>3. ASSUME NEW r \in reported
          PROVE  r \in Occurrences /\ r \in Nat /\ r < grep.offset
      BY <2>1, OccurrencesWithin DEF ReportsOccur
    <3>4. FirstOccurrences
      <4>1. \A k \in Occurrences \ reported :
               /\ grep.opt.max > 0 /\ Len(grep.found) = grep.opt.max
               /\ \A r \in reported : r < k
        <5> SUFFICES ASSUME NEW k \in Occurrences, k \notin reported
                     PROVE  /\ grep.opt.max > 0 /\ Len(grep.found) = grep.opt.max
                            /\ \A r \in reported : r < k
          OBVIOUS
        <5>1. MaxReached /\ k >= grep.offset /\ k \in Nat
          BY <3>2, <2>1, OccurrencesWithin
        <5>2. \A r \in reported : r < k
          <6> HIDE DEF reported
          <6> QED
            BY <5>1, <3>3, <2>2
        <5> QED
          BY <5>1, <5>2 DEF MaxReached
      <4>2. reported \subseteq Occurrences
        BY <3>3
      <4> QED
        BY <4>1, <4>2, <2>1 DEF FirstOccurrences, ReportsInOrder, ReportsCounted
    <3>5. grep.found = <<>> => Occurrences = {}
      <4> SUFFICES ASSUME grep.found = <<>>, NEW k \in Occurrences
                   PROVE  FALSE
        OBVIOUS
      <4>1. k \notin reported
        OBVIOUS
      <4>2. Len(grep.found) = 0
        OBVIOUS
      <4> QED
        BY <4>1, <4>2, <3>2 DEF MaxReached
    <3>6. grep.found # <<>> => Occurrences # {}
      <4> SUFFICES ASSUME grep.found # <<>>
                   PROVE  Occurrences # {}
        OBVIOUS
      <4>1. 1 \in DOMAIN grep.found
        BY <2>2
      <4> QED
        BY <4>1, <2>1 DEF ReportsOccur
    <3> QED
      BY <3>1, <3>4, <3>5, <3>6
  <2> HIDE DEF Windows
  <2>5. SearchIsExact <=>
          /\ grep.pc = "done" /\ (grep.exit = 0 \/ grep.offset > 0) =>
               FirstOccurrences /\ (grep.exit = 0 <=> Occurrences # {})
          /\ Windows
    BY DEF SearchIsExact, Windows
  <2> QED
    BY <2>3, <2>4, <2>5
<1> QED
  BY <1>1, <1>2

\* A search that ends reports the first occurrences that -m allows, overlapping ones too,
\* each once, in order and with the bytes around it, and its status tells whether there
\* is one: whatever the file, the pattern, the options and the width of size_t.
THEOREM BgrepExact == Spec => []SearchIsExact
<1>1. Init => GrepInv
  BY GrepInitInv
<1>2. GrepInv /\ [Next]_vars => GrepInv'
  <2> SUFFICES ASSUME GrepInv, [Next]_vars
               PROVE  GrepInv'
    OBVIOUS
  <2>1. CASE RunBgrep
    <3>1. tool = "bgrep" /\ tool' = tool /\ GrepStep
      BY <2>1 DEF RunBgrep, Rest
    <3> QED
      BY <3>1, GrepStepInv
  <2>2. CASE UNCHANGED <<tool, grep>>
    <3>1. tool' = tool /\ grep' = grep
      BY <2>2
    <3>2. CASE tool # "bgrep"
      BY <3>1, <3>2 DEF GrepInv
    <3>3. CASE tool = "bgrep"
      <4>1. grep \in GrepStates /\ grep' \in GrepStates
        BY <3>1, <3>3 DEF GrepInv
      <4>2. (ReportsInOrder /\ ReportsOccur /\ AllReported /\ ReportsCounted)'
        BY <3>1, <3>3, <4>1, GrepKeepsReports DEF GrepInv
      <4>3. GrepPhases'
        BY <3>1, <3>3 DEF GrepInv, GrepPhases, Searched, MaxReached
      <4> QED
        BY <3>1, <3>3, <4>1, <4>2, <4>3 DEF GrepInv
    <3> QED
      BY <3>2, <3>3
  <2> QED
    BY <2>1, <2>2 DEF Next, vars, files, Rest, RunBuniq, RunFill, RunKp, RunBhxx, RunBpatch,
                      RunFurl, RunExe, RunSplitMerge
<1> QED
  BY <1>1, <1>2, GrepInvExact, PTL DEF Spec

-----------------------------------------------------------------------------
(* bsplit and bmerge: the chunks of a split.                               *)

\* The bytes of the file of length n from byte a + 1 to byte b.
Piece(n, a, b) == SubSeq(Content(n), a + 1, b)

\* Of a split j: the name of its k-th chunk and the byte in front of that chunk.
Chunk(j, k) == ChunkName(j.prefix, k, j.pad)
Cut(j, k) == IF (k - 1) * j.size < j.file THEN (k - 1) * j.size ELSE j.file

\* The next chunk is i, dirs the directory and names what was written of it: the last
\* chunk that is there, and the byte that the chunks in front of chunk k reach.  A last
\* one that was cut off is shorter than the others.
LastChunk(j, i, names) == IF Chunk(j, i) \in names THEN i ELSE i - 1
Reached(j, i, dirs, k) ==
  IF k <= i THEN Cut(j, k) ELSE Cut(j, i) + Len(dirs[Chunk(j, i)])

\* The chunks that are there follow each other in the file.
ChunksFollow(j, i, dirs, names) ==
  /\ names \subseteq DOMAIN dirs
  /\ names = {Chunk(j, k) : k \in 1 .. LastChunk(j, i, names)}
  /\ \A k \in 1 .. LastChunk(j, i, names) :
       /\ Reached(j, i, dirs, k + 1) \in Reached(j, i, dirs, k) .. j.file
       /\ dirs[Chunk(j, k)] =
            Piece(j.file, Reached(j, i, dirs, k), Reached(j, i, dirs, k + 1))

LastWritten == LastChunk(job, index, written)
BytesTo(k) == Reached(job, index, dir, k)

SplitTypes ==
  /\ job \in Jobs /\ index \in Nat \ {0} /\ pos = Cut(job, index)
  /\ merged \in [prefix : ChunkPrefixes, exit : {"none", "ok", "error"}]

SplitPhases ==
  /\ pc = "split" => Chunk(job, index) \notin written
  /\ split = "ok" => pos = job.file
  /\ merged.exit = "ok" => pc = "idle"

\* A merge that takes no file but the split's chunks has copied those in front of one.
OwnMerge == merged.prefix = job.prefix /\ OnlyOwnChunks

MergeInv ==
  /\ pc = "merge" /\ OwnMerge =>
       \E j \in 1 .. LastWritten + 1 :
         /\ todo = {Chunk(job, k) : k \in j .. LastWritten}
         /\ out = Piece(job.file, 0, BytesTo(j))
  /\ merged.exit = "ok" /\ OwnMerge => out = Piece(job.file, 0, BytesTo(LastWritten + 1))

SplitInv ==
  /\ SplitTypes /\ SplitPhases
  /\ ChunksFollow(job, index, dir, written)
  /\ MergeInv

\* What a piece of a file is, and pieces of pieces.
LEMMA PieceFacts ==
  ASSUME NEW n \in Nat, NEW a \in 0 .. n, NEW b \in a .. n
  PROVE  /\ Piece(n, a, b) = [i \in 1 .. b - a |-> <<n, a + i>>]
         /\ Len(Piece(n, a, b)) = b - a
         /\ Piece(n, a, b) \in Seq(Nat \X Nat)
<1>1. Piece(n, a, b) = [i \in 1 .. b - a |-> <<n, a + i>>]
  BY DEF Piece, Content
<1>2. b - a \in Nat
  OBVIOUS
<1> QED
  BY <1>1, <1>2

LEMMA PieceBeginning ==
  ASSUME NEW n \in Nat, NEW a \in 0 .. n, NEW b \in a .. n, NEW k \in 0 .. b - a
  PROVE  SubSeq(Piece(n, a, b), 1, k) = Piece(n, a, a + k)
<1>1. Piece(n, a, b) = [i \in 1 .. b - a |-> <<n, a + i>>]
  BY PieceFacts, Zenon
<1>2. Piece(n, a, a + k) = [i \in 1 .. k |-> <<n, a + i>>]
  <2>1. a + k \in a .. n /\ (a + k) - a = k
    OBVIOUS
  <2> QED
    BY <2>1, PieceFacts, Zenon
<1>3. SubSeq([i \in 1 .. b - a |-> <<n, a + i>>], 1, k) = [i \in 1 .. k |-> <<n, a + i>>]
  OBVIOUS
<1> QED
  BY <1>1, <1>2, <1>3, Zenon

LEMMA PieceFromStart ==
  ASSUME NEW n \in Nat, NEW b \in 0 .. n
  PROVE  Piece(n, 0, b) = [i \in 1 .. b |-> <<n, i>>]
BY DEF Piece, Content

LEMMA PiecesJoin ==
  ASSUME NEW n \in Nat, NEW a \in 0 .. n, NEW b \in a .. n
  PROVE  Piece(n, 0, a) \o Piece(n, a, b) = Piece(n, 0, b)
<1>1. Piece(n, 0, a) = [i \in 1 .. a |-> <<n, i>>]
  BY PieceFromStart
<1>2. Piece(n, a, b) = [i \in 1 .. b - a |-> <<n, a + i>>]
  BY PieceFacts, Zenon
<1>3. Piece(n, 0, b) = [i \in 1 .. b |-> <<n, i>>]
  <2>1. b \in 0 .. n
    OBVIOUS
  <2> QED
    BY <2>1, PieceFromStart
<1>4. [i \in 1 .. a |-> <<n, i>>] \o [i \in 1 .. b - a |-> <<n, a + i>>]
        = [i \in 1 .. b |-> <<n, i>>]
  OBVIOUS
<1> QED
  BY <1>1, <1>2, <1>3, <1>4, Zenon

LEMMA JobFields ==
  ASSUME NEW j \in Jobs
  PROVE  /\ j.file \in Nat /\ j.size \in Nat \ {0}
         /\ j.prefix \in ChunkPrefixes /\ j.pad \in Nat \ {0}
BY JobsAssumption

LEMMA CutFacts ==
  ASSUME NEW j \in Jobs, NEW k \in Nat \ {0}
  PROVE  /\ Cut(j, 1) = 0
         /\ Cut(j, k) \in 0 .. j.file
         /\ Cut(j, k + 1) \in Cut(j, k) .. j.file
         /\ Cut(j, k + 1) =
              IF Cut(j, k) + j.size < j.file THEN Cut(j, k) + j.size ELSE j.file
<1> DEFINE s == j.size
           n == j.file
           before == (k - 1) * s
<1>1. s \in Nat \ {0} /\ n \in Nat
  BY JobFields
<1> HIDE DEF s, n
<1>2. before \in Nat /\ (k + 1 - 1) * s = before + s /\ (1 - 1) * s = 0
  BY <1>1
<1> HIDE DEF before
<1> QED
  BY <1>1, <1>2 DEF Cut, s, n, before

LEMMA ChunkNames ==
  ASSUME NEW j \in Jobs, NEW k \in Nat \ {0}
  PROVE  /\ Chunk(j, k).prefix = j.prefix /\ Chunk(j, k).index = k
         /\ ChunkIndex(Chunk(j, k), j.prefix) = k
BY DEF Chunk, ChunkName, ChunkIndex

\* A chunk more: whole, or cut off at byte b.
LEMMA ChunkStored ==
  ASSUME NEW j \in Jobs, NEW i \in Nat \ {0}, NEW dirs, NEW names,
         ChunksFollow(j, i, dirs, names), Chunk(j, i) \notin names,
         NEW b \in Cut(j, i) .. Cut(j, i + 1), NEW dirs1, NEW names1,
         dirs1 = [name \in DOMAIN dirs \cup {Chunk(j, i)} |->
                    IF name = Chunk(j, i) THEN Piece(j.file, Cut(j, i), b) ELSE dirs[name]],
         names1 = names \cup {Chunk(j, i)}
  PROVE  /\ ChunksFollow(j, i, dirs1, names1)
         /\ b = Cut(j, i + 1) =>
              ChunksFollow(j, i + 1, dirs1, names1) /\ Chunk(j, i + 1) \notin names1
<1>1. LastChunk(j, i, names) = i - 1
  BY DEF LastChunk
<1>2. names = {Chunk(j, k) : k \in 1 .. i - 1} /\ names \subseteq DOMAIN dirs
  BY <1>1 DEF ChunksFollow
<1>3. names1 = {Chunk(j, k) : k \in 1 .. i}
  <2>1. 1 .. i = 1 .. i - 1 \cup {i}
    OBVIOUS
  <2> QED
    BY <1>2, <2>1
<1>4. names1 \subseteq DOMAIN dirs1
  BY <1>2
<1>5. /\ Cut(j, i) \in 0 .. j.file /\ Cut(j, i + 1) \in Cut(j, i) .. j.file
      /\ j.file \in Nat
  BY CutFacts, JobFields
<1>6. b \in Cut(j, i) .. j.file
  BY <1>5
<1>7. \A k \in 1 .. i - 1 : Chunk(j, k) # Chunk(j, i) /\ Chunk(j, k) \in DOMAIN dirs
  <2>1. ASSUME NEW k \in 1 .. i - 1
        PROVE  Chunk(j, k) # Chunk(j, i) /\ Chunk(j, k) \in DOMAIN dirs
    <3>1. k \in Nat \ {0} /\ k # i
      OBVIOUS
    <3> QED
      BY <3>1, <1>2, ChunkNames
  <2> QED
    BY <2>1
<1>8. /\ dirs1[Chunk(j, i)] = Piece(j.file, Cut(j, i), b)
      /\ \A k \in 1 .. i - 1 : dirs1[Chunk(j, k)] = dirs[Chunk(j, k)]
  BY <1>7
<1>9. Len(dirs1[Chunk(j, i)]) = b - Cut(j, i)
  BY <1>5, <1>6, <1>8, PieceFacts, Zenon
<1>10. \A k \in 1 .. i - 1 :
         /\ Cut(j, k + 1) \in Cut(j, k) .. j.file
         /\ dirs1[Chunk(j, k)] = Piece(j.file, Cut(j, k), Cut(j, k + 1))
  <2>1. ASSUME NEW k \in 1 .. i - 1
        PROVE  /\ Cut(j, k + 1) \in Cut(j, k) .. j.file
               /\ dirs1[Chunk(j, k)] = Piece(j.file, Cut(j, k), Cut(j, k + 1))
    <3>1. Reached(j, i, dirs, k) = Cut(j, k) /\ Reached(j, i, dirs, k + 1) = Cut(j, k + 1)
      <4>1. k <= i /\ k + 1 <= i
        OBVIOUS
      <4> QED
        BY <4>1 DEF Reached
    <3> QED
      BY <3>1, <1>1, <1>8 DEF ChunksFollow
  <2> QED
    BY <2>1, Zenon
<1>11. ChunksFollow(j, i, dirs1, names1)
  <2>1. LastChunk(j, i, names1) = i
    BY DEF LastChunk
  <2>2. ASSUME NEW k \in 1 .. i
        PROVE  /\ Reached(j, i, dirs1, k + 1) \in Reached(j, i, dirs1, k) .. j.file
               /\ dirs1[Chunk(j, k)] =
                    Piece(j.file, Reached(j, i, dirs1, k), Reached(j, i, dirs1, k + 1))
    <3>1. CASE k = i
      <4>1. k <= i /\ ~(k + 1 <= i)
        BY <3>1
      <4>2. Reached(j, i, dirs1, k) = Cut(j, i)
        BY <3>1, <4>1 DEF Reached
      <4>3. Reached(j, i, dirs1, k + 1) = b
        <5>1. Reached(j, i, dirs1, k + 1) = Cut(j, i) + Len(dirs1[Chunk(j, i)])
          BY <4>1 DEF Reached
        <5> QED
          BY <5>1, <1>5, <1>6, <1>9
      <4> QED
        BY <3>1, <4>2, <4>3, <1>6, <1>8
    <3>2. CASE k \in 1 .. i - 1
      <4>1. k <= i /\ k + 1 <= i
        BY <3>2
      <4>2. Reached(j, i, dirs1, k) = Cut(j, k) /\ Reached(j, i, dirs1, k + 1) = Cut(j, k + 1)
        BY <4>1 DEF Reached
      <4> QED
        BY <3>2, <4>2, <1>10
    <3> QED
      BY <3>1, <3>2
  <2> QED
    BY <2>1, <2>2, <1>3, <1>4, Zenon DEF ChunksFollow
<1>12. ASSUME b = Cut(j, i + 1)
       PROVE  ChunksFollow(j, i + 1, dirs1, names1) /\ Chunk(j, i + 1) \notin names1
  <2>1. Chunk(j, i + 1) \notin names1
    <3>1. ASSUME NEW k \in 1 .. i
          PROVE  Chunk(j, k) # Chunk(j, i + 1)
      <4>1. k \in Nat \ {0} /\ i + 1 \in Nat \ {0} /\ k # i + 1
        OBVIOUS
      <4> QED
        BY <4>1, ChunkNames
    <3> QED
      BY <3>1, <1>3
  <2>2. LastChunk(j, i + 1, names1) = i
    BY <2>1 DEF LastChunk
  <2>3. ASSUME NEW k \in 1 .. i
        PROVE  /\ Reached(j, i + 1, dirs1, k + 1) \in Reached(j, i + 1, dirs1, k) .. j.file
               /\ dirs1[Chunk(j, k)] =
                    Piece(j.file, Reached(j, i + 1, dirs1, k), Reached(j, i + 1, dirs1, k + 1))
    <3>1. k <= i + 1 /\ k + 1 <= i + 1
      OBVIOUS
    <3>2. /\ Reached(j, i + 1, dirs1, k) = Cut(j, k)
          /\ Reached(j, i + 1, dirs1, k + 1) = Cut(j, k + 1)
      BY <3>1 DEF Reached
    <3>3. CASE k = i
      BY <3>2, <3>3, <1>5, <1>8, <1>12
    <3>4. CASE k \in 1 .. i - 1
      BY <3>2, <3>4, <1>10, Zenon
    <3> QED
      BY <3>3, <3>4
  <2> QED
    BY <2>1, <2>2, <2>3, <1>3, <1>4, Zenon DEF ChunksFollow
<1> QED
  BY <1>11, <1>12

-----------------------------------------------------------------------------
(* The steps of bsplit.                                                    *)

LEMMA SplitInitInv == Init => SplitInv
<1> SUFFICES ASSUME SplitInit
             PROVE  SplitInv
  BY DEF Init
<1>1. job \in Jobs
  BY JobsAssumption DEF SplitInit
<1>2. /\ pc = "idle" /\ pos = 0 /\ index = 1 /\ split = "none" /\ written = {}
      /\ merged = [prefix |-> "chunk", exit |-> "none"]
  BY DEF SplitInit
<1>3. SplitTypes
  BY <1>1, <1>2, CutFacts DEF SplitTypes, ChunkPrefixes
<1>4. ChunksFollow(job, index, dir, written)
  <2>1. LastChunk(job, index, written) = 0
    BY <1>2 DEF LastChunk
  <2> QED
    BY <1>2, <2>1 DEF ChunksFollow
<1>5. SplitPhases /\ MergeInv
  BY <1>2 DEF SplitPhases, MergeInv
<1> QED
  BY <1>3, <1>4, <1>5 DEF SplitInv

LEMMA SplitStartInv ==
  ASSUME SplitInv, SplitStart
  PROVE  SplitInv'
<1>1. /\ job' \in Jobs /\ pc' = "split" /\ pos' = 0 /\ index' = 1 /\ written' = {}
      /\ split' = "running" /\ merged' = [merged EXCEPT !.exit = "none"]
  BY DEF SplitStart
<1>2. merged' \in [prefix : ChunkPrefixes, exit : {"none", "ok", "error"}]
      /\ merged'.exit = "none"
  BY <1>1 DEF SplitInv, SplitTypes
<1>3. SplitTypes'
  BY <1>1, <1>2, CutFacts DEF SplitTypes
<1>4. ChunksFollow(job, index, dir, written)'
  <2>1. LastChunk(job, index, written)' = 0
    BY <1>1 DEF LastChunk
  <2> QED
    BY <1>1, <2>1 DEF ChunksFollow
<1>5. SplitPhases' /\ MergeInv'
  BY <1>1, <1>2 DEF SplitPhases, MergeInv
<1> QED
  BY <1>3, <1>4, <1>5 DEF SplitInv

\* What is read of the file is what is between two cuts.
LEMMA ReadIsPiece ==
  ASSUME SplitTypes
  PROVE  /\ Read = Piece(job.file, Cut(job, index), Cut(job, index + 1))
         /\ Len(Read) = Cut(job, index + 1) - Cut(job, index)
<1>1. /\ job.file \in Nat /\ pos = Cut(job, index)
      /\ Cut(job, index) \in 0 .. job.file
      /\ Cut(job, index + 1) \in Cut(job, index) .. job.file
      /\ Cut(job, index + 1) =
           IF pos + job.size < job.file THEN pos + job.size ELSE job.file
  BY JobFields, CutFacts DEF SplitTypes
<1>2. Read = Piece(job.file, Cut(job, index), Cut(job, index + 1))
  BY <1>1, Zenon DEF Read, Piece
<1> QED
  BY <1>1, <1>2, PieceFacts, Zenon

LEMMA SplitChunkInv ==
  ASSUME SplitInv, SplitChunk
  PROVE  SplitInv'
<1>1. /\ SplitTypes /\ SplitPhases /\ ChunksFollow(job, index, dir, written)
      /\ job \in Jobs /\ index \in Nat \ {0} /\ pos = Cut(job, index)
  BY DEF SplitInv, SplitTypes
<1>2. /\ pc = "split" /\ pc' = pc /\ job' = job /\ split' = split /\ merged' = merged
      /\ index' = index + 1 /\ pos' = pos + Len(Read) /\ StoreChunk(Read)
      /\ pos < job.file
  BY DEF SplitChunk, merging
<1>3. /\ Cut(job, index) \in Nat
      /\ Cut(job, index + 1) \in Cut(job, index) .. Cut(job, index + 1)
  BY <1>1, CutFacts, JobFields
<1>4. pos' = Cut(job', index')
  BY <1>1, <1>2, <1>3, ReadIsPiece
<1>5. ChunksFollow(job, index + 1, dir', written') /\ Chunk(job, index + 1) \notin written'
  <2>1. Chunk(job, index) \notin written
    BY <1>1, <1>2 DEF SplitPhases
  <2>2. /\ dir' = [name \in DOMAIN dir \cup {Chunk(job, index)} |->
                     IF name = Chunk(job, index)
                     THEN Piece(job.file, Cut(job, index), Cut(job, index + 1))
                     ELSE dir[name]]
        /\ written' = written \cup {Chunk(job, index)}
    BY <1>1, <1>2, ReadIsPiece DEF StoreChunk, Name, Chunk
  <2> QED
    BY <1>1, <1>3, <2>1, <2>2, ChunkStored
<1>6. split # "ok"
  <2>1. pos # job.file
    BY <1>1, <1>2, JobFields
  <2> QED
    BY <1>1, <2>1 DEF SplitPhases
<1>7. SplitTypes' /\ SplitPhases'
  BY <1>1, <1>2, <1>4, <1>5, <1>6 DEF SplitTypes, SplitPhases
<1>8. MergeInv'
  BY <1>1, <1>2 DEF SplitPhases, MergeInv
<1> QED
  BY <1>2, <1>5, <1>7, <1>8 DEF SplitInv

\* The end of a split: nothing is written, or a chunk that ends at byte b.
LEMMA SplitLeaves ==
  ASSUME SplitInv, pc = "split", pc' = "idle", split' = "ok" => pos = job.file,
         job' = job, pos' = pos, index' = index, merged' = merged,
         \/ dir' = dir /\ written' = written
         \/ \E b \in Cut(job, index) .. Cut(job, index + 1) :
              StoreChunk(Piece(job.file, Cut(job, index), b))
  PROVE  SplitInv'
<1>1. /\ SplitTypes /\ SplitPhases /\ ChunksFollow(job, index, dir, written)
      /\ job \in Jobs /\ index \in Nat \ {0} /\ pos = Cut(job, index)
  BY DEF SplitInv, SplitTypes
<1>2. SplitTypes' /\ SplitPhases' /\ MergeInv'
  BY <1>1 DEF SplitTypes, SplitPhases, MergeInv
<1>3. CASE dir' = dir /\ written' = written
  BY <1>1, <1>2, <1>3 DEF SplitInv
<1>4. ASSUME NEW b \in Cut(job, index) .. Cut(job, index + 1),
             StoreChunk(Piece(job.file, Cut(job, index), b))
      PROVE  SplitInv'
  <2>1. Chunk(job, index) \notin written
    BY <1>1 DEF SplitPhases
  <2>2. /\ dir' = [name \in DOMAIN dir \cup {Chunk(job, index)} |->
                     IF name = Chunk(job, index)
                     THEN Piece(job.file, Cut(job, index), b) ELSE dir[name]]
        /\ written' = written \cup {Chunk(job, index)}
    BY <1>4 DEF StoreChunk, Name, Chunk
  <2>3. ChunksFollow(job, index, dir', written')
    BY <1>1, <2>1, <2>2, ChunkStored
  <2> QED
    BY <1>2, <2>3 DEF SplitInv
<1> QED
  BY <1>3, <1>4

LEMMA SplitEndInv ==
  ASSUME SplitInv, SplitEnd
  PROVE  SplitInv'
<1>1. SplitTypes /\ job \in Jobs /\ index \in Nat \ {0} /\ pos = Cut(job, index)
  BY DEF SplitInv, SplitTypes
<1>2. /\ pc = "split" /\ pos = job.file /\ pc' = "idle" /\ job' = job /\ pos' = pos
      /\ index' = index /\ merged' = merged
  BY DEF SplitEnd, merging
<1>3. \/ dir' = dir /\ written' = written
      \/ StoreChunk(<<>>)
  BY DEF SplitEnd
<1>4. /\ Cut(job, index) \in Nat
      /\ Cut(job, index) \in Cut(job, index) .. Cut(job, index + 1)
  BY <1>1, CutFacts, JobFields
<1>5. <<>> = Piece(job.file, Cut(job, index), Cut(job, index))
  <2>1. Cut(job, index) \in 0 .. job.file /\ job.file \in Nat
    BY <1>1, CutFacts, JobFields
  <2>2. ASSUME NEW n \in Nat, NEW a \in 0 .. n
        PROVE  <<>> = Piece(n, a, a)
    BY DEF Piece, Content
  <2> QED
    BY <2>1, <2>2
<1>6. \/ dir' = dir /\ written' = written
      \/ \E b \in Cut(job, index) .. Cut(job, index + 1) :
           StoreChunk(Piece(job.file, Cut(job, index), b))
  BY <1>3, <1>4, <1>5
<1> QED
  BY <1>2, <1>6, SplitLeaves

LEMMA SplitStopsInv ==
  ASSUME SplitInv, SplitStops
  PROVE  SplitInv'
<1>1. SplitTypes /\ job \in Jobs /\ index \in Nat \ {0} /\ pos = Cut(job, index)
  BY DEF SplitInv, SplitTypes
<1>2. /\ pc = "split" /\ pc' = "idle" /\ split' = "stopped" /\ job' = job /\ pos' = pos
      /\ index' = index /\ merged' = merged
  BY DEF SplitStops, merging
<1>3. /\ job.file \in Nat /\ Cut(job, index) \in 0 .. job.file
      /\ Cut(job, index + 1) \in Cut(job, index) .. job.file
      /\ Cut(job, index + 1) =
           IF pos + job.size < job.file THEN pos + job.size ELSE job.file
      /\ job.size \in Nat \ {0}
  BY <1>1, CutFacts, JobFields
<1>4. ASSUME pos < job.file, NEW k \in {0, Len(Read) - 1}
      PROVE  /\ Cut(job, index) + k \in Cut(job, index) .. Cut(job, index + 1)
             /\ SubSeq(Read, 1, k) = Piece(job.file, Cut(job, index), Cut(job, index) + k)
  <2>1. Cut(job, index + 1) - Cut(job, index) > 0
    BY <1>1, <1>3, <1>4
  <2>2. k \in 0 .. Cut(job, index + 1) - Cut(job, index)
    <3>1. Len(Read) = Cut(job, index + 1) - Cut(job, index)
      BY <1>1, ReadIsPiece
    <3> QED
      BY <2>1, <3>1, <1>3, <1>4
  <2>3. Cut(job, index) + k \in Cut(job, index) .. Cut(job, index + 1)
    BY <2>2, <1>3
  <2>4. SubSeq(Read, 1, k) = Piece(job.file, Cut(job, index), Cut(job, index) + k)
    BY <2>2, <1>1, <1>3, ReadIsPiece, PieceBeginning, Zenon
  <2> QED
    BY <2>3, <2>4
<1>5. \/ dir' = dir /\ written' = written
      \/ \E b \in Cut(job, index) .. Cut(job, index + 1) :
           StoreChunk(Piece(job.file, Cut(job, index), b))
  <2>1. CASE UNCHANGED <<dir, written>>
    BY <2>1
  <2>2. ASSUME pos < job.file, NEW k \in {0, Len(Read) - 1}, StoreChunk(SubSeq(Read, 1, k))
        PROVE  \E b \in Cut(job, index) .. Cut(job, index + 1) :
                 StoreChunk(Piece(job.file, Cut(job, index), b))
    BY <2>2, <1>4, Zenon
  <2> QED
    BY <2>1, <2>2 DEF SplitStops
<1> QED
  BY <1>2, <1>5, SplitLeaves

-----------------------------------------------------------------------------
(* The steps of bmerge.                                                    *)

\* Where the chunks that are there reach to.
LEMMA ReachedFacts ==
  ASSUME SplitInv
  PROVE  /\ LastWritten \in Nat
         /\ job.file \in Nat
         /\ BytesTo(1) = 0
         /\ written = {Chunk(job, k) : k \in 1 .. LastWritten}
         /\ \A k \in 1 .. LastWritten : BytesTo(k + 1) \in BytesTo(k) .. job.file
         /\ \A k \in 1 .. LastWritten :
              dir[Chunk(job, k)] = Piece(job.file, BytesTo(k), BytesTo(k + 1))
         /\ \A k \in 1 .. LastWritten + 1 : BytesTo(k) \in 0 .. job.file
<1>1. /\ ChunksFollow(job, index, dir, written)
      /\ job \in Jobs /\ index \in Nat \ {0}
  BY DEF SplitInv, SplitTypes
<1>2. LastWritten \in Nat /\ LastWritten \in {index - 1, index}
  BY <1>1 DEF LastWritten, LastChunk
<1>3. job.file \in Nat
  BY <1>1, JobFields
<1>4. BytesTo(1) = 0
  <2>1. 1 <= index
    BY <1>1
  <2> QED
    BY <1>1, <2>1, CutFacts DEF BytesTo, Reached
<1>5. /\ written = {Chunk(job, k) : k \in 1 .. LastWritten}
      /\ \A k \in 1 .. LastWritten :
           /\ BytesTo(k + 1) \in BytesTo(k) .. job.file
           /\ dir[Chunk(job, k)] = Piece(job.file, BytesTo(k), BytesTo(k + 1))
  BY <1>1 DEF ChunksFollow, LastWritten, BytesTo
<1>6. ASSUME NEW k \in 1 .. LastWritten + 1
      PROVE  BytesTo(k) \in 0 .. job.file
  <2>1. ASSUME NEW i \in Nat \ {0}, i <= index
        PROVE  BytesTo(i) \in 0 .. job.file
    <3>1. BytesTo(i) = Cut(job, i)
      BY <2>1 DEF BytesTo, Reached
    <3> QED
      BY <3>1, <1>1, CutFacts
  <2>2. k \in Nat \ {0}
    BY <1>2
  <2>3. CASE k <= index
    BY <2>1, <2>2, <2>3
  <2>4. CASE ~(k <= index)
    <3>1. k = index + 1 /\ index \in 1 .. LastWritten
      BY <2>4, <1>1, <1>2
    <3>2. BytesTo(index) \in 0 .. job.file
      BY <1>1, <2>1
    <3>3. BytesTo(index + 1) \in BytesTo(index) .. job.file
      BY <3>1, <1>5
    <3> QED
      BY <3>1, <3>2, <3>3, <1>3
  <2> QED
    BY <2>3, <2>4
<1> QED
  BY <1>2, <1>3, <1>4, <1>5, <1>6

\* What a merge changes of what the invariant says.
LEMMA MergeLeaves ==
  ASSUME SplitInv, UNCHANGED splitting, dir' = dir, pc # "split", pc' # "split",
         merged' \in [prefix : ChunkPrefixes, exit : {"none", "ok", "error"}],
         merged'.exit = "ok" => pc' = "idle"
  PROVE  /\ SplitTypes' /\ SplitPhases'
         /\ ChunksFollow(job, index, dir, written)'
         /\ LastWritten' = LastWritten /\ \A k : BytesTo(k)' = BytesTo(k)
         /\ job' = job /\ written' = written
         /\ MergeInv' => SplitInv'
<1>1. job' = job /\ pos' = pos /\ index' = index /\ split' = split /\ written' = written
  BY DEF splitting
<1>2. SplitTypes /\ SplitPhases /\ ChunksFollow(job, index, dir, written)
  BY DEF SplitInv
<1>3. SplitTypes' /\ SplitPhases'
  BY <1>1, <1>2 DEF SplitTypes, SplitPhases
<1>4. ChunksFollow(job, index, dir, written)'
  BY <1>1, <1>2
<1>5. LastWritten' = LastWritten /\ \A k : BytesTo(k)' = BytesTo(k)
  BY <1>1 DEF LastWritten, BytesTo
<1> QED
  BY <1>1, <1>3, <1>4, <1>5 DEF SplitInv

\* All and only the chunks of the split are the files that a merge of its own takes.
LEMMA OwnChunksMatch ==
  ASSUME SplitInv, Matching(job.prefix) \subseteq written
  PROVE  Matching(job.prefix) = written
<1>1. job \in Jobs /\ written \subseteq DOMAIN dir
  BY DEF SplitInv, SplitTypes, ChunksFollow
<1>2. ASSUME NEW name \in written
      PROVE  name \in Matching(job.prefix)
  <2>1. PICK k \in 1 .. LastWritten : name = Chunk(job, k)
    BY ReachedFacts
  <2>2. k \in Nat \ {0}
    BY ReachedFacts
  <2>3. ChunkIndex(name, job.prefix) # 0
    BY <1>1, <2>1, <2>2, ChunkNames
  <2> QED
    BY <1>1, <2>3 DEF Matching
<1> QED
  BY <1>2

LEMMA MergeStartInv ==
  ASSUME SplitInv, NEW prefix \in ChunkPrefixes, MergeStart(prefix)
  PROVE  SplitInv'
<1>1. /\ pc = "idle" /\ UNCHANGED splitting /\ dir' = dir
  BY DEF MergeStart
<1>2. CASE Matching(prefix) = {}
  <2>1. /\ merged' = [prefix |-> prefix, exit |-> "error"] /\ pc' = pc
    BY <1>2 DEF MergeStart
  <2>2. MergeInv'
    BY <1>1, <2>1 DEF MergeInv
  <2> QED
    BY <1>1, <2>1, <2>2, MergeLeaves
<1>3. CASE Matching(prefix) # {}
  <2>1. /\ merged' = [prefix |-> prefix, exit |-> "none"]
        /\ pc' = "merge" /\ todo' = Matching(prefix) /\ out' = <<>>
    BY <1>3 DEF MergeStart
  <2>2. /\ LastWritten' = LastWritten /\ \A k : BytesTo(k)' = BytesTo(k)
        /\ job' = job /\ written' = written
        /\ MergeInv' => SplitInv'
    BY <1>1, <2>1, MergeLeaves
  <2>3. ASSUME OwnMerge'
        PROVE  \E j \in 1 .. LastWritten + 1 :
                 /\ todo' = {Chunk(job, k) : k \in j .. LastWritten}
                 /\ out' = Piece(job.file, 0, BytesTo(j))
    <3>1. prefix = job.prefix
      BY <2>1, <2>2, <2>3 DEF OwnMerge
    <3>2. Matching(job.prefix) \subseteq written
      BY <1>1, <2>1, <2>2, <2>3, <3>1 DEF OwnMerge, OnlyOwnChunks, Matching
    <3>3. todo' = {Chunk(job, k) : k \in 1 .. LastWritten}
      BY <2>1, <3>1, <3>2, OwnChunksMatch, ReachedFacts, Zenon
    <3>4. out' = Piece(job.file, 0, BytesTo(1))
      <4>1. BytesTo(1) = 0 /\ job.file \in Nat
        BY ReachedFacts
      <4>2. ASSUME NEW n \in Nat
            PROVE  <<>> = Piece(n, 0, 0)
        BY DEF Piece, Content
      <4> QED
        BY <2>1, <4>1, <4>2
    <3>5. 1 \in 1 .. LastWritten + 1
      BY ReachedFacts
    <3> QED
      BY <3>3, <3>4, <3>5
  <2>4. MergeInv'
    BY <2>1, <2>2, <2>3 DEF MergeInv
  <2> QED
    BY <2>2, <2>4
<1> QED
  BY <1>2, <1>3

LEMMA MergeChunkInv ==
  ASSUME SplitInv, MergeChunk
  PROVE  SplitInv'
<1>1. /\ pc = "merge" /\ pc' = pc /\ UNCHANGED splitting /\ dir' = dir /\ merged' = merged
  BY DEF MergeChunk
<1>2. PICK name \in todo : /\ NextChunk(name)
                           /\ out' = out \o dir[name] /\ todo' = todo \ {name}
  BY DEF MergeChunk
<1>3. /\ SplitTypes /\ SplitPhases /\ MergeInv /\ job \in Jobs
      /\ merged \in [prefix : ChunkPrefixes, exit : {"none", "ok", "error"}]
  BY DEF SplitInv, SplitTypes
<1>4. merged.exit # "ok"
  BY <1>1, <1>3 DEF SplitPhases
<1>5. /\ LastWritten' = LastWritten /\ \A k : BytesTo(k)' = BytesTo(k)
      /\ job' = job /\ written' = written
      /\ MergeInv' => SplitInv'
  BY <1>1, <1>3, <1>4, MergeLeaves
<1>6. ASSUME OwnMerge'
      PROVE  \E j \in 1 .. LastWritten + 1 :
               /\ todo' = {Chunk(job, k) : k \in j .. LastWritten}
               /\ out' = Piece(job.file, 0, BytesTo(j))
  <2>1. OwnMerge
    BY <1>1, <1>5, <1>6 DEF OwnMerge, OnlyOwnChunks, Matching
  <2>2. PICK j \in 1 .. LastWritten + 1 :
          /\ todo = {Chunk(job, k) : k \in j .. LastWritten}
          /\ out = Piece(job.file, 0, BytesTo(j))
    BY <1>1, <1>3, <2>1 DEF MergeInv
  <2>3. LastWritten \in Nat
    BY ReachedFacts
  <2>4. PICK i \in j .. LastWritten : name = Chunk(job, i)
    BY <1>2, <2>2
  <2>5. \A k \in j .. LastWritten : ChunkIndex(Chunk(job, k), merged.prefix) = k
    <3>1. ASSUME NEW k \in j .. LastWritten
          PROVE  k \in Nat \ {0}
      BY <2>3
    <3> QED
      BY <3>1, <1>3, <2>1, ChunkNames DEF OwnMerge
  <2>6. j \in j .. LastWritten
    BY <2>3, <2>4
  <2>7. i = j
    <3>1. ChunkIndex(name, merged.prefix) <= ChunkIndex(Chunk(job, j), merged.prefix)
      BY <1>2, <2>2, <2>6 DEF NextChunk
    <3>2. i <= j
      BY <3>1, <2>4, <2>5, <2>6
    <3> QED
      BY <3>2, <2>3, <2>4
  <2>8. todo' = {Chunk(job, k) : k \in j + 1 .. LastWritten}
    <3>1. ASSUME NEW k \in j .. LastWritten
          PROVE  Chunk(job, k) = name <=> k = j
      <4>1. ChunkIndex(Chunk(job, k), merged.prefix) = k
            /\ ChunkIndex(name, merged.prefix) = j
        BY <2>4, <2>5, <2>7
      <4> QED
        BY <4>1, <2>4, <2>7
    <3>2. \A k : k \in j + 1 .. LastWritten <=> k \in j .. LastWritten /\ k # j
      BY <2>3
    <3> QED
      BY <3>1, <3>2, <1>2, <2>2
  <2>9. out' = Piece(job.file, 0, BytesTo(j + 1))
    <3>1. j \in 1 .. LastWritten
      BY <2>3, <2>6
    <3>2. /\ job.file \in Nat /\ BytesTo(j) \in 0 .. job.file
          /\ BytesTo(j + 1) \in BytesTo(j) .. job.file
          /\ dir[Chunk(job, j)] = Piece(job.file, BytesTo(j), BytesTo(j + 1))
      BY <3>1, ReachedFacts
    <3>3. out' = Piece(job.file, 0, BytesTo(j)) \o Piece(job.file, BytesTo(j), BytesTo(j + 1))
      BY <1>2, <2>2, <2>4, <2>7, <3>2
    <3> QED
      BY <3>2, <3>3, PiecesJoin, Zenon
  <2>10. j + 1 \in 1 .. LastWritten + 1
    BY <2>3, <2>6
  <2> QED
    BY <2>8, <2>9, <2>10
<1>7. MergeInv'
  BY <1>1, <1>4, <1>5, <1>6 DEF MergeInv
<1> QED
  BY <1>5, <1>7

LEMMA MergeStopsInv ==
  ASSUME SplitInv, MergeStops
  PROVE  SplitInv'
<1>1. /\ pc = "merge" /\ pc' = "idle" /\ UNCHANGED splitting /\ dir' = dir
      /\ merged' = [merged EXCEPT !.exit = "error"]
  BY DEF MergeStops
<1>2. /\ merged' \in [prefix : ChunkPrefixes, exit : {"none", "ok", "error"}]
      /\ merged'.exit = "error"
  BY <1>1 DEF SplitInv, SplitTypes
<1>3. MergeInv'
  BY <1>1, <1>2 DEF MergeInv
<1> QED
  BY <1>1, <1>2, <1>3, MergeLeaves

LEMMA MergeEndInv ==
  ASSUME SplitInv, MergeEnd
  PROVE  SplitInv'
<1>1. /\ pc = "merge" /\ todo = {} /\ pc' = "idle" /\ UNCHANGED splitting /\ dir' = dir
      /\ out' = out /\ merged' = [merged EXCEPT !.exit = "ok"]
  BY DEF MergeEnd
<1>2. /\ merged' \in [prefix : ChunkPrefixes, exit : {"none", "ok", "error"}]
      /\ merged'.exit = "ok" /\ merged'.prefix = merged.prefix
  BY <1>1 DEF SplitInv, SplitTypes
<1>3. /\ LastWritten' = LastWritten /\ \A k : BytesTo(k)' = BytesTo(k)
      /\ job' = job /\ written' = written
      /\ MergeInv' => SplitInv'
  BY <1>1, <1>2, MergeLeaves
<1>4. ASSUME OwnMerge'
      PROVE  out' = Piece(job.file, 0, BytesTo(LastWritten + 1))
  <2>1. OwnMerge
    BY <1>1, <1>2, <1>3, <1>4 DEF OwnMerge, OnlyOwnChunks, Matching
  <2>2. PICK j \in 1 .. LastWritten + 1 :
          /\ todo = {Chunk(job, k) : k \in j .. LastWritten}
          /\ out = Piece(job.file, 0, BytesTo(j))
    BY <1>1, <2>1 DEF SplitInv, MergeInv
  <2>3. LastWritten \in Nat
    BY ReachedFacts
  <2>4. j = LastWritten + 1
    <3>1. ASSUME j \in 1 .. LastWritten
          PROVE  FALSE
      <4>1. j \in j .. LastWritten
        BY <3>1, <2>3
      <4>2. Chunk(job, j) \in todo
        BY <4>1, <2>2
      <4> QED
        BY <4>2, <1>1
    <3> QED
      BY <3>1, <2>3
  <2> QED
    BY <2>2, <2>4, <1>1
<1>5. MergeInv'
  BY <1>1, <1>3, <1>4 DEF MergeInv
<1> QED
  BY <1>3, <1>5

LEMMA SplitNextInv ==
  ASSUME SplitInv, [SplitNext]_splitVars
  PROVE  SplitInv'
<1>1. CASE UNCHANGED splitVars
  <2>1. /\ pc' = pc /\ job' = job /\ pos' = pos /\ index' = index /\ split' = split
        /\ dir' = dir /\ todo' = todo /\ out' = out /\ merged' = merged
        /\ written' = written
    BY <1>1 DEF splitVars
  <2>2. SplitTypes' /\ SplitPhases' /\ ChunksFollow(job, index, dir, written)'
    BY <2>1 DEF SplitInv, SplitTypes, SplitPhases
  <2>3. MergeInv'
    BY <2>1 DEF SplitInv, MergeInv, OwnMerge, OnlyOwnChunks, Matching, LastWritten, BytesTo
  <2> QED
    BY <2>2, <2>3 DEF SplitInv
<1> QED
  BY <1>1, SplitStartInv, SplitChunkInv, SplitEndInv, SplitStopsInv, MergeStartInv,
     MergeChunkInv, MergeStopsInv, MergeEndInv DEF SplitNext, SplitRest

\* What the invariant says of a split that was merged back.
LEMMA SplitInvSound == SplitInv => MergeIsSound
<1> SUFFICES ASSUME SplitInv, Restored, OnlyOwnChunks
             PROVE  /\ split = "ok" => out = Content(job.file)
                    /\ split = "stopped" => /\ Len(out) <= job.file
                                            /\ out = SubSeq(Content(job.file), 1, Len(out))
  BY DEF MergeIsSound, RoundTrip, PartialIsPrefix
<1> DEFINE last == BytesTo(LastWritten + 1)
           n == job.file
<1>1. out = Piece(n, 0, last)
  BY DEF SplitInv, MergeInv, OwnMerge, Restored
<1>2. n \in Nat /\ last \in 0 .. n /\ LastWritten \in Nat
  <2>1. LastWritten + 1 \in 1 .. LastWritten + 1
    BY ReachedFacts
  <2> QED
    BY <2>1, ReachedFacts
<1>3. split = "ok" => last = n
  <2> SUFFICES ASSUME split = "ok"
               PROVE  last = n
    OBVIOUS
  <2>1. /\ index \in Nat \ {0} /\ pos = Cut(job, index) /\ pos = n
    BY DEF SplitInv, SplitTypes, SplitPhases
  <2>2. BytesTo(index) = n
    <3>1. index <= index
      BY <2>1
    <3> QED
      BY <2>1, <3>1 DEF BytesTo, Reached
  <2>3. CASE LastWritten = index - 1
    BY <2>1, <2>2, <2>3
  <2>4. CASE LastWritten = index
    <3>1. BytesTo(index + 1) \in n .. n
      BY <2>1, <2>2, <2>4, ReachedFacts
    <3> QED
      BY <2>4, <3>1, <1>2
  <2> QED
    BY <2>3, <2>4 DEF LastWritten, LastChunk
<1>4. Len(out) = last
  <2> HIDE DEF last, n
  <2>1. 0 \in 0 .. n
    BY <1>2
  <2> QED
    BY <2>1, <1>1, <1>2, PieceFacts
<1>5. Piece(n, 0, last) = SubSeq(Content(n), 1, last)
  BY DEF Piece
<1>6. Piece(n, 0, n) = Content(n)
  <2> HIDE DEF n
  <2>1. n \in 0 .. n
    BY <1>2
  <2> QED
    BY <1>2, <2>1, PieceFromStart, Zenon DEF Content
<1> HIDE DEF last, n
<1>7. split = "ok" => out = Content(n)
  BY <1>1, <1>3, <1>6
<1>8. Len(out) <= n /\ out = SubSeq(Content(n), 1, Len(out))
  BY <1>1, <1>2, <1>4, <1>5
<1> QED
  BY <1>7, <1>8 DEF n

\* A merge that takes only what the last split wrote gives the file back, byte by byte,
\* after a complete split, and a beginning of it after one that was cut off: whatever the
\* sizes of files and chunks, the prefixes, the index widths and the number of calls.
THEOREM MergeSound == Spec => []MergeIsSound
<1>1. Init => SplitInv
  BY SplitInitInv
<1>2. SplitInv /\ [Next]_vars => SplitInv'
  <2> SUFFICES ASSUME SplitInv, [Next]_vars
               PROVE  SplitInv'
    OBVIOUS
  <2>1. [SplitNext]_splitVars
    BY DEF Next, vars, Rest, RunBuniq, RunFill, RunKp, RunBhxx, RunBpatch, RunBgrep, RunFurl,
           RunExe, RunSplitMerge
  <2> QED
    BY <2>1, SplitNextInv
<1> QED
  BY <1>1, <1>2, SplitInvSound, PTL DEF Spec

-----------------------------------------------------------------------------
(* bpatch: a patch written over a file or into it.                         *)

\* The bytes of a file: those of the file itself, of a patch and its markers, and zeros.
Characters == STRING \cup {"<", ">", "m"}
PatchBytes == ({"char"} \X Characters) \cup ({"hex"} \X Nat)

\* Where parsing a patch stands: whether it is well-formed, and its bytes from here on.
Parsed == [ok : BOOLEAN, bytes : Seq(PatchBytes)]

\* Induction over a set of numbers.
LEMMA NatSetInduction ==
  ASSUME NEW S, 0 \in S, \A k \in Nat : k \in S => k + 1 \in S
  PROVE  \A k \in Nat : k \in S
<1> DEFINE T == Nat \ S
<1>1. SUFFICES ASSUME T # {}
               PROVE  FALSE
  OBVIOUS
<1>2. PICK n \in T : \A m \in T : ~ (<<m, n>> \in OpToRel(<, Nat))
  BY <1>1, WFMin, NatLessThanWellFounded
<1>3. \A m \in T : ~ (m < n)
  BY <1>2, Zenon DEF OpToRel
<1>4. n # 0 /\ n - 1 \in Nat
  OBVIOUS
<1>5. n - 1 \in S
  BY <1>3, <1>4
<1>6. n - 1 + 1 = n
  BY <1>4
<1> QED
  BY <1>4, <1>5, <1>6

\* The value of an escape.
LEMMA StoulType ==
  ASSUME NEW pair
  PROVE  Stoul(pair) \in Nat \cup {-1}
<1>1. \A c : IsHex(c) => HexValue[c] \in Nat
  BY DEF IsHex, HexValue
<1> QED
  BY <1>1 DEF Stoul

\* A patch is parsed to bytes, whatever its length: the recursive function of
\* ParseEscapedHex exists and has a value at every position, from the last one back.
LEMMA ParseType ==
  ASSUME NEW text \in Seq(STRING)
  PROVE  ParseEscapedHex(text) \in Seq(PatchBytes)
<1> DEFINE n == Len(text)
           last == n + 4
           byte(i) == Stoul(SubSeq(text, i + 2, i + 3))
           Body(f, i) ==
             IF i > n THEN [ok |-> TRUE, bytes |-> <<>>]
             ELSE IF ~Escape(text, i)
             THEN [f[i + 1] EXCEPT !.bytes = <<<<"char", text[i]>>>> \o @]
             ELSE IF byte(i) = -1 THEN [ok |-> FALSE, bytes |-> <<>>]
                  ELSE [f[i + 4] EXCEPT !.bytes = <<<<"hex", byte(i)>>>> \o @]
           parse == CHOOSE f : f = [i \in 1 .. last |-> Body(f, i)]
<1>1. ParseEscapedHex(text) = IF parse[1].ok THEN parse[1].bytes ELSE <<>>
  BY DEF ParseEscapedHex
<1>2. n \in Nat /\ last = n + 4
  OBVIOUS
<1>3. ASSUME NEW f, NEW i \in 1 .. last, \A k \in i + 1 .. last : f[k] \in Parsed
      PROVE  Body(f, i) \in Parsed
  <2>1. <<>> \in Seq(PatchBytes)
    OBVIOUS
  <2>2. CASE i > n
    BY <2>1, <2>2 DEF Parsed
  <2>3. CASE i <= n
    <3>1. i + 1 \in i + 1 .. last /\ i + 4 \in i + 1 .. last /\ ~(i > n)
      BY <2>3, <1>2
    <3>2. f[i + 1] \in Parsed /\ f[i + 4] \in Parsed
      BY <3>1, <1>3
    <3>3. text[i] \in STRING
      BY <2>3
    <3>4. ASSUME NEW r \in Parsed, NEW b \in PatchBytes
          PROVE  [r EXCEPT !.bytes = <<b>> \o @] \in Parsed
      <4>1. <<b>> \o r.bytes \in Seq(PatchBytes)
        BY DEF Parsed
      <4> QED
        BY <4>1, Zenon DEF Parsed
    <3>5. <<"char", text[i]>> \in PatchBytes
      BY <3>3 DEF PatchBytes, Characters
    <3>6. byte(i) # -1 => <<"hex", byte(i)>> \in PatchBytes
      BY StoulType DEF PatchBytes
    <3>7. [ok |-> FALSE, bytes |-> <<>>] \in Parsed
      BY <2>1 DEF Parsed
    <3> HIDE DEF byte
    <3>8. CASE ~Escape(text, i)
      <4>1. Body(f, i) = [f[i + 1] EXCEPT !.bytes = <<<<"char", text[i]>>>> \o @]
        BY <3>1, <3>8
      <4> HIDE DEF Body
      <4> QED
        BY <4>1, <3>2, <3>4, <3>5, Zenon
    <3>9. CASE Escape(text, i) /\ byte(i) = -1
      BY <3>1, <3>7, <3>9
    <3>10. CASE Escape(text, i) /\ byte(i) # -1
      <4>1. Body(f, i) = [f[i + 4] EXCEPT !.bytes = <<<<"hex", byte(i)>>>> \o @]
        BY <3>1, <3>10
      <4> HIDE DEF Body
      <4> QED
        BY <4>1, <3>2, <3>4, <3>6, <3>10, Zenon
    <3> QED
      BY <3>8, <3>9, <3>10
  <2> QED
    BY <2>2, <2>3, <1>2
<1>4. ASSUME NEW f, NEW g, NEW i \in 1 .. last, \A k \in i + 1 .. last : f[k] = g[k]
      PROVE  Body(f, i) = Body(g, i)
  <2>1. CASE i > n
    BY <2>1
  <2>2. CASE i <= n
    <3>1. i + 1 \in i + 1 .. last /\ i + 4 \in i + 1 .. last
      BY <2>2, <1>2
    <3>2. f[i + 1] = g[i + 1] /\ f[i + 4] = g[i + 4]
      BY <3>1, <1>4
    <3> QED
      BY <3>2
  <2> QED
    BY <2>1, <2>2, <1>2
<1> HIDE DEF Body, n, last, byte
<1>5. parse = [i \in 1 .. last |-> Body(parse, i)]
  <2> DEFINE S == {k \in Nat : \E f : \A i \in 1 .. last : i > last - k => f[i] = Body(f, i)}
  <2>1. 0 \in S
    BY <1>2
  <2>2. ASSUME NEW k \in Nat, k \in S
        PROVE  k + 1 \in S
    <3>1. PICK f : \A i \in 1 .. last : i > last - k => f[i] = Body(f, i)
      BY <2>2
    <3> DEFINE g == [i \in 1 .. last |-> IF i = last - k THEN Body(f, i) ELSE f[i]]
    <3>2. ASSUME NEW i \in 1 .. last, i > last - (k + 1)
          PROVE  g[i] = Body(g, i)
      <4>1. \A j \in i + 1 .. last : f[j] = g[j]
        BY <3>2, <1>2
      <4>2. Body(f, i) = Body(g, i)
        <5> HIDE DEF g
        <5> QED
          BY <4>1, <1>4
      <4>3. i = last - k \/ i > last - k
        BY <3>2, <1>2
      <4>4. g[i] = Body(f, i)
        BY <4>3, <3>1, <1>2
      <4> QED
        BY <4>2, <4>4
    <3> HIDE DEF g
    <3> QED
      BY <3>2
  <2> HIDE DEF S
  <2>3. last \in S
    BY <2>1, <2>2, <1>2, NatSetInduction
  <2> USE DEF S
  <2>4. PICK f : \A i \in 1 .. last : f[i] = Body(f, i)
    BY <2>3, <1>2
  <2> DEFINE g == [i \in 1 .. last |-> f[i]]
  <2>5. g = [i \in 1 .. last |-> Body(g, i)]
    <3>1. ASSUME NEW i \in 1 .. last
          PROVE  f[i] = Body(g, i)
      <4>1. \A j \in i + 1 .. last : f[j] = g[j]
        BY <1>2
      <4> HIDE DEF g
      <4> QED
        BY <4>1, <1>4, <2>4
    <3> QED
      BY <3>1
  <2> HIDE DEF g
  <2> QED
    BY <2>5, Zenon
<1> HIDE DEF parse
<1>6. \A i \in 1 .. last : parse[i] \in Parsed
  <2> DEFINE S == {k \in Nat : \A i \in 1 .. last : i > last - k => parse[i] \in Parsed}
  <2>1. 0 \in S
    BY <1>2
  <2>2. ASSUME NEW k \in Nat, k \in S
        PROVE  k + 1 \in S
    <3>1. ASSUME NEW i \in 1 .. last, i > last - (k + 1)
          PROVE  parse[i] \in Parsed
      <4>1. \A j \in i + 1 .. last : parse[j] \in Parsed
        BY <2>2, <3>1, <1>2
      <4> QED
        BY <4>1, <1>3, <1>5, Zenon
    <3> QED
      BY <3>1
  <2> HIDE DEF S
  <2>3. last \in S
    BY <2>1, <2>2, <1>2, NatSetInduction
  <2> USE DEF S
  <2> QED
    BY <2>3, <1>2
<1>7. parse[1] \in Parsed
  BY <1>2, <1>6
<1> QED
  BY <1>1, <1>7 DEF Parsed

\* So is a patch between its markers.
LEMMA PayloadType ==
  ASSUME NEW opt \in PatchOptions
  PROVE  Payload(opt) \in Seq(PatchBytes)
<1>1. ParseEscapedHex(opt.text) \in Seq(PatchBytes)
  BY ParseType, PatchAssumption DEF PatchOptions
<1>2. <<"char", "<">> \in PatchBytes /\ <<"char", ">">> \in PatchBytes
  BY DEF PatchBytes, Characters
<1>3. ASSUME NEW s \in Seq(PatchBytes), NEW a \in PatchBytes, NEW b \in PatchBytes
      PROVE  <<a>> \o s \o <<b>> \in Seq(PatchBytes)
  OBVIOUS
<1> QED
  BY <1>1, <1>2, <1>3 DEF Payload

\* What Patched makes of data, said by positions: the patch is at its offset and every
\* other byte is where it was, or behind an insertion.
PatchedWell(result, data, payload, opt) ==
  LET at == opt.offset
      shift == IF opt.insert THEN Len(payload) ELSE 0
      old(i) == IF i <= at THEN i ELSE i + shift
  IN  /\ Len(result) = IF opt.insert \/ at + Len(payload) < Len(data)
                       THEN Len(data) + shift ELSE at + Len(payload)
      /\ SubSeq(result, at + 1, at + Len(payload)) = payload
      /\ \A i \in DOMAIN data :
           old(i) \in at + 1 .. at + Len(payload) \/ result[old(i)] = data[i]

\* The elements of two sequences joined.
LEMMA Joined ==
  ASSUME NEW S, NEW s \in Seq(S), NEW t \in Seq(S), NEW a, NEW m, Len(s) = a, Len(t) = m
  PROVE  /\ s \o t \in Seq(S) /\ Len(s \o t) = a + m
         /\ \A i \in 1 .. a : (s \o t)[i] = s[i]
         /\ \A i \in 1 .. m : (s \o t)[a + i] = t[i]
OBVIOUS

\* A function on the numbers from 1 to n is a sequence of length n.
LEMMA FunctionIsSeq ==
  ASSUME NEW S, NEW n \in Nat, NEW f \in [1 .. n -> S]
  PROVE  f \in Seq(S) /\ Len(f) = n
OBVIOUS

\* What stands before and behind a position.
LEMMA Parts ==
  ASSUME NEW B, NEW s, s \in Seq(B), NEW a, a \in Nat, NEW n, Len(s) = n, a <= n,
         NEW k, k = n - a
  PROVE  /\ SubSeq(s, 1, a) \in Seq(B) /\ Len(SubSeq(s, 1, a)) = a
         /\ \A i \in 1 .. a : SubSeq(s, 1, a)[i] = s[i]
         /\ SubSeq(s, a + 1, n) \in Seq(B) /\ Len(SubSeq(s, a + 1, n)) = k
         /\ \A i \in 1 .. k : SubSeq(s, a + 1, n)[i] = s[a + i]
<1>1. n \in Nat /\ k \in Nat
  OBVIOUS
<1>2. /\ SubSeq(s, 1, a) \in Seq(B) /\ Len(SubSeq(s, 1, a)) = a
      /\ \A i \in 1 .. a : SubSeq(s, 1, a)[i] = s[i]
  BY <1>1
<1>3. a + 1 \in Int /\ n \in Int /\ \A i \in a + 1 .. n : s[i] \in B
  BY <1>1
<1>4. /\ SubSeq(s, a + 1, n) \in Seq(B)
      /\ Len(SubSeq(s, a + 1, n)) = IF a + 1 <= n THEN n - (a + 1) + 1 ELSE 0
      /\ \A i \in 1 .. n - (a + 1) + 1 : SubSeq(s, a + 1, n)[i] = s[(a + 1) + i - 1]
  BY <1>3, SubSeqProperties
<1>5. n - (a + 1) + 1 = k /\ (IF a + 1 <= n THEN n - (a + 1) + 1 ELSE 0) = k
  BY <1>1
<1>6. /\ Len(SubSeq(s, a + 1, n)) = k
      /\ \A i \in 1 .. k : SubSeq(s, a + 1, n)[i] = s[(a + 1) + i - 1]
  BY <1>4, <1>5, Zenon
<1>7. \A i \in 1 .. k : (a + 1) + i - 1 = a + i
  BY <1>1
<1> QED
  BY <1>2, <1>4, <1>6, <1>7

\* A sequence with another written over it from a position.
LEMMA Overwritten ==
  ASSUME NEW B, NEW s \in Seq(B), NEW p \in Seq(B), NEW a \in Nat, NEW n, Len(s) = n,
         NEW m, Len(p) = m, a + m <= n, NEW r,
         r = [i \in 1 .. n |-> IF i - a \in 1 .. m THEN p[i - a] ELSE s[i]]
  PROVE  /\ r \in Seq(B) /\ Len(r) = n
         /\ \A i \in 1 .. m : r[a + i] = p[i]
         /\ \A i \in 1 .. n : i \in a + 1 .. a + m \/ r[i] = s[i]
<1>1. n \in Nat /\ m \in Nat
  OBVIOUS
<1>2. /\ \A j \in 1 .. m : p[j] \in B
      /\ \A j \in 1 .. n : s[j] \in B
  OBVIOUS
<1>3. ASSUME NEW i \in 1 .. n
      PROVE  (IF i - a \in 1 .. m THEN p[i - a] ELSE s[i]) \in B
  BY <1>2
<1>4. r \in [1 .. n -> B]
  BY <1>3
<1>5. r \in Seq(B) /\ Len(r) = n
  BY <1>1, <1>4, FunctionIsSeq
<1>6. ASSUME NEW i \in 1 .. m
      PROVE  r[a + i] = p[i]
  <2>1. a + i \in 1 .. n /\ (a + i) - a = i
    BY <1>1
  <2> QED
    BY <2>1
<1>7. ASSUME NEW i \in 1 .. n, i \notin a + 1 .. a + m
      PROVE  r[i] = s[i]
  <2>1. i - a \notin 1 .. m
    BY <1>1, <1>7
  <2> QED
    BY <2>1
<1> QED
  BY <1>5, <1>6, <1>7

\* A sequence's part is told by its elements.
LEMMA PartIs ==
  ASSUME NEW B, NEW s, s \in Seq(B), NEW p, p \in Seq(B), NEW a, a \in Nat,
         a + Len(p) <= Len(s), \A i \in 1 .. Len(p) : s[a + i] = p[i]
  PROVE  SubSeq(s, a + 1, a + Len(p)) = p
<1>1. Len(p) \in Nat /\ Len(s) \in Nat
  OBVIOUS
<1>2. a + 1 \in Int /\ a + Len(p) \in Int /\ a + Len(p) - (a + 1) + 1 = Len(p)
  BY <1>1
<1>3. \A i \in a + 1 .. a + Len(p) : s[i] \in B
  BY <1>1
<1>4. \A i \in 1 .. Len(p) : (a + 1) + i - 1 = a + i
  BY <1>1
<1> DEFINE q == SubSeq(s, a + 1, a + Len(p))
<1>5. /\ q \in Seq(B)
      /\ Len(q) = IF a + 1 <= a + Len(p) THEN a + Len(p) - (a + 1) + 1 ELSE 0
      /\ \A i \in 1 .. a + Len(p) - (a + 1) + 1 : q[i] = s[(a + 1) + i - 1]
  BY <1>2, <1>3, SubSeqProperties
<1> HIDE DEF q
<1>6. Len(q) = Len(p) /\ \A i \in 1 .. Len(p) : q[i] = p[i]
  BY <1>1, <1>2, <1>4, <1>5
<1>7. q = p
  BY <1>5, <1>6
<1> QED
  BY <1>7 DEF q

\* Data made longer: zeros behind them.
LEMMA ResizedIs ==
  ASSUME NEW B, Zero \in B, NEW data, data \in Seq(B), NEW required, required \in Nat
  PROVE  /\ Resized(data, required) \in Seq(B)
         /\ Len(Resized(data, required)) = IF required > Len(data) THEN required ELSE Len(data)
         /\ \A i \in 1 .. Len(data) : Resized(data, required)[i] = data[i]
<1>1. CASE required > Len(data)
  <2>1. PICK n, k : n = Len(data) /\ k = required - Len(data)
    OBVIOUS
  <2>2. n \in Nat /\ k \in Nat /\ n + k = required
    BY <1>1, <2>1
  <2> DEFINE zeros == [i \in 1 .. k |-> Zero]
  <2>3. zeros \in Seq(B) /\ Len(zeros) = k
    <3>1. zeros \in [1 .. k -> B]
      OBVIOUS
    <3> QED
      BY <2>2, <3>1, FunctionIsSeq
  <2>4. Resized(data, required) = data \o zeros
    BY <1>1, <2>1 DEF Resized
  <2> HIDE DEF zeros
  <2>5. data \in Seq(B) /\ Len(data) = n /\ zeros \in Seq(B) /\ Len(zeros) = k
    BY <2>1, <2>3
  <2>6. /\ data \o zeros \in Seq(B) /\ Len(data \o zeros) = n + k
        /\ \A i \in 1 .. n : (data \o zeros)[i] = data[i]
    BY ONLY <2>5, Joined
  <2> QED
    BY <1>1, <2>1, <2>2, <2>4, <2>6
<1>2. CASE ~(required > Len(data))
  BY <1>2 DEF Resized
<1> QED
  BY <1>1, <1>2

\* An insertion and an overwrite, for data, a patch and an offset of any length.
LEMMA PatchedIsWell ==
  ASSUME NEW B, Zero \in B, NEW data, data \in Seq(B), NEW opt,
         opt.offset \in Nat, opt.insert \in BOOLEAN, opt.offset <= Len(data),
         NEW payload, payload \in Seq(B)
  PROVE  /\ Patched(data, payload, opt) \in Seq(B)
         /\ PatchedWell(Patched(data, payload, opt), data, payload, opt)
<1>1. PICK at, n, m, r :
        at = opt.offset /\ n = Len(data) /\ m = Len(payload) /\ r = Patched(data, payload, opt)
  BY Zenon
<1>2. at \in Nat /\ n \in Nat /\ m \in Nat /\ at <= n /\ opt.insert \in BOOLEAN
  BY <1>1
<1>3. DOMAIN data = 1 .. n /\ DOMAIN payload = 1 .. m
  BY <1>1
<1>4. CASE opt.insert
  <2> DEFINE front == SubSeq(data, 1, at)
             rest == SubSeq(data, at + 1, n)
  <2>1. PICK k : k = n - at
    OBVIOUS
  <2>2. /\ front \in Seq(B) /\ Len(front) = at
        /\ \A i \in 1 .. at : front[i] = data[i]
        /\ rest \in Seq(B) /\ Len(rest) = k
        /\ \A i \in 1 .. k : rest[i] = data[at + i]
    <3>1. data \in Seq(B) /\ at \in Nat /\ Len(data) = n /\ at <= n
      BY <1>1, <1>2
    <3> QED
      BY ONLY <3>1, <2>1, Parts
  <2>3. r = front \o payload \o rest
    BY <1>1, <1>4, Zenon DEF Patched
  <2> HIDE DEF front, rest
  <2>4. /\ data \in Seq(B) /\ payload \in Seq(B)
        /\ Len(data) = n /\ Len(payload) = m /\ at \in Nat /\ at <= n
    BY <1>1, <1>2
  <2>5. /\ r \in Seq(B) /\ Len(r) = n + m
        /\ \A i \in 1 .. at : r[i] = data[i]
        /\ \A i \in 1 .. m : r[at + i] = payload[i]
        /\ \A i \in at + 1 .. n : r[i + m] = data[i]
    <3>1. front \in Seq(B) /\ payload \in Seq(B) /\ rest \in Seq(B)
      BY <2>4, <2>2
    <3>2. Len(front) = at /\ Len(payload) = m /\ Len(rest) = k
      BY <2>4, <2>2
    <3>3. /\ front \o payload \o rest \in Seq(B) /\ Len(front \o payload \o rest) = at + m + k
          /\ \A i \in 1 .. at : (front \o payload \o rest)[i] = front[i]
          /\ \A i \in 1 .. m : (front \o payload \o rest)[at + i] = payload[i]
          /\ \A i \in 1 .. k : (front \o payload \o rest)[at + m + i] = rest[i]
      <4>1. PICK b, l : b = front \o payload /\ l = at + m
        BY Zenon
      <4>2. /\ front \o payload \in Seq(B) /\ Len(front \o payload) = at + m
            /\ \A i \in 1 .. at : (front \o payload)[i] = front[i]
            /\ \A i \in 1 .. m : (front \o payload)[at + i] = payload[i]
        BY ONLY <3>1, <3>2, Joined
      <4>3. /\ b \in Seq(B) /\ Len(b) = l
            /\ \A i \in 1 .. at : b[i] = front[i]
            /\ \A i \in 1 .. m : b[at + i] = payload[i]
        BY <4>1, <4>2, Zenon
      <4>4. /\ b \o rest \in Seq(B) /\ Len(b \o rest) = l + k
            /\ \A i \in 1 .. l : (b \o rest)[i] = b[i]
            /\ \A i \in 1 .. k : (b \o rest)[l + i] = rest[i]
        BY ONLY <4>3, <3>1, <3>2, Joined
      <4>5. /\ \A i \in 1 .. at : i \in 1 .. l
            /\ \A i \in 1 .. m : at + i \in 1 .. l
        BY <1>2, <4>1
      <4>6. /\ b \o rest \in Seq(B) /\ Len(b \o rest) = at + m + k
            /\ \A i \in 1 .. at : (b \o rest)[i] = front[i]
            /\ \A i \in 1 .. m : (b \o rest)[at + i] = payload[i]
            /\ \A i \in 1 .. k : (b \o rest)[at + m + i] = rest[i]
        BY <4>1, <4>3, <4>4, <4>5, Zenon
      <4> QED
        BY <4>1, <4>6, Zenon
    <3>4. /\ r \in Seq(B) /\ Len(r) = at + m + k
          /\ \A i \in 1 .. at : r[i] = front[i]
          /\ \A i \in 1 .. m : r[at + i] = payload[i]
          /\ \A i \in 1 .. k : r[at + m + i] = rest[i]
      BY <2>3, <3>3, Zenon
    <3>5. at + m + k = n + m
      BY <1>2, <2>1
    <3>6. ASSUME NEW i, i \in at + 1 .. n
          PROVE  r[i + m] = data[i]
      <4>1. i - at \in 1 .. k /\ at + m + (i - at) = i + m /\ at + (i - at) = i
        BY <1>2, <2>1, <3>6
      <4>2. r[at + m + (i - at)] = rest[i - at] /\ rest[i - at] = data[at + (i - at)]
        BY <2>2, <3>4, <4>1
      <4> QED
        BY <4>1, <4>2
    <3>7. \A i \in 1 .. at : r[i] = data[i]
      BY <2>2, <3>4, Zenon
    <3>8. Len(r) = n + m
      BY <3>4, <3>5
    <3> QED
      BY <3>4, <3>6, <3>7, <3>8, Zenon
  <2>6. SubSeq(r, at + 1, at + m) = payload
    <3>1. at + m <= Len(r) /\ Len(payload) = m
      BY <1>1, <1>2, <2>5
    <3> QED
      BY ONLY <3>1, <2>4, <2>5, PartIs
  <2>7. ASSUME NEW i, i \in 1 .. n
        PROVE  r[IF i <= at THEN i ELSE i + m] = data[i]
    <3>1. CASE i <= at
      <4>1. i \in 1 .. at
        BY <1>2, <2>7, <3>1
      <4> QED
        BY <2>5, <3>1, <4>1
    <3>2. CASE ~(i <= at)
      <4>1. i \in at + 1 .. n
        BY <1>2, <2>7, <3>2
      <4> QED
        BY <2>5, <3>2, <4>1
    <3> QED
      BY <3>1, <3>2
  <2>8. PatchedWell(r, data, payload, opt)
    BY <1>1, <1>3, <1>4, <2>5, <2>6, <2>7 DEF PatchedWell
  <2> QED
    BY <1>1, <2>5, <2>8
<1>5. CASE ~opt.insert
  <2>1. PICK total, long :
          total = (IF at + m > n THEN at + m ELSE n) /\ long = Resized(data, at + m)
    OBVIOUS
  <2>2. /\ long \in Seq(B) /\ Len(long) = total
        /\ \A i \in 1 .. n : long[i] = data[i]
    <3>1. at + m \in Nat /\ data \in Seq(B) /\ Zero \in B
      BY <1>2
    <3>2. /\ Resized(data, at + m) \in Seq(B)
          /\ Len(Resized(data, at + m)) = IF at + m > Len(data) THEN at + m ELSE Len(data)
          /\ \A i \in 1 .. Len(data) : Resized(data, at + m)[i] = data[i]
      BY ONLY <3>1, ResizedIs
    <3> QED
      BY <1>1, <2>1, <3>2
  <2>3. DOMAIN long = 1 .. total
    BY <2>2
  <2>4. r = [i \in DOMAIN long |-> IF i - at \in DOMAIN payload THEN payload[i - at]
                                   ELSE long[i]]
    BY <1>1, <1>5, <2>1, Zenon DEF Patched
  <2>5. r = [i \in 1 .. total |-> IF i - at \in 1 .. m THEN payload[i - at] ELSE long[i]]
    BY <1>3, <2>3, <2>4
  <2>6. at + m <= total /\ n <= total /\ total \in Nat
    BY <1>2, <2>1
  <2>7. payload \in Seq(B) /\ Len(payload) = m
    BY <1>1
  <2>8. /\ r \in Seq(B) /\ Len(r) = total
        /\ \A i \in 1 .. m : r[at + i] = payload[i]
        /\ \A i \in 1 .. total : i \in at + 1 .. at + m \/ r[i] = long[i]
    BY ONLY <1>2, <2>2, <2>5, <2>6, <2>7, Overwritten
  <2>9. SubSeq(r, at + 1, at + m) = payload
    BY ONLY <1>2, <2>6, <2>7, <2>8, PartIs, Zenon
  <2>10. ASSUME NEW i, i \in 1 .. n
         PROVE  \/ (IF i <= at THEN i ELSE i + 0) \in at + 1 .. at + m
                \/ r[IF i <= at THEN i ELSE i + 0] = data[i]
    <3>1. i \in 1 .. total /\ (IF i <= at THEN i ELSE i + 0) = i
      BY <1>2, <2>6, <2>10
    <3> QED
      BY <2>2, <2>8, <2>10, <3>1
  <2>11. Len(r) = IF at + m < n THEN n + 0 ELSE at + m
    BY <1>2, <2>1, <2>8
  <2>12. PatchedWell(r, data, payload, opt)
    BY <1>1, <1>3, <1>5, <2>9, <2>10, <2>11 DEF PatchedWell
  <2> QED
    BY <1>1, <2>8, <2>12
<1> QED
  BY <1>2, <1>4, <1>5

-----------------------------------------------------------------------------
PatchStates ==
  [opt : PatchOptions, pc : {"read", "dry", "open", "write", "done"}, disk : Seq(PatchBytes),
   before : Seq(PatchBytes), data : Seq(PatchBytes), meddled : BOOLEAN, failed : BOOLEAN,
   exit : {-2, -1, 0, 1}]

\* The file that the patch makes of the one at the start, the one that another program may
\* have added to, and the data in memory once they are patched.
PatchedFile(p) == Patched(p.before, Payload(p.opt), p.opt)
PatchUnchanged(p) ==
  p.disk = IF p.meddled THEN Append(p.before, <<"char", "m">>) ELSE p.before
PatchPrepared(p) == p.opt.offset <= Len(p.before) /\ p.data = PatchedFile(p)

\* What each step has to rely on: until the file is opened for writing nothing has happened
\* to it but what another program added, and the data in memory are the patched file.
PatchPhases(p) ==
  /\ p.pc = "done" <=> p.exit # -1
  /\ p.pc = "read" => ~p.meddled /\ PatchUnchanged(p)
  /\ p.pc \in {"open", "dry"} =>
       PatchUnchanged(p) /\ PatchPrepared(p) /\ (p.pc = "dry" <=> p.opt.dry)
  /\ p.pc = "write" => PatchPrepared(p) /\ ~p.opt.dry
  /\ p.pc = "done" =>
       /\ p.exit = 1 \/ p.opt.dry => PatchUnchanged(p)
       /\ p.exit = 0 /\ ~p.opt.dry /\ ~p.failed =>
            p.opt.offset <= Len(p.before) /\ p.disk = PatchedFile(p)

PatchInv ==
  IF tool = "bpatch"
  THEN patch \in PatchStates /\ PatchPhases(patch)
  ELSE patch.pc = "read" /\ patch.exit = -1 /\ ~patch.meddled /\ PatchUnchanged(patch)

\* The files at the start are sequences of bytes.
LEMMA FilesAreBytes == PatchFiles \subseteq Seq(PatchBytes)
<1>1. {"char"} \X STRING \subseteq PatchBytes
  BY DEF PatchBytes, Characters
<1>2. ASSUME NEW A, NEW B, A \subseteq B, NEW s \in Seq(A)
      PROVE  s \in Seq(B)
  BY <1>2
<1> QED
  BY <1>1, <1>2, PatchAssumption

\* The invariant holds at the start.
LEMMA PatchInitInv == Init => PatchInv
<1> SUFFICES ASSUME Init
             PROVE  PatchInv
  OBVIOUS
<1>1. CASE tool = "bpatch"
  <2>1. PICK opt \in PatchOptions, file \in PatchFiles : patch = PatchStart(opt, file)
    BY <1>1 DEF Init, PatchInit
  <2>2. file \in Seq(PatchBytes) /\ <<>> \in Seq(PatchBytes)
    BY FilesAreBytes
  <2>3. patch \in PatchStates
    BY <2>1, <2>2 DEF PatchStart, PatchStates
  <2>4. PatchPhases(patch)
    BY <2>1 DEF PatchStart, PatchPhases, PatchUnchanged
  <2> QED
    BY <1>1, <2>3, <2>4 DEF PatchInv
<1>2. CASE tool # "bpatch"
  <2>1. patch = PatchIdle
    BY <1>2 DEF Init
  <2> QED
    BY <1>2, <2>1 DEF PatchIdle, PatchStart, PatchInv, PatchUnchanged
<1> QED
  BY <1>1, <1>2

\* A call that fails before it writes, a dry run, and a call that is killed.
LEMMA PatchEndsInv ==
  ASSUME NEW p, p \in PatchStates, PatchPhases(p), NEW status, status \in {-2, 0, 1},
         NEW q, q = [p EXCEPT !.pc = "done", !.exit = status],
         status = 1 => p.pc \in {"read", "open", "dry"}, status = 0 => p.pc = "dry",
         p.pc # "done"
  PROVE  q \in PatchStates /\ PatchPhases(q)
<1>1. /\ q \in PatchStates /\ q.pc = "done" /\ q.exit = status /\ q.opt = p.opt
      /\ q.disk = p.disk /\ q.before = p.before /\ q.meddled = p.meddled /\ q.failed = p.failed
  BY Zenon DEF PatchStates
<1>2. PatchUnchanged(q) <=> PatchUnchanged(p)
  BY <1>1 DEF PatchUnchanged
<1>3. CASE p.pc \in {"read", "open", "dry"}
  BY <1>1, <1>2, <1>3 DEF PatchPhases
<1>4. CASE p.pc = "write"
  BY <1>1, <1>2, <1>4 DEF PatchPhases
<1> QED
  BY <1>3, <1>4 DEF PatchStates

\* Every step of bpatch keeps the invariant.
LEMMA PatchStepInv ==
  ASSUME patch \in PatchStates, PatchPhases(patch), PatchStep
  PROVE  patch' \in PatchStates /\ PatchPhases(patch')
<1>1. /\ patch.opt \in PatchOptions /\ patch.disk \in Seq(PatchBytes)
      /\ patch.before \in Seq(PatchBytes) /\ patch.data \in Seq(PatchBytes)
      /\ patch.meddled \in BOOLEAN /\ patch.failed \in BOOLEAN
      /\ patch.opt.offset \in Nat /\ patch.opt.insert \in BOOLEAN
  BY PatchAssumption DEF PatchStates, PatchOptions
<1>2. CASE ReadTarget
  <2>1. CASE PatchEnds(1)
    <3>1. PICK status : status = 1
      OBVIOUS
    <3>2. patch.pc = "read" /\ patch' = [patch EXCEPT !.pc = "done", !.exit = status]
      BY <1>2, <2>1, <3>1 DEF ReadTarget, PatchEnds
    <3>3. /\ status \in {-2, 0, 1} /\ patch.pc # "done"
          /\ status = 1 => patch.pc \in {"read", "open", "dry"}
          /\ status = 0 => patch.pc = "dry"
      BY <3>1, <3>2
    <3> QED
      BY <3>2, <3>3, PatchEndsInv
  <2>2. CASE ~PatchEnds(1)
    <3> DEFINE next == IF patch.opt.dry THEN "dry" ELSE "open"
               data == Patched(patch.disk, Payload(patch.opt), patch.opt)
    <3>1. /\ patch.pc = "read" /\ patch.opt.offset <= Len(patch.disk)
          /\ patch' = [patch EXCEPT !.pc = next, !.data = data]
      BY <1>2, <2>2 DEF ReadTarget
    <3>2. next \in {"dry", "open"} /\ (next = "dry" <=> patch.opt.dry)
      OBVIOUS
    <3>3. data \in Seq(PatchBytes)
      <4>1. Payload(patch.opt) \in Seq(PatchBytes) /\ Zero \in PatchBytes
        BY <1>1, PayloadType DEF Zero, PatchBytes
      <4> QED
        BY <1>1, <3>1, <4>1, PatchedIsWell
    <3> HIDE DEF next, data
    <3>4. /\ patch' \in PatchStates /\ patch'.pc = next /\ patch'.data = data
          /\ patch'.exit = patch.exit /\ patch'.opt = patch.opt /\ patch'.disk = patch.disk
          /\ patch'.before = patch.before /\ patch'.meddled = patch.meddled
      BY <3>1, <3>2, <3>3, Zenon DEF PatchStates
    <3>5. PatchUnchanged(patch) /\ patch.disk = patch.before /\ patch.exit = -1
      BY <3>1 DEF PatchPhases, PatchUnchanged
    <3>6. PatchUnchanged(patch') /\ PatchPrepared(patch')
      BY <3>1, <3>4, <3>5, Zenon DEF PatchUnchanged, PatchPrepared, PatchedFile, data
    <3> QED
      BY <3>2, <3>4, <3>5, <3>6 DEF PatchPhases
  <2> QED
    BY <2>1, <2>2
<1>3. CASE DryRun
  <2>1. patch.pc = "dry" /\ patch' = [patch EXCEPT !.pc = "done", !.exit = 0]
    BY <1>3 DEF DryRun, PatchEnds
  <2> QED
    BY <2>1, PatchEndsInv
<1>4. CASE OpenTarget
  <2>1. CASE PatchEnds(1)
    <3>1. PICK status : status = 1
      OBVIOUS
    <3>2. patch.pc = "open" /\ patch' = [patch EXCEPT !.pc = "done", !.exit = status]
      BY <1>4, <2>1, <3>1 DEF OpenTarget, PatchEnds
    <3>3. /\ status \in {-2, 0, 1} /\ patch.pc # "done"
          /\ status = 1 => patch.pc \in {"read", "open", "dry"}
          /\ status = 0 => patch.pc = "dry"
      BY <3>1, <3>2
    <3> QED
      BY <3>2, <3>3, PatchEndsInv
  <2>2. CASE ~PatchEnds(1)
    <3>1. patch.pc = "open" /\ patch' = [patch EXCEPT !.pc = "write", !.disk = <<>>]
      BY <1>4, <2>2 DEF OpenTarget
    <3>2. <<>> \in Seq(PatchBytes)
      OBVIOUS
    <3>3. /\ patch' \in PatchStates /\ patch'.pc = "write" /\ patch'.data = patch.data
          /\ patch'.exit = patch.exit /\ patch'.opt = patch.opt
          /\ patch'.before = patch.before
      BY <3>1, <3>2, Zenon DEF PatchStates
    <3>4. PatchPrepared(patch) /\ ~patch.opt.dry /\ patch.exit = -1
      BY <3>1 DEF PatchPhases
    <3> QED
      BY <3>3, <3>4 DEF PatchPhases, PatchPrepared, PatchedFile
  <2> QED
    BY <2>1, <2>2
<1>5. CASE WriteTarget
  <2>1. patch.pc = "write" /\ PatchPrepared(patch) /\ ~patch.opt.dry
    BY <1>5 DEF WriteTarget, PatchPhases
  <2>2. CASE patch' = [patch EXCEPT !.pc = "done", !.exit = 0, !.disk = patch.data]
    <3>1. /\ patch' \in PatchStates /\ patch'.pc = "done" /\ patch'.disk = patch.data
          /\ patch'.exit = 0 /\ patch'.opt = patch.opt /\ patch'.before = patch.before
      BY <1>1, <2>2, Zenon DEF PatchStates
    <3> QED
      BY <2>1, <3>1 DEF PatchPhases, PatchPrepared, PatchedFile
  <2>3. ASSUME NEW n, n \in {0, Len(patch.data) - 1},
               patch' = [patch EXCEPT !.pc = "done", !.exit = 0, !.failed = TRUE,
                                      !.disk = SubSeq(patch.data, 1, n)]
        PROVE  patch' \in PatchStates /\ PatchPhases(patch')
    <3>1. PICK cut : cut = SubSeq(patch.data, 1, n)
      BY Zenon
    <3>2. cut \in Seq(PatchBytes)
      BY <1>1, <2>3, <3>1
    <3>3. /\ patch' \in PatchStates /\ patch'.pc = "done" /\ patch'.failed
          /\ patch'.exit = 0 /\ patch'.opt = patch.opt
      BY <2>3, <3>1, <3>2, Zenon DEF PatchStates
    <3> QED
      BY <2>1, <3>3 DEF PatchPhases
  <2> QED
    BY <1>5, <2>2, <2>3 DEF WriteTarget
<1>6. CASE Meddle
  <2>1. PICK disk : disk = Append(patch.disk, <<"char", "m">>)
    BY Zenon
  <2>2. /\ patch.pc \in {"open", "dry"} /\ ~patch.meddled
        /\ patch' = [patch EXCEPT !.meddled = TRUE, !.disk = disk]
    BY <1>6, <2>1 DEF Meddle
  <2>3. disk \in Seq(PatchBytes)
    <3>1. <<"char", "m">> \in PatchBytes
      BY DEF PatchBytes, Characters
    <3> QED
      BY <1>1, <2>1, <3>1
  <2>4. /\ patch' \in PatchStates /\ patch'.pc = patch.pc /\ patch'.disk = disk
        /\ patch'.meddled /\ patch'.exit = patch.exit /\ patch'.opt = patch.opt
        /\ patch'.before = patch.before /\ patch'.data = patch.data
    BY <2>2, <2>3, Zenon DEF PatchStates
  <2>5. PatchUnchanged(patch')
    BY <2>1, <2>2, <2>4 DEF PatchPhases, PatchUnchanged
  <2> QED
    BY <2>2, <2>4, <2>5 DEF PatchPhases, PatchPrepared, PatchedFile
<1>7. CASE KillPatch
  <2>1. PICK status : status = -2
    OBVIOUS
  <2>2. patch.pc # "done" /\ patch' = [patch EXCEPT !.pc = "done", !.exit = status]
    BY <1>7, <2>1 DEF KillPatch
  <2>3. /\ status \in {-2, 0, 1}
        /\ status # 1 /\ status # 0
    BY <2>1
  <2> QED
    BY <2>2, <2>3, PatchEndsInv
<1> QED
  BY <1>2, <1>3, <1>4, <1>5, <1>6, <1>7 DEF PatchStep

\* The invariant says of a call that has ended what PatchIsExact does.
LEMMA PatchInvExact == PatchInv => PatchIsExact
<1> SUFFICES ASSUME PatchInv
             PROVE  PatchIsExact
  OBVIOUS
<1>1. PatchIsExact <=>
        /\ patch.exit = 0 /\ ~patch.opt.dry /\ ~patch.failed =>
             PatchedWell(patch.disk, patch.before, Payload(patch.opt), patch.opt)
        /\ patch.exit = 1 \/ patch.opt.dry \/ patch.pc \in {"read", "open", "dry"} =>
             PatchUnchanged(patch)
  BY DEF PatchIsExact, PatchedWell, PatchUnchanged
<1>2. CASE tool # "bpatch"
  <2>1. patch.exit = -1 /\ PatchUnchanged(patch)
    BY <1>2 DEF PatchInv
  <2> QED
    BY <1>1, <2>1
<1>3. CASE tool = "bpatch"
  <2>1. patch \in PatchStates /\ PatchPhases(patch)
    BY <1>3 DEF PatchInv
  <2>2. /\ patch.opt \in PatchOptions /\ patch.before \in Seq(PatchBytes)
        /\ patch.opt.offset \in Nat /\ patch.opt.insert \in BOOLEAN
        /\ patch.opt.dry \in BOOLEAN
        /\ patch.pc \in {"read", "dry", "open", "write", "done"}
    BY <2>1, PatchAssumption DEF PatchStates, PatchOptions
  <2>3. ASSUME patch.exit = 0, ~patch.opt.dry, ~patch.failed
        PROVE  PatchedWell(patch.disk, patch.before, Payload(patch.opt), patch.opt)
    <3>1. patch.opt.offset <= Len(patch.before) /\ patch.disk = PatchedFile(patch)
      BY <2>1, <2>3 DEF PatchPhases
    <3>2. Payload(patch.opt) \in Seq(PatchBytes) /\ Zero \in PatchBytes
      BY <2>2, PayloadType DEF Zero, PatchBytes
    <3>3. PatchedWell(Patched(patch.before, Payload(patch.opt), patch.opt),
                      patch.before, Payload(patch.opt), patch.opt)
      BY <2>2, <3>1, <3>2, PatchedIsWell
    <3> QED
      BY <3>1, <3>3 DEF PatchedFile
  <2>4. ASSUME patch.exit = 1 \/ patch.opt.dry \/ patch.pc \in {"read", "open", "dry"}
        PROVE  PatchUnchanged(patch)
    BY <2>1, <2>2, <2>4 DEF PatchPhases
  <2> QED
    BY <1>1, <2>3, <2>4
<1> QED
  BY <1>2, <1>3

\* A patch that is written is at its offset and leaves every other byte in its order, and a
\* call that fails, a dry run or one killed in time leaves the file alone: for files,
\* patches and offsets of any length, and whenever another program adds to the file.
THEOREM BpatchExact == Spec => []PatchIsExact
<1>1. Init => PatchInv
  BY PatchInitInv
<1>2. PatchInv /\ [Next]_vars => PatchInv'
  <2> SUFFICES ASSUME PatchInv, [Next]_vars
               PROVE  PatchInv'
    OBVIOUS
  <2>1. CASE RunBpatch
    <3>1. tool = "bpatch" /\ tool' = tool /\ PatchStep
      BY <2>1 DEF RunBpatch, Rest
    <3>2. patch' \in PatchStates /\ PatchPhases(patch')
      BY <3>1, PatchStepInv DEF PatchInv
    <3> QED
      BY <3>1, <3>2 DEF PatchInv
  <2>2. CASE UNCHANGED <<tool, patch>>
    BY <2>2 DEF PatchInv
  <2> QED
    BY <2>1, <2>2 DEF Next, vars, files, Rest, RunBuniq, RunFill, RunKp, RunBhxx, RunBgrep,
                      RunFurl, RunExe, RunSplitMerge
<1> QED
  BY <1>1, <1>2, PatchInvExact, PTL DEF Spec

-----------------------------------------------------------------------------
(* Functions defined by recursion.                                         *)

\* From the first number of an interval to the last.
Inductive(S, m, last) ==
  /\ m \in Nat /\ last \in Nat /\ m \in S
  /\ \A n \in m .. last - 1 : n \in S => n + 1 \in S

LEMMA RangeInduction ==
  ASSUME NEW S, NEW m, NEW last, Inductive(S, m, last)
  PROVE  \A n \in m .. last : n \in S
<1> USE DEF Inductive
<1> DEFINE R == {k \in Nat : m + k <= last => m + k \in S}
<1>1. 0 \in R
  OBVIOUS
<1>2. ASSUME NEW k \in Nat, k \in R
      PROVE  k + 1 \in R
  <2>1. SUFFICES ASSUME m + (k + 1) <= last
                 PROVE  m + (k + 1) \in S
    OBVIOUS
  <2>2. PICK n : n = m + k
    OBVIOUS
  <2>3. n \in m .. last - 1 /\ n \in S /\ m + (k + 1) = n + 1
    BY <1>2, <2>1, <2>2
  <2> QED
    BY <2>3
<1> HIDE DEF R
<1>3. \A k \in Nat : k \in R
  BY <1>1, <1>2, NatSetInduction
<1>4. ASSUME NEW n \in m .. last
      PROVE  n \in S
  <2>1. PICK k : k = n - m
    OBVIOUS
  <2>2. k \in Nat /\ m + k = n
    BY <2>1
  <2>3. k \in R
    BY <2>2, <1>3
  <2> QED
    BY <2>2, <2>3 DEF R
<1> QED
  BY <1>4

\* The values of f follow from base by step.
Steps(T, base, step, m, last) ==
  /\ m \in Nat /\ last \in Nat /\ m <= last
  /\ base \in T
  /\ \A n \in m .. last : \A a \in T : step[<<n, a>>] \in T

Follows(f, T, base, step, m, last) ==
  /\ f \in [m .. last -> T]
  /\ f[m] = base
  /\ \A n \in m .. last - 1 : f[n + 1] = step[<<n, f[n]>>]

\* Such a function exists,
LEMMA Recursion ==
  ASSUME NEW T, NEW base, NEW step, NEW m, NEW last, Steps(T, base, step, m, last)
  PROVE  \E f : Follows(f, T, base, step, m, last)
<1> USE DEF Steps
<1> DEFINE Good(k) == \E f : Follows(f, T, base, step, m, k)
           S == {k \in Nat : k <= last => Good(k)}
<1>1. m \in S
  <2> DEFINE f == [n \in m .. m |-> base]
  <2>1. Follows(f, T, base, step, m, m)
    BY DEF Follows
  <2> QED
    BY <2>1
<1>2. ASSUME NEW k \in m .. last - 1, k \in S
      PROVE  k + 1 \in S
  <2>1. PICK f : Follows(f, T, base, step, m, k)
    BY <1>2
  <2>2. f \in [m .. k -> T] /\ f[m] = base
    BY <2>1 DEF Follows
  <2>3. PICK next : next = step[<<k, f[k]>>]
    OBVIOUS
  <2>4. next \in T
    <3>1. f[k] \in T /\ k \in m .. last
      BY <2>2
    <3> QED
      BY <2>3, <3>1
  <2> DEFINE h == [n \in m .. k + 1 |-> IF n = k + 1 THEN next ELSE f[n]]
  <2>5. h \in [m .. k + 1 -> T]
    BY <2>2, <2>4
  <2>6. h[m] = base
    BY <2>2
  <2>7. ASSUME NEW n \in m .. (k + 1) - 1
        PROVE  h[n + 1] = step[<<n, h[n]>>]
    <3>1. h[n] = f[n]
      OBVIOUS
    <3>2. CASE n = k
      <4>1. h[k + 1] = next
        OBVIOUS
      <4> QED
        BY <3>1, <3>2, <4>1, <2>3, Zenon
    <3>3. CASE n # k
      <4>1. n \in m .. k - 1 /\ n + 1 \in m .. k + 1 /\ n + 1 # k + 1
        BY <3>3
      <4>2. f[n + 1] = step[<<n, f[n]>>]
        BY <2>1, <4>1 DEF Follows
      <4> QED
        BY <3>1, <4>1, <4>2, Zenon
    <3> QED
      BY <3>2, <3>3
  <2> HIDE DEF h
  <2>8. Follows(h, T, base, step, m, k + 1)
    BY <2>5, <2>6, <2>7 DEF Follows
  <2> QED
    BY <2>8
<1> HIDE DEF S
<1>3. Inductive(S, m, last)
  BY <1>1, <1>2 DEF Inductive
<1>4. last \in S
  BY <1>3, RangeInduction
<1> QED
  BY <1>4 DEF S

\* and is the only one.
Agree(f, g, m, last) ==
  /\ m \in Nat /\ last \in Nat
  /\ f[m] = g[m]
  /\ \A n \in m .. last - 1 : f[n] = g[n] => f[n + 1] = g[n + 1]

LEMMA SameRecursion ==
  ASSUME NEW f, NEW g, NEW m, NEW last, Agree(f, g, m, last)
  PROVE  \A n \in m .. last : f[n] = g[n]
<1> DEFINE S == {n \in Nat : f[n] = g[n]}
<1>1. m \in Nat /\ last \in Nat /\ m \in S
  BY DEF Agree
<1>2. \A n \in m .. last - 1 : n \in S => n + 1 \in S
  BY <1>1 DEF Agree
<1> HIDE DEF S
<1>3. Inductive(S, m, last)
  BY <1>1, <1>2 DEF Inductive
<1>4. \A n \in m .. last : n \in S
  BY <1>3, RangeInduction
<1> QED
  BY <1>4 DEF S

-----------------------------------------------------------------------------
(* Sequences put end to end.                                               *)

LEMMA AppendFacts ==
  ASSUME NEW B, NEW s, NEW x, s \in Seq(B), x \in B
  PROVE  /\ Append(s, x) \in Seq(B) /\ Append(s, x) # <<>>
         /\ Len(s) \in Nat /\ Len(Append(s, x)) = Len(s) + 1
         /\ \A i \in 1 .. Len(s) : Append(s, x)[i] = s[i]
         /\ Append(s, x)[Len(s) + 1] = x
  OBVIOUS

LEMMA SeqFacts ==
  ASSUME NEW B, NEW s, s \in Seq(B)
  PROVE  /\ Len(s) \in Nat /\ DOMAIN s = 1 .. Len(s)
         /\ \A i \in 1 .. Len(s) : s[i] \in B
         /\ s = <<>> <=> Len(s) = 0
  OBVIOUS

LEMMA ConcatFacts ==
  ASSUME NEW B, NEW s, NEW t, s \in Seq(B), t \in Seq(B)
  PROVE  /\ s \o t \in Seq(B) /\ Len(s \o t) = Len(s) + Len(t)
         /\ Len(s) \in Nat /\ Len(t) \in Nat
         /\ \A i \in 1 .. Len(s) : (s \o t)[i] = s[i]
         /\ \A i \in 1 .. Len(t) : (s \o t)[Len(s) + i] = t[i]
         /\ s \o <<>> = s /\ <<>> \o s = s
  OBVIOUS

\* The function f adds up the elements of ss.
AddsUp(f, ss, T) ==
  /\ f \in [1 .. Len(ss) -> Seq(T)]
  /\ f[1] = ss[1]
  /\ \A n \in 1 .. Len(ss) - 1 : f[n + 1] = f[n] \o ss[n + 1]

LEMMA FlattenFunction ==
  ASSUME NEW T, NEW ss, ss \in Seq(Seq(T)), ss # <<>>
  PROVE  \E f : AddsUp(f, ss, T) /\ FlattenSeq(ss) = f[Len(ss)]
<1> DEFINE last == Len(ss)
           B == Seq(T)
           Body(f, i) == IF i = 1 THEN ss[i] ELSE f[i - 1] \o ss[i]
           flatten == CHOOSE f : f = [i \in 1 .. last |-> Body(f, i)]
           step == [p \in (1 .. last) \X B |->
                      IF p[1] < last THEN p[2] \o ss[p[1] + 1] ELSE p[2]]
<1>1. last \in Nat /\ 1 <= last /\ \A i \in 1 .. last : ss[i] \in B
  BY SeqFacts
<1>2. ASSUME NEW n \in 1 .. last, NEW a \in B
      PROVE  /\ step[<<n, a>>] \in B
             /\ n < last => step[<<n, a>>] = a \o ss[n + 1]
  <2>1. \A b \in B : a \o b \in B
    BY ConcatFacts
  <2> HIDE DEF B
  <2>2. <<n, a>> \in (1 .. last) \X B
    OBVIOUS
  <2>3. step[<<n, a>>] = IF n < last THEN a \o ss[n + 1] ELSE a
    BY <2>2
  <2> HIDE DEF step
  <2>4. n < last => n + 1 \in 1 .. last
    BY <1>1
  <2> QED
    BY <1>1, <2>1, <2>3, <2>4, Zenon
<1>3. Steps(B, ss[1], step, 1, last)
  <2> HIDE DEF step, B
  <2> QED
    <3>1. 1 \in Nat /\ last \in Nat /\ 1 <= last /\ ss[1] \in B
      BY <1>1
    <3>2. \A n \in 1 .. last : \A a \in B : step[<<n, a>>] \in B
      BY <1>2
    <3> QED
      BY <3>1, <3>2, Zenon DEF Steps
<1>4. PICK g : Follows(g, B, ss[1], step, 1, last)
  <2> HIDE DEF step, B, last
  <2> QED
    BY <1>3, Recursion, Zenon
<1>5. /\ g \in [1 .. last -> B] /\ g[1] = ss[1]
      /\ \A n \in 1 .. last - 1 : g[n + 1] = g[n] \o ss[n + 1]
  <2> HIDE DEF step, B
  <2>1. g \in [1 .. last -> B] /\ g[1] = ss[1]
    BY <1>4 DEF Follows
  <2>2. ASSUME NEW n \in 1 .. last - 1
        PROVE  g[n + 1] = g[n] \o ss[n + 1]
    <3>1. g[n + 1] = step[<<n, g[n]>>]
      BY <1>4, <2>2 DEF Follows
    <3>2. n \in 1 .. last /\ n < last /\ g[n] \in B
      BY <1>1, <2>1
    <3> QED
      BY <3>1, <3>2, <1>2, Zenon
  <2> QED
    BY <2>1, <2>2, Zenon
<1>6. g = [i \in 1 .. last |-> Body(g, i)]
  <2>1. ASSUME NEW i \in 1 .. last
        PROVE  g[i] = Body(g, i)
    <3>1. CASE i = 1
      BY <3>1, <1>5
    <3>2. CASE i # 1
      <4>1. PICK n : n = i - 1
        OBVIOUS
      <4>2. n \in 1 .. last - 1 /\ i = n + 1
        BY <3>2, <4>1, <1>1
      <4>3. g[n + 1] = g[n] \o ss[n + 1]
        BY <4>2, <1>5, Zenon
      <4> QED
        BY <3>2, <4>1, <4>2, <4>3, Zenon
    <3> QED
      BY <3>1, <3>2
  <2> HIDE DEF Body, B
  <2> QED
    BY <2>1, <1>5
<1>7. flatten = [i \in 1 .. last |-> Body(flatten, i)]
  BY <1>6
<1>8. Agree(flatten, g, 1, last)
  <2> HIDE DEF flatten
  <2>1. flatten[1] = g[1]
    BY <1>1, <1>5, <1>7
  <2>2. ASSUME NEW n \in 1 .. last - 1, flatten[n] = g[n]
        PROVE  flatten[n + 1] = g[n + 1]
    <3>1. n + 1 \in 1 .. last /\ n + 1 # 1 /\ (n + 1) - 1 = n
      BY <1>1
    <3>2. flatten[n + 1] = Body(flatten, n + 1)
      BY <1>7, <3>1, Zenon
    <3> QED
      BY <1>5, <2>2, <3>1, <3>2, Zenon
  <2> QED
    BY <1>1, <2>1, <2>2 DEF Agree
<1>9. FlattenSeq(ss) = g[last]
  <2>1. FlattenSeq(ss) = flatten[last]
    BY <1>1 DEF FlattenSeq
  <2> HIDE DEF flatten
  <2>2. \A n \in 1 .. last : flatten[n] = g[n]
    BY <1>8, SameRecursion
  <2> QED
    BY <1>1, <2>1, <2>2
<1> QED
  BY <1>5, <1>9, Zenon DEF AddsUp

LEMMA FlattenEmpty == FlattenSeq(<<>>) = <<>>
  BY DEF FlattenSeq

LEMMA FlattenType ==
  ASSUME NEW T, NEW ss, ss \in Seq(Seq(T))
  PROVE  FlattenSeq(ss) \in Seq(T)
<1>1. CASE ss = <<>>
  <2>1. <<>> \in Seq(T)
    OBVIOUS
  <2> QED
    BY <1>1, <2>1, FlattenEmpty, Zenon
<1>2. CASE ss # <<>>
  <2>1. PICK f : AddsUp(f, ss, T) /\ FlattenSeq(ss) = f[Len(ss)]
    BY <1>2, FlattenFunction
  <2>2. Len(ss) \in 1 .. Len(ss)
    BY <1>2, SeqFacts
  <2> QED
    BY <2>1, <2>2, Zenon DEF AddsUp
<1> QED
  BY <1>1, <1>2

LEMMA FlattenAppend ==
  ASSUME NEW T, NEW ss, NEW x, ss \in Seq(Seq(T)), x \in Seq(T)
  PROVE  FlattenSeq(Append(ss, x)) = FlattenSeq(ss) \o x
<1>0. PICK longer : longer = Append(ss, x)
  BY Zenon
<1>1. /\ longer \in Seq(Seq(T)) /\ longer # <<>> /\ Len(longer) = Len(ss) + 1
      /\ \A i \in 1 .. Len(ss) : longer[i] = ss[i]
      /\ longer[Len(ss) + 1] = x /\ Len(ss) \in Nat
  <2>1. PICK B : B = Seq(T)
    OBVIOUS
  <2> QED
    BY <1>0, <2>1, AppendFacts
<1>2. PICK f : AddsUp(f, longer, T) /\ FlattenSeq(longer) = f[Len(longer)]
  BY <1>1, FlattenFunction, Zenon
<1>3. CASE ss = <<>>
  <2>1. FlattenSeq(longer) = x
    BY <1>1, <1>2, <1>3 DEF AddsUp
  <2> QED
    BY <1>0, <1>3, <2>1, FlattenEmpty
<1>4. CASE ss # <<>>
  <2>1. PICK g : AddsUp(g, ss, T) /\ FlattenSeq(ss) = g[Len(ss)]
    BY <1>4, FlattenFunction
  <2>2. Len(ss) > 0
    BY <1>4, SeqFacts
  <2>3. Agree(f, g, 1, Len(ss))
    <3>1. f[1] = g[1]
      BY <1>1, <1>2, <2>1, <2>2 DEF AddsUp
    <3>2. ASSUME NEW n \in 1 .. Len(ss) - 1, f[n] = g[n]
          PROVE  f[n + 1] = g[n + 1]
      <4>1. n \in 1 .. Len(longer) - 1 /\ n + 1 \in 1 .. Len(ss)
        BY <1>1
      <4>2. f[n + 1] = f[n] \o longer[n + 1] /\ g[n + 1] = g[n] \o ss[n + 1]
        BY <1>2, <2>1, <4>1, Zenon DEF AddsUp
      <4> QED
        BY <1>1, <3>2, <4>1, <4>2, Zenon
    <3> QED
      BY <1>1, <3>1, <3>2 DEF Agree
  <2>4. f[Len(ss)] = g[Len(ss)]
    <3>1. \A n \in 1 .. Len(ss) : f[n] = g[n]
      BY <2>3, SameRecursion
    <3> QED
      BY <1>1, <2>2, <3>1
  <2>5. f[Len(ss) + 1] = f[Len(ss)] \o longer[Len(ss) + 1]
    <3>1. PICK n : n = Len(ss)
      OBVIOUS
    <3>2. n \in 1 .. Len(longer) - 1
      BY <1>1, <2>2, <3>1
    <3> QED
      BY <1>2, <3>1, <3>2, Zenon DEF AddsUp
  <2> QED
    BY <1>0, <1>1, <1>2, <2>1, <2>4, <2>5
<1> QED
  BY <1>3, <1>4

\* Counting: a function that takes each of n numbers to another element.
OneToOne(f, n, A) ==
  /\ n \in Nat
  /\ \A i, j \in 1 .. n : f[i] = f[j] => i = j
  /\ A = {f[i] : i \in 1 .. n}

LEMMA CountOneToOne ==
  ASSUME NEW f, NEW n, NEW A, OneToOne(f, n, A)
  PROVE  IsFiniteSet(A) /\ Cardinality(A) = n
<1>1. /\ n \in Nat
      /\ \A i, j \in 1 .. n : f[i] = f[j] => i = j
      /\ A = {f[i] : i \in 1 .. n}
  BY DEF OneToOne
<1>2. PICK g : g = [i \in 1 .. n |-> f[i]]
  BY Zenon
<1>3. g \in Bijection(1 .. n, A)
  BY <1>1, <1>2 DEF Bijection, Injection, Surjection, IsInjective
<1>4. ExistsBijection(1 .. n, A)
  BY <1>3 DEF ExistsBijection
<1> QED
  BY <1>1, <1>4, FS_CountingElements, FS_NatBijection

LEMMA DivMod ==
  ASSUME NEW len, NEW n, len \in Nat, n \in Nat \ {0}
  PROVE  /\ len \div n \in Nat /\ len % n \in Nat /\ len % n < n
         /\ len = n * (len \div n) + (len % n)
<1>1. len \in Int /\ n \in Int /\ n > 0
  OBVIOUS
<1>2. len = n * (len \div n) + (len % n)
  BY <1>1
<1>3. len \div n \in Nat /\ len % n \in Nat /\ len % n < n
  OBVIOUS
<1> QED
  BY <1>2, <1>3

-----------------------------------------------------------------------------
(* fill: which expansions are printed.                                     *)

\* A sequence of elements of T that has the elements of A, each once.
Elements(q, T, A) == q \in Seq(T) /\ IsInjective(q) /\ ToSet(q) = A

LEMMA ElementsAppend ==
  ASSUME NEW q, NEW T, NEW A, NEW x, Elements(q, T, A), x \in T
  PROVE  /\ Contains(q, x) <=> x \in A
         /\ x \notin A => Elements(Append(q, x), T, A \cup {x})
<1>1. /\ q \in Seq(T) /\ Len(q) \in Nat /\ DOMAIN q = 1 .. Len(q)
      /\ \A i, j \in 1 .. Len(q) : q[i] = q[j] => i = j
      /\ A = {q[i] : i \in 1 .. Len(q)}
  <2>1. q \in Seq(T)
    BY DEF Elements
  <2>2. Len(q) \in Nat /\ DOMAIN q = 1 .. Len(q)
    BY <2>1, SeqFacts
  <2> QED
    BY <2>1, <2>2 DEF Elements, IsInjective, ToSet
<1>2. Contains(q, x) <=> x \in A
  BY <1>1 DEF Contains
<1>3. ASSUME x \notin A
      PROVE  Elements(Append(q, x), T, A \cup {x})
  <2>1. PICK r : r = Append(q, x)
    BY Zenon
  <2>2. /\ r \in Seq(T) /\ Len(r) = Len(q) + 1 /\ DOMAIN r = 1 .. Len(q) + 1
        /\ \A i \in 1 .. Len(q) : r[i] = q[i]
        /\ r[Len(q) + 1] = x
    <3>1. /\ r \in Seq(T) /\ Len(r) = Len(q) + 1
          /\ \A i \in 1 .. Len(q) : r[i] = q[i]
          /\ r[Len(q) + 1] = x
      BY <1>1, <2>1, AppendFacts
    <3> QED
      BY <3>1, SeqFacts
  <2>3. \A i \in 1 .. Len(q) + 1 : i \in 1 .. Len(q) \/ i = Len(q) + 1
    BY <1>1
  <2>4. \A i \in 1 .. Len(q) : r[i] \in A
    BY <1>1, <2>2
  <2>5. \A i, j \in 1 .. Len(q) + 1 : r[i] = r[j] => i = j
    BY <1>1, <1>3, <2>2, <2>3, <2>4
  <2>6. {r[i] : i \in 1 .. Len(q) + 1} = A \cup {x}
    <3>1. \A i \in 1 .. Len(q) : i \in 1 .. Len(q) + 1
      BY <1>1
    <3>2. Len(q) + 1 \in 1 .. Len(q) + 1
      BY <1>1
    <3>3. A \cup {x} \subseteq {r[i] : i \in 1 .. Len(q) + 1}
      BY <1>1, <2>2, <3>1, <3>2
    <3>4. {r[i] : i \in 1 .. Len(q) + 1} \subseteq A \cup {x}
      BY <2>2, <2>3, <2>4
    <3> QED
      BY <3>3, <3>4
  <2> QED
    BY <2>1, <2>2, <2>5, <2>6 DEF Elements, IsInjective, ToSet
<1> QED
  BY <1>2, <1>3

\* What Distinct() collects, one element after the other.
DistinctStep(q, s, S, i) ==
  IF s[i] \in S /\ ~Contains(q, s[i]) THEN Append(q, s[i]) ELSE q

LEMMA DistinctFunction ==
  ASSUME NEW T, NEW s, NEW S, s \in Seq(T)
  PROVE  \E f : /\ Distinct(s, S) = f[Len(s)]
                /\ f[0] = <<>>
                /\ \A n \in 0 .. Len(s) - 1 : f[n + 1] = DistinctStep(f[n], s, S, n + 1)
<1> DEFINE last == Len(s)
           B == Seq(T)
           Body(f, i) == IF i = 0 THEN <<>> ELSE DistinctStep(f[i - 1], s, S, i)
           seen == CHOOSE f : f = [i \in 0 .. last |-> Body(f, i)]
           step == [p \in (0 .. last) \X B |->
                      IF p[1] < last THEN DistinctStep(p[2], s, S, p[1] + 1) ELSE p[2]]
<1>1. last \in Nat /\ \A i \in 1 .. last : s[i] \in T
  BY SeqFacts
<1>2. ASSUME NEW n \in 0 .. last, NEW a \in B
      PROVE  /\ step[<<n, a>>] \in B
             /\ n < last => step[<<n, a>>] = DistinctStep(a, s, S, n + 1)
  <2>1. <<n, a>> \in (0 .. last) \X B
    OBVIOUS
  <2>2. step[<<n, a>>] = IF n < last THEN DistinctStep(a, s, S, n + 1) ELSE a
    BY <2>1
  <2>3. n < last => s[n + 1] \in T
    BY <1>1
  <2>4. n < last => DistinctStep(a, s, S, n + 1) \in B
    BY <2>3, AppendFacts DEF DistinctStep
  <2> HIDE DEF step
  <2> QED
    BY <2>2, <2>4
<1>3. Steps(B, <<>>, step, 0, last)
  <2>1. <<>> \in B
    OBVIOUS
  <2> HIDE DEF step, B
  <2>2. 0 \in Nat /\ last \in Nat /\ 0 <= last
    BY <1>1
  <2>3. \A n \in 0 .. last : \A a \in B : step[<<n, a>>] \in B
    BY <1>2
  <2> QED
    BY <2>1, <2>2, <2>3, Zenon DEF Steps
<1>4. PICK g : Follows(g, B, <<>>, step, 0, last)
  <2> HIDE DEF step, B, last
  <2> QED
    BY <1>3, Recursion, Zenon
<1>5. /\ g \in [0 .. last -> B] /\ g[0] = <<>>
      /\ \A n \in 0 .. last - 1 : g[n + 1] = DistinctStep(g[n], s, S, n + 1)
  <2> HIDE DEF step, B
  <2>1. g \in [0 .. last -> B] /\ g[0] = <<>>
    BY <1>4 DEF Follows
  <2>2. ASSUME NEW n \in 0 .. last - 1
        PROVE  g[n + 1] = DistinctStep(g[n], s, S, n + 1)
    <3>1. g[n + 1] = step[<<n, g[n]>>]
      BY <1>4, <2>2 DEF Follows
    <3>2. n \in 0 .. last /\ n < last /\ g[n] \in B
      BY <1>1, <2>1
    <3> QED
      BY <3>1, <3>2, <1>2
  <2> QED
    BY <2>1, <2>2
<1>6. g = [i \in 0 .. last |-> Body(g, i)]
  <2>1. ASSUME NEW i \in 0 .. last
        PROVE  g[i] = Body(g, i)
    <3>1. CASE i = 0
      BY <3>1, <1>5
    <3>2. CASE i # 0
      <4>1. PICK n : n = i - 1
        OBVIOUS
      <4>2. n \in 0 .. last - 1 /\ i = n + 1
        BY <3>2, <4>1, <1>1
      <4>3. g[n + 1] = DistinctStep(g[n], s, S, n + 1)
        BY <4>2, <1>5
      <4> QED
        BY <3>2, <4>1, <4>2, <4>3
    <3> QED
      BY <3>1, <3>2
  <2> HIDE DEF Body, B
  <2> QED
    BY <2>1, <1>5
<1>7. seen = [i \in 0 .. last |-> Body(seen, i)]
  BY <1>6
<1>8. Distinct(s, S) = seen[last]
  BY DEF Distinct, DistinctStep
<1>9. seen[0] = <<>> /\ \A n \in 0 .. last - 1 : seen[n + 1] = DistinctStep(seen[n], s, S, n + 1)
  <2> HIDE DEF seen
  <2>1. seen[0] = <<>>
    BY <1>1, <1>7
  <2>2. ASSUME NEW n \in 0 .. last - 1
        PROVE  seen[n + 1] = DistinctStep(seen[n], s, S, n + 1)
    <3>1. n + 1 \in 0 .. last /\ n + 1 # 0 /\ (n + 1) - 1 = n
      BY <1>1
    <3>2. seen[n + 1] = Body(seen, n + 1)
      BY <1>7, <3>1
    <3> QED
      BY <3>1, <3>2
  <2> QED
    BY <2>1, <2>2, Zenon
<1> QED
  BY <1>8, <1>9, Zenon

LEMMA DistinctFacts ==
  ASSUME NEW T, NEW s, NEW S, s \in Seq(T)
  PROVE  Elements(Distinct(s, S), T, {x \in S : \E i \in 1 .. Len(s) : s[i] = x})
<1> DEFINE last == Len(s)
           At(n) == {x \in S : \E i \in 1 .. n : s[i] = x}
<1>1. PICK f : /\ Distinct(s, S) = f[last]
               /\ f[0] = <<>>
               /\ \A n \in 0 .. last - 1 : f[n + 1] = DistinctStep(f[n], s, S, n + 1)
  BY DistinctFunction
<1>2. last \in Nat /\ \A i \in 1 .. last : s[i] \in T
  BY SeqFacts
<1> DEFINE G == {n \in Nat : Elements(f[n], T, At(n))}
<1>3. 0 \in G
  <2>1. At(0) = {}
    OBVIOUS
  <2>2. Elements(<<>>, T, {})
    BY DEF Elements, IsInjective, ToSet
  <2> QED
    BY <1>1, <2>1, <2>2, Zenon
<1>4. ASSUME NEW n \in 0 .. last - 1, n \in G
      PROVE  n + 1 \in G
  <2>1. PICK x : x = s[n + 1]
    OBVIOUS
  <2>2. n \in Nat /\ n + 1 \in Nat /\ n + 1 \in 1 .. last /\ x \in T
    BY <1>2, <2>1
  <2>3. Elements(f[n], T, At(n))
    BY <1>4
  <2>4. At(n + 1) = IF x \in S THEN At(n) \cup {x} ELSE At(n)
    <3>1. \A i \in 1 .. n + 1 : i \in 1 .. n \/ i = n + 1
      BY <2>2
    <3>2. (\A i \in 1 .. n : i \in 1 .. n + 1) /\ n + 1 \in 1 .. n + 1
      BY <2>2
    <3> QED
      BY <2>1, <3>1, <3>2
  <2>5. f[n + 1] = IF x \in S /\ ~Contains(f[n], x) THEN Append(f[n], x) ELSE f[n]
    BY <1>1, <2>1 DEF DistinctStep
  <2> HIDE DEF At
  <2>6. /\ Contains(f[n], x) <=> x \in At(n)
        /\ x \notin At(n) => Elements(Append(f[n], x), T, At(n) \cup {x})
    BY <2>2, <2>3, ElementsAppend
  <2>7. Elements(f[n + 1], T, At(n + 1))
    <3>1. CASE x \in S /\ x \notin At(n)
      BY <2>4, <2>5, <2>6, <3>1, Zenon
    <3>2. CASE x \in S /\ x \in At(n)
      <4>1. At(n) \cup {x} = At(n)
        BY <3>2
      <4> QED
        BY <2>3, <2>4, <2>5, <2>6, <3>2, <4>1, Zenon
    <3>3. CASE x \notin S
      BY <2>3, <2>4, <2>5, <3>3
    <3> QED
      BY <3>1, <3>2, <3>3
  <2> QED
    BY <2>2, <2>7
<1> HIDE DEF G
<1>5. Inductive(G, 0, last)
  BY <1>2, <1>3, <1>4 DEF Inductive
<1>6. last \in G
  BY <1>2, <1>5, RangeInduction
<1> QED
  BY <1>1, <1>6 DEF G

\* The numbers of values that are multiplied.
Sizes(names, fills) ==
  /\ Len(names) \in Nat
  /\ \A n \in 1 .. Len(names) : Len(fills[names[n]]) \in Nat \ {0}

LEMMA ProductsFunction ==
  ASSUME NEW names, NEW fills, Sizes(names, fills)
  PROVE  \E f : /\ Products(names, fills) = f
                /\ f[0] = 1
                /\ \A n \in 0 .. Len(names) - 1 : f[n + 1] = f[n] * Len(fills[names[n + 1]])
<1> DEFINE last == Len(names)
           size == [n \in 1 .. last |-> Len(fills[names[n]])]
           B == Nat
           Body(f, i) == IF i = 0 THEN 1 ELSE f[i - 1] * Len(fills[names[i]])
           raw == CHOOSE f : f = [i \in 0 .. last |-> Body(f, i)]
           step == [p \in (0 .. last) \X B |->
                      IF p[1] < last THEN p[2] * size[p[1] + 1] ELSE p[2]]
<1>1. last \in Nat /\ \A i \in 1 .. last : size[i] \in Nat /\ size[i] = Len(fills[names[i]])
  BY DEF Sizes
<1> HIDE DEF size
<1>2. ASSUME NEW n \in 0 .. last, NEW a \in B
      PROVE  /\ step[<<n, a>>] \in B
             /\ n < last => step[<<n, a>>] = a * size[n + 1]
  <2>1. <<n, a>> \in (0 .. last) \X B
    OBVIOUS
  <2>2. step[<<n, a>>] = IF n < last THEN a * size[n + 1] ELSE a
    BY <2>1
  <2>3. n < last => size[n + 1] \in Nat
    BY <1>1
  <2> HIDE DEF step
  <2> QED
    BY <2>2, <2>3
<1>3. Steps(B, 1, step, 0, last)
  <2>1. 1 \in B
    OBVIOUS
  <2> HIDE DEF step, B
  <2>2. 0 \in Nat /\ last \in Nat /\ 0 <= last
    BY <1>1
  <2>3. \A n \in 0 .. last : \A a \in B : step[<<n, a>>] \in B
    BY <1>2
  <2> QED
    BY <2>1, <2>2, <2>3, Zenon DEF Steps
<1>4. PICK g : Follows(g, B, 1, step, 0, last)
  <2> HIDE DEF step, B, last
  <2> QED
    BY <1>3, Recursion, Zenon
<1>5. /\ g \in [0 .. last -> B] /\ g[0] = 1
      /\ \A n \in 0 .. last - 1 : g[n + 1] = g[n] * size[n + 1]
  <2> HIDE DEF step, B
  <2>1. g \in [0 .. last -> B] /\ g[0] = 1
    BY <1>4 DEF Follows
  <2>2. ASSUME NEW n \in 0 .. last - 1
        PROVE  g[n + 1] = g[n] * size[n + 1]
    <3>1. g[n + 1] = step[<<n, g[n]>>]
      BY <1>4, <2>2 DEF Follows
    <3>2. n \in 0 .. last /\ n < last /\ g[n] \in B
      BY <1>1, <2>1
    <3> QED
      BY <3>1, <3>2, <1>2
  <2> QED
    BY <2>1, <2>2
<1>6. g = [i \in 0 .. last |-> Body(g, i)]
  <2>1. ASSUME NEW i \in 0 .. last
        PROVE  g[i] = Body(g, i)
    <3>1. CASE i = 0
      BY <3>1, <1>5
    <3>2. CASE i # 0
      <4>1. PICK n : n = i - 1
        OBVIOUS
      <4>2. n \in 0 .. last - 1 /\ i = n + 1 /\ i \in 1 .. last
        BY <3>2, <4>1, <1>1
      <4>3. g[n + 1] = g[n] * size[n + 1]
        BY <4>2, <1>5
      <4> QED
        BY <1>1, <3>2, <4>1, <4>2, <4>3
    <3> QED
      BY <3>1, <3>2
  <2> HIDE DEF Body, B
  <2> QED
    BY <2>1, <1>5
<1>7. raw = [i \in 0 .. last |-> Body(raw, i)]
  BY <1>6, Zenon
<1>8. Products(names, fills) = raw
  BY DEF Products
<1>9. raw[0] = 1 /\ \A n \in 0 .. last - 1 : raw[n + 1] = raw[n] * Len(fills[names[n + 1]])
  <2> HIDE DEF raw
  <2>1. raw[0] = 1
    BY <1>1, <1>7
  <2>2. ASSUME NEW n \in 0 .. last - 1
        PROVE  raw[n + 1] = raw[n] * Len(fills[names[n + 1]])
    <3>1. n + 1 \in 0 .. last /\ n + 1 # 0 /\ (n + 1) - 1 = n
      BY <1>1
    <3>2. raw[n + 1] = Body(raw, n + 1)
      BY <1>7, <3>1
    <3> QED
      BY <3>1, <3>2
  <2> QED
    BY <2>1, <2>2
<1> QED
  BY <1>8, <1>9

\* A factor that is not 0 makes a product larger than the limit exactly if the other
\* one is larger than the limit divided by it.
LEMMA FactorOver ==
  ASSUME NEW raw, NEW size, NEW limit, raw \in Nat, size \in Nat \ {0}, limit \in Nat
  PROVE  /\ raw * size \in Nat /\ raw <= raw * size
         /\ raw * size > limit <=> raw > limit \div size
<1>1. PICK q, r : q = limit \div size /\ r = limit % size
  OBVIOUS
<1>2. q \in Nat /\ r \in Nat /\ r < size /\ limit = size * q + r
  BY <1>1, DivMod
<1>3. raw * size \in Nat /\ raw <= raw * size
  <2>1. PICK k : k = size - 1
    OBVIOUS
  <2>2. k \in Nat /\ size = k + 1
    BY <2>1
  <2>3. raw * size = raw * k + raw /\ raw * k >= 0 /\ raw * k \in Nat
    BY <2>2
  <2> QED
    BY <2>3
<1>4. ASSUME raw > q
      PROVE  raw * size > limit
  <2>1. PICK k : k = raw - (q + 1)
    OBVIOUS
  <2>2. k \in Nat /\ raw = (q + 1) + k
    BY <1>2, <1>4, <2>1
  <2>3. raw * size = (q + 1) * size + k * size /\ k * size >= 0
    BY <1>2, <2>2
  <2>4. (q + 1) * size = size * q + size
    BY <1>2
  <2>5. PICK a, b, c : a = raw * size /\ b = k * size /\ c = size * q
    OBVIOUS
  <2>6. a \in Nat /\ b \in Nat /\ c \in Nat
    BY <1>2, <2>2, <2>5
  <2>7. a = c + size + b /\ limit = c + r
    BY <1>2, <2>3, <2>4, <2>5, <2>6
  <2>8. a > limit
    BY <1>2, <2>6, <2>7
  <2> QED
    BY <2>5, <2>8
<1>5. ASSUME raw <= q
      PROVE  raw * size <= limit
  <2>1. PICK k : k = q - raw
    OBVIOUS
  <2>2. k \in Nat /\ q = raw + k
    BY <1>2, <1>5, <2>1
  <2>3. size * q = raw * size + k * size /\ k * size >= 0
    BY <1>2, <2>2
  <2>4. PICK a, b, c : a = raw * size /\ b = k * size /\ c = size * q
    OBVIOUS
  <2>5. a \in Nat /\ b \in Nat /\ c \in Nat
    BY <1>2, <2>2, <2>4
  <2>6. c = a + b /\ limit = c + r
    BY <1>2, <2>3, <2>4
  <2>7. a <= limit
    BY <1>2, <2>5, <2>6
  <2> QED
    BY <2>4, <2>7
<1> QED
  BY <1>1, <1>2, <1>3, <1>4, <1>5

\* What TooMany() answers is whether the whole product is over the limit.
LEMMA TooManyFacts ==
  ASSUME NEW names, NEW fills, Sizes(names, fills)
  PROVE  /\ Products(names, fills)[Len(names)] \in Nat
         /\ TooMany(names, fills) <=> Products(names, fills)[Len(names)] > MaxCombinations
<1> DEFINE last == Len(names)
<1>1. PICK f : /\ Products(names, fills) = f
               /\ f[0] = 1
               /\ \A n \in 0 .. last - 1 : f[n + 1] = f[n] * Len(fills[names[n + 1]])
  BY ProductsFunction
<1>2. PICK size : size = [n \in 1 .. last |-> Len(fills[names[n]])]
  BY Zenon
<1>3. /\ last \in Nat
      /\ \A n \in 1 .. last : size[n] \in Nat \ {0}
      /\ \A n \in 0 .. last - 1 : f[n + 1] = f[n] * size[n + 1]
      /\ MaxCombinations \in Nat \ {0}
  <2>1. last \in Nat /\ \A n \in 1 .. last : size[n] \in Nat \ {0}
    BY <1>2 DEF Sizes
  <2>2. \A n \in 0 .. last - 1 : f[n + 1] = f[n] * size[n + 1]
    <3>1. \A n \in 0 .. last - 1 : n + 1 \in 1 .. last
      BY <2>1
    <3> QED
      BY <1>1, <1>2, <3>1
  <2> QED
    BY <2>1, <2>2, FillAssumption
<1>4. TooMany(names, fills) <=> \E n \in 0 .. last - 1 : f[n] > MaxCombinations \div size[n + 1]
  <2>1. \A n \in 0 .. last - 1 : n + 1 \in 1 .. last /\ (n + 1) - 1 = n
    BY <1>3
  <2>2. \A n \in 1 .. last : n - 1 \in 0 .. last - 1 /\ (n - 1) + 1 = n
    BY <1>3
  <2>3. \A n \in 1 .. last : size[n] = Len(fills[names[n]])
    BY <1>2
  <2>4. TooMany(names, fills) <=> \E n \in 1 .. last : f[n - 1] > MaxCombinations \div size[n]
    BY <1>1, <2>3 DEF TooMany
  <2> QED
    BY <2>1, <2>2, <2>4
<1> DEFINE G == {n \in Nat : f[n] \in Nat}
<1>5. ASSUME NEW n \in 0 .. last
      PROVE  f[n] \in Nat
  <2>1. 0 \in G
    BY <1>1
  <2>2. ASSUME NEW m \in 0 .. last - 1, m \in G
        PROVE  m + 1 \in G
    <3>1. m + 1 \in 1 .. last /\ m + 1 \in Nat
      BY <1>3
    <3> QED
      BY <1>3, <2>2, <3>1
  <2> HIDE DEF G
  <2>3. Inductive(G, 0, last)
    BY <1>3, <2>1, <2>2 DEF Inductive
  <2>4. \A m \in 0 .. last : m \in G
    BY <2>3, RangeInduction
  <2> QED
    BY <2>4 DEF G
<1>6. ASSUME NEW n \in 0 .. last - 1
      PROVE  /\ f[n + 1] > MaxCombinations <=> f[n] > MaxCombinations \div size[n + 1]
             /\ f[n] <= f[n + 1]
  <2>1. PICK a, b : a = f[n] /\ b = size[n + 1]
    OBVIOUS
  <2>2. n \in 0 .. last /\ n + 1 \in 1 .. last
    BY <1>3
  <2>3. a \in Nat /\ b \in Nat \ {0} /\ f[n + 1] = a * b /\ MaxCombinations \in Nat
    BY <1>3, <1>5, <2>1, <2>2
  <2>4. a * b > MaxCombinations <=> a > MaxCombinations \div b
    BY <2>3, FactorOver
  <2>5. a <= a * b
    BY <2>3, FactorOver
  <2> QED
    BY <2>1, <2>3, <2>4, <2>5
<1>7. TooMany(names, fills) <=> \E n \in 0 .. last - 1 : f[n + 1] > MaxCombinations
  BY <1>4, <1>6, Zenon
<1>8. ASSUME NEW m \in 0 .. last - 1, f[m + 1] > MaxCombinations
      PROVE  f[last] > MaxCombinations
  <2> DEFINE R == {n \in Nat : f[n] > MaxCombinations}
  <2>1. m + 1 \in R
    BY <1>3, <1>8
  <2>2. ASSUME NEW n \in m + 1 .. last - 1, n \in R
        PROVE  n + 1 \in R
    <3>1. n \in 0 .. last - 1 /\ n \in 0 .. last /\ n + 1 \in 0 .. last
      BY <1>3
    <3> QED
      BY <1>3, <1>5, <1>6, <2>2, <3>1
  <2>3. m + 1 \in Nat /\ last \in m + 1 .. last
    BY <1>3
  <2> HIDE DEF R
  <2>4. Inductive(R, m + 1, last)
    BY <1>3, <2>1, <2>2, <2>3 DEF Inductive
  <2>5. \A n \in m + 1 .. last : n \in R
    <3>1. PICK b : b = m + 1
      OBVIOUS
    <3> QED
      BY <2>4, <3>1, RangeInduction
  <2> QED
    BY <2>3, <2>5 DEF R
<1>9. ASSUME f[last] > MaxCombinations
      PROVE  \E n \in 0 .. last - 1 : f[n + 1] > MaxCombinations
  <2>1. last # 0
    BY <1>1, <1>3, <1>9
  <2>2. last - 1 \in 0 .. last - 1 /\ (last - 1) + 1 = last
    BY <1>3, <2>1
  <2> QED
    BY <1>9, <2>2, Zenon
<1>10. f[last] \in Nat
  BY <1>3, <1>5
<1> QED
  BY <1>1, <1>7, <1>8, <1>9, <1>10

LEMMA FlattenElements ==
  ASSUME NEW T, NEW ss, ss \in Seq(Seq(T))
  PROVE  ToSet(FlattenSeq(ss)) = UNION {ToSet(ss[i]) : i \in 1 .. Len(ss)}
<1> DEFINE Upon(n) == UNION {ToSet(ss[i]) : i \in 1 .. n}
<1>1. PICK len : len = Len(ss)
  OBVIOUS
<1>2. PICK B : B = Seq(T)
  OBVIOUS
<1>3. len \in Nat /\ \A i \in 1 .. len : ss[i] \in Seq(T)
  <2>1. Len(ss) \in Nat /\ \A i \in 1 .. Len(ss) : ss[i] \in B
    BY <1>2, SeqFacts
  <2> QED
    BY <1>1, <1>2, <2>1
<1>4. CASE ss = <<>>
  <2>1. len = 0 /\ Upon(0) = {} /\ ToSet(<<>>) = {}
    BY <1>1, <1>4 DEF ToSet
  <2> QED
    BY <1>1, <1>4, <2>1, FlattenEmpty
<1>5. CASE ss # <<>>
  <2>1. PICK f : AddsUp(f, ss, T) /\ FlattenSeq(ss) = f[Len(ss)]
    BY <1>5, FlattenFunction
  <2>2. /\ \A n \in 1 .. len : f[n] \in Seq(T)
        /\ f[1] = ss[1]
        /\ \A n \in 1 .. len - 1 : f[n + 1] = f[n] \o ss[n + 1]
    BY <1>1, <2>1, Zenon DEF AddsUp
  <2>3. len \in Nat \ {0}
    <3>1. Len(ss) # 0
      BY <1>2, <1>5, SeqFacts
    <3> QED
      BY <1>1, <1>3, <3>1
  <2> DEFINE G == {n \in Nat : ToSet(f[n]) = Upon(n)}
  <2>4. 1 \in G
    <3>1. {ToSet(ss[i]) : i \in 1 .. 1} = {ToSet(ss[1])}
      OBVIOUS
    <3> QED
      BY <2>2, <3>1
  <2>5. ASSUME NEW n \in 1 .. len - 1, n \in G
        PROVE  n + 1 \in G
    <3>1. n \in 1 .. len /\ n + 1 \in 1 .. len /\ n + 1 \in Nat
      BY <1>3
    <3>2. PICK s, t : s = f[n] /\ t = ss[n + 1]
      OBVIOUS
    <3>3. s \in Seq(T) /\ t \in Seq(T) /\ f[n + 1] = s \o t
      BY <1>3, <2>2, <3>1, <3>2, Zenon
    <3>4. ToSet(s \o t) = ToSet(s) \cup ToSet(t)
      <4>1. PICK st : st = s \o t
        BY Zenon
      <4>2. PICK a, b : a = Len(s) /\ b = Len(t)
        BY Zenon
      <4>3. /\ a \in Nat /\ b \in Nat /\ Len(st) = a + b /\ st \in Seq(T)
            /\ \A i \in 1 .. a : st[i] = s[i]
            /\ \A i \in 1 .. b : st[a + i] = t[i]
        BY <3>3, <4>1, <4>2, ConcatFacts
      <4>4. DOMAIN s = 1 .. a /\ DOMAIN t = 1 .. b /\ DOMAIN st = 1 .. a + b
        BY <3>3, <4>2, <4>3, SeqFacts
      <4>5. ASSUME NEW i \in 1 .. a + b
            PROVE  st[i] \in ToSet(s) \cup ToSet(t)
        <5>1. CASE i <= a
          <6>1. i \in 1 .. a /\ st[i] = s[i]
            BY <4>3, <5>1
          <6> QED
            BY <4>4, <6>1 DEF ToSet
        <5>2. CASE i > a
          <6>1. PICK j : j = i - a
            OBVIOUS
          <6>2. j \in 1 .. b /\ i = a + j
            BY <4>3, <5>2, <6>1
          <6>3. st[i] = t[j]
            BY <4>3, <6>2
          <6> QED
            BY <4>4, <6>2, <6>3 DEF ToSet
        <5> QED
          BY <4>3, <5>1, <5>2
      <4>6. \A i \in 1 .. a : i \in 1 .. a + b /\ st[i] = s[i]
        BY <4>3
      <4>7. \A i \in 1 .. b : a + i \in 1 .. a + b /\ st[a + i] = t[i]
        BY <4>3
      <4>8. ToSet(s) \subseteq ToSet(st) /\ ToSet(t) \subseteq ToSet(st)
        BY <4>4, <4>6, <4>7 DEF ToSet
      <4>9. ToSet(st) \subseteq ToSet(s) \cup ToSet(t)
        BY <4>4, <4>5, Zenon DEF ToSet
      <4> QED
        BY <4>1, <4>8, <4>9
    <3>5. Upon(n + 1) = Upon(n) \cup ToSet(t)
      <4>1. 1 .. n + 1 = (1 .. n) \cup {n + 1}
        BY <3>1
      <4>2. {ToSet(ss[i]) : i \in 1 .. n + 1} = {ToSet(ss[i]) : i \in 1 .. n} \cup {ToSet(t)}
        BY <3>2, <4>1, Zenon
      <4> QED
        BY <4>2, Zenon
    <3>6. ToSet(f[n]) = Upon(n)
      BY <2>5
    <3> HIDE DEF Upon
    <3>7. ToSet(f[n + 1]) = Upon(n + 1)
      BY <3>2, <3>3, <3>4, <3>5, <3>6
    <3> QED
      BY <3>1, <3>7
  <2> HIDE DEF G
  <2>6. Inductive(G, 1, len)
    BY <2>3, <2>4, <2>5 DEF Inductive
  <2>7. len \in G
    <3>1. PICK first : first = 1
      OBVIOUS
    <3>2. \A n \in first .. len : n \in G
      BY <2>6, <3>1, RangeInduction
    <3> QED
      BY <2>3, <3>1, <3>2
  <2> QED
    BY <1>1, <2>1, <2>7 DEF G
<1> QED
  BY <1>4, <1>5

\* Each list with each value after it.
Extended(A, X) == {Append(c, x) : c \in A, x \in X}

\* One more loop within the loops.
SelectStep(all, values) ==
  FlattenSeq([i \in DOMAIN all |-> [v \in DOMAIN values |-> Append(all[i], values[v])]])

LEMMA SelectStepFacts ==
  ASSUME NEW V, NEW all, NEW values, all \in Seq(Seq(V)), values \in Seq(V)
  PROVE  /\ SelectStep(all, values) \in Seq(Seq(V))
         /\ ToSet(SelectStep(all, values)) = Extended(ToSet(all), ToSet(values))
<1>1. PICK B : B = Seq(V)
  OBVIOUS
<1>2. PICK m, k : m = Len(all) /\ k = Len(values)
  BY Zenon
<1>3. /\ m \in Nat /\ DOMAIN all = 1 .. m
      /\ \A i \in 1 .. m : all[i] \in B
  BY <1>1, <1>2, SeqFacts
<1>4. /\ k \in Nat /\ DOMAIN values = 1 .. k
      /\ \A v \in 1 .. k : values[v] \in V
  BY <1>2, SeqFacts
<1> DEFINE row(i) == [v \in 1 .. k |-> Append(all[i], values[v])]
           ss == [i \in 1 .. m |-> row(i)]
<1>5. SelectStep(all, values) = FlattenSeq(ss)
  BY <1>3, <1>4 DEF SelectStep
<1>6. ASSUME NEW i \in 1 .. m, NEW v \in 1 .. k
      PROVE  Append(all[i], values[v]) \in B
  <2>1. PICK c, x : c = all[i] /\ x = values[v]
    OBVIOUS
  <2>2. c \in Seq(V) /\ x \in V
    BY <1>1, <1>3, <1>4, <2>1
  <2> QED
    BY <1>1, <2>1, <2>2, AppendFacts
<1>7. ASSUME NEW i \in 1 .. m
      PROVE  row(i) \in Seq(B)
  BY <1>4, <1>6
<1>8. ss \in Seq(Seq(B)) /\ Len(ss) = m
  <2> HIDE DEF row
  <2>1. PICK R : R = Seq(B)
    OBVIOUS
  <2>2. ss \in [1 .. m -> R]
    BY <1>7, <2>1
  <2> QED
    BY <1>3, <2>1, <2>2
<1> HIDE DEF ss
<1>9. FlattenSeq(ss) \in Seq(B)
  BY <1>8, FlattenType
<1>10. ToSet(FlattenSeq(ss)) = UNION {ToSet(ss[i]) : i \in 1 .. m}
  BY <1>8, FlattenElements, Zenon
<1>11. ASSUME NEW i \in 1 .. m
       PROVE  ToSet(ss[i]) = {Append(all[i], values[v]) : v \in 1 .. k}
  BY DEF ss, ToSet
<1>12. /\ ToSet(all) = {all[i] : i \in 1 .. m}
       /\ ToSet(values) = {values[v] : v \in 1 .. k}
  BY <1>3, <1>4 DEF ToSet
<1> DEFINE U == UNION {ToSet(ss[i]) : i \in 1 .. m}
           W == {Append(c, x) : c \in ToSet(all), x \in ToSet(values)}
<1>13. U \subseteq W
  <2>1. SUFFICES ASSUME NEW y \in U
                 PROVE  y \in W
    BY SMTT(30)
  <2>2. PICK i \in 1 .. m : y \in ToSet(ss[i])
    OBVIOUS
  <2>3. PICK v \in 1 .. k : y = Append(all[i], values[v])
    BY <1>11, <2>2, Zenon
  <2>4. all[i] \in ToSet(all) /\ values[v] \in ToSet(values)
    BY <1>12
  <2>5. PICK c, x : c = all[i] /\ x = values[v]
    OBVIOUS
  <2>6. c \in ToSet(all) /\ x \in ToSet(values) /\ y = Append(c, x)
    BY <2>3, <2>4, <2>5
  <2> HIDE DEF U
  <2> QED
    BY <2>6
<1>14. W \subseteq U
  <2>1. SUFFICES ASSUME NEW y \in W
                 PROVE  y \in U
    OBVIOUS
  <2>2. PICK c \in ToSet(all), x \in ToSet(values) : y = Append(c, x)
    OBVIOUS
  <2>3. PICK i \in 1 .. m : c = all[i]
    BY <1>12
  <2>4. PICK v \in 1 .. k : x = values[v]
    BY <1>12
  <2>5. y \in {Append(all[i], values[j]) : j \in 1 .. k}
    BY <2>2, <2>3, <2>4, SMTT(30)
  <2>6. y \in ToSet(ss[i])
    BY <1>11, <2>5
  <2> QED
    BY <2>6
<1>15. ToSet(FlattenSeq(ss)) = U
  BY <1>10
<1>16. Extended(ToSet(all), ToSet(values)) = W
  BY DEF Extended
<1> HIDE DEF U, W
<1>17. U = W
  BY <1>13, <1>14, Zenon
<1> QED
  BY <1>1, <1>5, <1>9, <1>15, <1>16, <1>17

\* The lists of values of the first n names.
Lists(names, fills, V, n) ==
  {c \in Seq(V) : Len(c) = n /\ \A k \in 1 .. n : c[k] \in ToSet(fills[names[k]])}

LEMMA ListsBegin ==
  ASSUME NEW names, NEW fills, NEW V
  PROVE  Lists(names, fills, V, 0) = {<<>>}
<1>1. \A c \in Seq(V) : Len(c) = 0 <=> c = <<>>
  OBVIOUS
<1>2. <<>> \in Seq(V)
  OBVIOUS
<1>3. \A c : c \in Lists(names, fills, V, 0) <=> c \in Seq(V) /\ Len(c) = 0
  BY DEF Lists
<1> QED
  BY <1>1, <1>2, <1>3, Zenon

LEMMA ListsGrow ==
  ASSUME NEW names, NEW fills, NEW V, NEW n, n \in Nat,
         ToSet(fills[names[n + 1]]) \subseteq V
  PROVE  Lists(names, fills, V, n + 1)
           = Extended(Lists(names, fills, V, n), ToSet(fills[names[n + 1]]))
<1> DEFINE A == Lists(names, fills, V, n + 1)
           X == ToSet(fills[names[n + 1]])
           W == {Append(c, x) : c \in Lists(names, fills, V, n), x \in X}
<1>1. \A k \in 1 .. n + 1 : k \in 1 .. n \/ k = n + 1
  OBVIOUS
<1>2. W \subseteq A
  <2>1. SUFFICES ASSUME NEW y \in W
                 PROVE  y \in A
    OBVIOUS
  <2>2. PICK c \in Lists(names, fills, V, n), x \in X : y = Append(c, x)
    OBVIOUS
  <2> HIDE DEF W, A
  <2>3. c \in Seq(V) /\ Len(c) = n /\ \A k \in 1 .. n : c[k] \in ToSet(fills[names[k]])
    BY DEF Lists
  <2>4. y \in Seq(V) /\ Len(y) = n + 1 /\ y[n + 1] = x /\ \A k \in 1 .. n : y[k] = c[k]
    BY <2>2, <2>3, AppendFacts
  <2>5. \A k \in 1 .. n + 1 : y[k] \in ToSet(fills[names[k]])
    BY <1>1, <2>3, <2>4
  <2> QED
    BY <2>4, <2>5 DEF A, Lists
<1>3. A \subseteq W
  <2>1. SUFFICES ASSUME NEW d \in A
                 PROVE  d \in W
    OBVIOUS
  <2>2. d \in Seq(V) /\ Len(d) = n + 1 /\ \A k \in 1 .. n + 1 : d[k] \in ToSet(fills[names[k]])
    BY DEF Lists
  <2>3. PICK c, x : c = SubSeq(d, 1, n) /\ x = d[n + 1]
    BY Zenon
  <2>4. c \in Seq(V) /\ Len(c) = n /\ (\A k \in 1 .. n : c[k] = d[k]) /\ d = Append(c, x)
    BY <2>2, <2>3
  <2>5. \A k \in 1 .. n : k \in 1 .. n + 1
    OBVIOUS
  <2>6. c \in Lists(names, fills, V, n)
    BY <2>2, <2>4, <2>5 DEF Lists
  <2>7. x \in X
    BY <2>2, <2>3
  <2> QED
    BY <2>4, <2>6, <2>7
<1> QED
  BY <1>2, <1>3 DEF Extended

\* Lists of elements of V are what the names can stand for.
Listed(names, fills, V) ==
  /\ Len(names) \in Nat
  /\ \A n \in 1 .. Len(names) : fills[names[n]] \in Seq(V)

LEMMA SelectionsFunction ==
  ASSUME NEW names, NEW fills, NEW V, Listed(names, fills, V)
  PROVE  \E f : /\ Selections(names, fills) = f
                /\ f[0] = <<<<>>>>
                /\ \A n \in 0 .. Len(names) - 1 :
                     f[n + 1] = SelectStep(f[n], fills[names[n + 1]])
<1> DEFINE last == Len(names)
           B == Seq(Seq(V))
           Body(f, i) == IF i = 0 THEN <<<<>>>> ELSE SelectStep(f[i - 1], fills[names[i]])
           choices == CHOOSE f : f = [i \in 0 .. last |-> Body(f, i)]
           step == [p \in (0 .. last) \X B |->
                      IF p[1] < last THEN SelectStep(p[2], fills[names[p[1] + 1]]) ELSE p[2]]
<1>1. last \in Nat /\ \A i \in 1 .. last : fills[names[i]] \in Seq(V)
  BY DEF Listed
<1>2. ASSUME NEW n \in 0 .. last, NEW a \in B
      PROVE  /\ step[<<n, a>>] \in B
             /\ n < last => step[<<n, a>>] = SelectStep(a, fills[names[n + 1]])
  <2>1. <<n, a>> \in (0 .. last) \X B
    OBVIOUS
  <2>2. step[<<n, a>>] = IF n < last THEN SelectStep(a, fills[names[n + 1]]) ELSE a
    BY <2>1
  <2>3. n < last => fills[names[n + 1]] \in Seq(V)
    BY <1>1
  <2>4. n < last => SelectStep(a, fills[names[n + 1]]) \in B
    BY <2>3, SelectStepFacts
  <2> HIDE DEF step
  <2> QED
    BY <2>2, <2>4
<1>3. Steps(B, <<<<>>>>, step, 0, last)
  <2>1. <<<<>>>> \in B
    OBVIOUS
  <2> HIDE DEF step, B
  <2>2. 0 \in Nat /\ last \in Nat /\ 0 <= last
    BY <1>1
  <2>3. \A n \in 0 .. last : \A a \in B : step[<<n, a>>] \in B
    BY <1>2
  <2> QED
    BY <2>1, <2>2, <2>3, Zenon DEF Steps
<1>4. PICK g : Follows(g, B, <<<<>>>>, step, 0, last)
  <2> HIDE DEF step, B, last
  <2> QED
    BY <1>3, Recursion, Zenon
<1>5. /\ g \in [0 .. last -> B] /\ g[0] = <<<<>>>>
      /\ \A n \in 0 .. last - 1 : g[n + 1] = SelectStep(g[n], fills[names[n + 1]])
  <2> HIDE DEF step, B
  <2>1. g \in [0 .. last -> B] /\ g[0] = <<<<>>>>
    BY <1>4 DEF Follows
  <2>2. ASSUME NEW n \in 0 .. last - 1
        PROVE  g[n + 1] = SelectStep(g[n], fills[names[n + 1]])
    <3>1. g[n + 1] = step[<<n, g[n]>>]
      BY <1>4, <2>2 DEF Follows
    <3>2. n \in 0 .. last /\ n < last /\ g[n] \in B
      BY <1>1, <2>1
    <3> QED
      BY <3>1, <3>2, <1>2
  <2> QED
    BY <2>1, <2>2
<1>6. g = [i \in 0 .. last |-> Body(g, i)]
  <2>1. ASSUME NEW i \in 0 .. last
        PROVE  g[i] = Body(g, i)
    <3>1. CASE i = 0
      BY <3>1, <1>5
    <3>2. CASE i # 0
      <4>1. PICK n : n = i - 1
        OBVIOUS
      <4>2. n \in 0 .. last - 1 /\ i = n + 1
        BY <3>2, <4>1, <1>1
      <4>3. g[n + 1] = SelectStep(g[n], fills[names[n + 1]])
        BY <4>2, <1>5
      <4> QED
        BY <3>2, <4>1, <4>2, <4>3
    <3> QED
      BY <3>1, <3>2
  <2> HIDE DEF Body, B
  <2> QED
    BY <2>1, <1>5
<1>7. choices = [i \in 0 .. last |-> Body(choices, i)]
  BY <1>6, Zenon
<1>8. Selections(names, fills) = choices
  BY DEF Selections, SelectStep
<1>9. /\ choices[0] = <<<<>>>>
      /\ \A n \in 0 .. last - 1 : choices[n + 1] = SelectStep(choices[n], fills[names[n + 1]])
  <2> HIDE DEF choices
  <2>1. choices[0] = <<<<>>>>
    BY <1>1, <1>7
  <2>2. ASSUME NEW n \in 0 .. last - 1
        PROVE  choices[n + 1] = SelectStep(choices[n], fills[names[n + 1]])
    <3>1. n + 1 \in 0 .. last /\ n + 1 # 0 /\ (n + 1) - 1 = n
      BY <1>1
    <3>2. choices[n + 1] = Body(choices, n + 1)
      BY <1>7, <3>1
    <3> QED
      BY <3>1, <3>2
  <2> QED
    BY <2>1, <2>2
<1> QED
  BY <1>8, <1>9

LEMMA SelectionsFacts ==
  ASSUME NEW names, NEW fills, NEW V, Listed(names, fills, V)
  PROVE  /\ Selections(names, fills)[Len(names)] \in Seq(Seq(V))
         /\ ToSet(Selections(names, fills)[Len(names)]) = Lists(names, fills, V, Len(names))
<1> DEFINE last == Len(names)
<1>1. PICK f : /\ Selections(names, fills) = f
               /\ f[0] = <<<<>>>>
               /\ \A n \in 0 .. last - 1 : f[n + 1] = SelectStep(f[n], fills[names[n + 1]])
  BY SelectionsFunction
<1>2. last \in Nat /\ \A n \in 1 .. last : fills[names[n]] \in Seq(V)
  BY DEF Listed
<1> DEFINE G == {n \in Nat : f[n] \in Seq(Seq(V)) /\ ToSet(f[n]) = Lists(names, fills, V, n)}
<1>3. 0 \in G
  <2>1. <<<<>>>> \in Seq(Seq(V)) /\ ToSet(<<<<>>>>) = {<<>>}
    BY DEF ToSet
  <2> QED
    BY <1>1, <2>1, ListsBegin, Zenon
<1>4. ASSUME NEW n \in 0 .. last - 1, n \in G
      PROVE  n + 1 \in G
  <2>1. n \in Nat /\ n + 1 \in Nat /\ n + 1 \in 1 .. last
    BY <1>2
  <2>2. PICK all, values : all = f[n] /\ values = fills[names[n + 1]]
    OBVIOUS
  <2>3. all \in Seq(Seq(V)) /\ values \in Seq(V) /\ ToSet(all) = Lists(names, fills, V, n)
    BY <1>2, <1>4, <2>1, <2>2
  <2>4. /\ SelectStep(all, values) \in Seq(Seq(V))
        /\ ToSet(SelectStep(all, values)) = Extended(ToSet(all), ToSet(values))
    BY <2>3, SelectStepFacts
  <2>5. ToSet(values) \subseteq V
    BY <2>3, SeqFacts DEF ToSet
  <2>6. Lists(names, fills, V, n + 1)
          = Extended(Lists(names, fills, V, n), ToSet(fills[names[n + 1]]))
    <3>1. ToSet(fills[names[n + 1]]) \subseteq V
      BY <2>2, <2>5
    <3> HIDE DEF G
    <3> QED
      BY <2>1, <3>1, ListsGrow, Zenon
  <2>7. f[n + 1] = SelectStep(all, values)
    BY <1>1, <2>2
  <2>8. ToSet(f[n + 1]) = Lists(names, fills, V, n + 1)
    BY <2>2, <2>3, <2>4, <2>6, <2>7
  <2> QED
    BY <2>1, <2>4, <2>7, <2>8
<1> HIDE DEF G
<1>5. Inductive(G, 0, last)
  BY <1>2, <1>3, <1>4 DEF Inductive
<1>6. last \in G
  BY <1>2, <1>5, RangeInduction
<1> QED
  BY <1>1, <1>6 DEF G

\* The names are those that have values, each once.
Named(names, fills) ==
  /\ DOMAIN names = 1 .. Len(names)
  /\ \A i, j \in 1 .. Len(names) : names[i] = names[j] => i = j
  /\ DOMAIN fills = {names[i] : i \in 1 .. Len(names)}

\* The lists of values are the assignments of values to names.
LEMMA ListsAreAssignments ==
  ASSUME NEW names, NEW fills, NEW V, Listed(names, fills, V), Named(names, fills)
  PROVE  {ValueOf(names, c) : c \in Lists(names, fills, V, Len(names))} = Assignments(fills)
<1> DEFINE last == Len(names)
           D == DOMAIN fills
           L == Lists(names, fills, V, last)
           U == UNION {ToSet(fills[n]) : n \in D}
           at(name) == CHOOSE n \in 1 .. last : names[n] = name
<1>1. /\ last \in Nat
      /\ \A n \in 1 .. last : fills[names[n]] \in Seq(V)
  BY DEF Listed
<1>2. /\ DOMAIN names = 1 .. last
      /\ \A i, j \in 1 .. last : names[i] = names[j] => i = j
      /\ D = {names[i] : i \in 1 .. last}
  BY DEF Named
<1>3. ASSUME NEW k \in 1 .. last
      PROVE  at(names[k]) = k
  BY <1>2
<1>4. ASSUME NEW name \in D
      PROVE  at(name) \in 1 .. last /\ names[at(name)] = name
  BY <1>2
<1>5. ToSet(names) = D
  BY <1>2 DEF ToSet
<1>6. ASSUME NEW c
      PROVE  ValueOf(names, c) = [name \in D |-> c[at(name)]]
  BY <1>2, <1>5 DEF ValueOf
<1> HIDE DEF at, D, U, L
<1>7. ASSUME NEW c \in L
      PROVE  ValueOf(names, c) \in Assignments(fills)
  <2>1. \A k \in 1 .. last : c[k] \in ToSet(fills[names[k]])
    BY DEF Lists, L
  <2>2. PICK f : f = ValueOf(names, c)
    OBVIOUS
  <2>3. f = [name \in D |-> c[at(name)]]
    BY <1>6, <2>2
  <2>4. ASSUME NEW name \in D
        PROVE  f[name] \in ToSet(fills[name]) /\ f[name] \in U
    <3>1. c[at(name)] \in ToSet(fills[name])
      BY <1>4, <2>1
    <3>2. ToSet(fills[name]) \subseteq U
      BY DEF U
    <3> QED
      BY <2>3, <3>1, <3>2
  <2>5. f \in [D -> U]
    BY <2>3, <2>4
  <2> QED
    BY <2>2, <2>4, <2>5 DEF Assignments, D, U
<1>8. ASSUME NEW f \in Assignments(fills)
      PROVE  \E c \in L : f = ValueOf(names, c)
  <2>1. f \in [D -> U] /\ \A n \in D : f[n] \in ToSet(fills[n])
    BY DEF Assignments, D, U
  <2>2. PICK c : c = [k \in 1 .. last |-> f[names[k]]]
    BY Zenon
  <2>3. ASSUME NEW k \in 1 .. last
        PROVE  c[k] \in ToSet(fills[names[k]]) /\ c[k] \in V
    <3>1. names[k] \in D
      BY <1>2
    <3>2. c[k] \in ToSet(fills[names[k]])
      BY <2>1, <2>2, <3>1
    <3>3. ToSet(fills[names[k]]) \subseteq V
      <4>1. fills[names[k]] \in Seq(V)
        BY <1>1
      <4> QED
        BY <4>1, SeqFacts DEF ToSet
    <3> QED
      BY <3>2, <3>3
  <2>4. c \in Seq(V) /\ Len(c) = last
    BY <1>1, <2>2, <2>3
  <2>5. c \in L
    BY <2>3, <2>4 DEF Lists, L
  <2>6. ValueOf(names, c) = [name \in D |-> c[at(name)]]
    BY <1>6
  <2>7. ASSUME NEW name \in D
        PROVE  c[at(name)] = f[name]
    BY <1>4, <2>2
  <2>8. f = [name \in D |-> f[name]]
    BY <2>1
  <2>9. f = ValueOf(names, c)
    BY <2>6, <2>7, <2>8
  <2> QED
    BY <2>5, <2>9
<1>9. {ValueOf(names, c) : c \in L} = Assignments(fills)
  BY <1>7, <1>8
<1> QED
  BY <1>9 DEF L

\* The expansions that are generated, each once.
LEMMA GenerateFacts ==
  ASSUME NEW opt, NEW names, NEW V, names = TemplateNames(opt.template),
         Listed(names, opt.fills, V), Named(names, opt.fills)
  PROVE  Elements(Generate(opt.template, names, opt.fills), Expansions(opt), Expansions(opt))
<1> DEFINE fills == opt.fills
           all == Selections(names, fills)[Len(names)]
           L == Lists(names, fills, V, Len(names))
           expand(c) == Expand(opt.template, ValueOf(names, c))
           expansions == [i \in DOMAIN all |-> expand(all[i])]
<1>1. all \in Seq(Seq(V)) /\ ToSet(all) = L
  BY SelectionsFacts
<1>2. PICK m : m = Len(all)
  BY Zenon
<1>3. m \in Nat /\ DOMAIN all = 1 .. m
  <2>1. PICK B : B = Seq(V)
    OBVIOUS
  <2> QED
    BY <1>1, <1>2, <2>1, SeqFacts
<1>4. Generate(opt.template, names, fills) = Distinct(expansions, ToSet(expansions))
  BY DEF Generate
<1> DEFINE X == {expand(c) : c \in L}
<1>5. X = Expansions(opt)
  <2> HIDE DEF L
  <2>1. {ValueOf(names, c) : c \in L} = Assignments(fills)
    BY ListsAreAssignments DEF L
  <2>2. X \subseteq Expansions(opt)
    BY <2>1 DEF Expansions
  <2>3. ASSUME NEW x \in Expansions(opt)
        PROVE  x \in X
    <3>1. PICK f \in Assignments(fills) : x = Expand(opt.template, f)
      BY DEF Expansions
    <3>2. PICK c \in L : f = ValueOf(names, c)
      BY <2>1
    <3> QED
      BY <3>1, <3>2
  <2> QED
    BY <2>2, <2>3
<1>6. ToSet(expansions) = X
  <2>1. L = {all[i] : i \in 1 .. m}
    BY <1>1, <1>3, Zenon DEF ToSet
  <2> HIDE DEF L, all, expand
  <2>2. ToSet(expansions) = {expand(all[i]) : i \in 1 .. m}
    BY <1>3 DEF ToSet
  <2>3. {expand(all[i]) : i \in 1 .. m} = {expand(c) : c \in {all[i] : i \in 1 .. m}}
    OBVIOUS
  <2> QED
    BY <2>1, <2>2, <2>3
<1>7. PICK e : e = expansions
  BY Zenon
<1>8. e \in Seq(X) /\ Len(e) = m /\ DOMAIN e = 1 .. m /\ ToSet(e) = X
  <2>1. ToSet(e) = X /\ DOMAIN e = 1 .. m
    BY <1>3, <1>6, <1>7
  <2>2. e = [i \in 1 .. m |-> e[i]]
    BY <1>3, <1>7
  <2> HIDE DEF X
  <2>3. \A i \in 1 .. m : e[i] \in X
    BY <2>1 DEF ToSet
  <2> QED
    BY <1>3, <2>1, <2>2, <2>3
<1> HIDE DEF X
<1>9. Elements(Distinct(e, X), X, {x \in X : \E i \in 1 .. Len(e) : e[i] = x})
  BY <1>8, DistinctFacts
<1>10. {x \in X : \E i \in 1 .. Len(e) : e[i] = x} = X
  BY <1>8 DEF ToSet
<1> QED
  BY <1>4, <1>5, <1>6, <1>7, <1>9, <1>10, Zenon

\* What the options say of the names and their values.
LEMMA FillOptionFacts ==
  ASSUME NEW opt, opt \in FillOptions
  PROVE  /\ opt.count \in Nat
         /\ FillsMatch(opt) =>
              /\ Sizes(TemplateNames(opt.template), opt.fills)
              /\ Named(TemplateNames(opt.template), opt.fills)
              /\ Listed(TemplateNames(opt.template), opt.fills,
                        UNION {ToSet(values) : values \in FillValues})
<1> DEFINE V == UNION {ToSet(values) : values \in FillValues}
           names == TemplateNames(opt.template)
<1>1. /\ opt.template \in Templates /\ opt.count \in FillCounts
      /\ opt.fills \in UNION {[N -> FillValues] : N \in SUBSET Names \ {{}}}
  BY DEF FillOptions
<1>2. PICK N : opt.fills \in [N -> FillValues]
  BY <1>1
<1>3. opt.template \in Seq(ToSet(opt.template))
  BY <1>1, FillAssumption
<1>4. Elements(names, ToSet(opt.template),
               {x \in Names : \E i \in 1 .. Len(opt.template) : opt.template[i] = x})
  BY <1>3, DistinctFacts DEF TemplateNames
<1> HIDE DEF names
<1>5. /\ names \in Seq(ToSet(opt.template))
      /\ IsInjective(names)
  BY <1>4 DEF Elements
<1>6. Len(names) \in Nat /\ DOMAIN names = 1 .. Len(names)
  BY <1>5, SeqFacts
<1>7. ASSUME FillsMatch(opt)
      PROVE  Named(names, opt.fills)
  <2>1. ToSet(names) = DOMAIN opt.fills
    BY <1>7 DEF FillsMatch, names
  <2> QED
    BY <1>5, <1>6, <2>1 DEF Named, IsInjective, ToSet
<1>8. ASSUME FillsMatch(opt), NEW n \in 1 .. Len(names)
      PROVE  Len(opt.fills[names[n]]) \in Nat \ {0} /\ opt.fills[names[n]] \in Seq(V)
  <2>1. PICK values : values = opt.fills[names[n]]
    OBVIOUS
  <2>2. values \in FillValues
    BY <1>2, <1>7, <1>8, <2>1 DEF Named
  <2>3. values \in Seq(ToSet(values)) /\ values # <<>>
    BY <2>2, FillAssumption
  <2>4. Len(values) \in Nat \ {0}
    BY <2>3, SeqFacts
  <2>5. ToSet(values) \subseteq V
    BY <2>2
  <2> HIDE DEF V
  <2>6. values \in Seq(V)
    BY <2>3, <2>5
  <2> QED
    BY <2>1, <2>4, <2>6
<1> QED
  BY <1>1, <1>6, <1>7, <1>8, FillAssumption, Zenon DEF Sizes, Listed, names

FillResults == UNION {Expansions(opt) : opt \in FillOptions}

FillStates ==
  [opt : FillOptions, pc : {"check", "choose", "done"}, results : Seq(FillResults),
   exit : {-1, 0, 1, 2}]

\* What is printed is right for a call.
FillPrinted(opt, results) ==
  /\ IsInjective(results)
  /\ ToSet(results) \subseteq Expansions(opt)
  /\ Len(results) = IF opt.count = 0 THEN Cardinality(Expansions(opt)) ELSE opt.count

\* A call is refused for a reason.
FillRefused(opt) ==
  \/ ~FillsMatch(opt)
  \/ Combinations(opt) > MaxCombinations
  \/ Cardinality(Expansions(opt)) < opt.count

FillPhases(f) ==
  /\ f.pc # "done" => f.exit = -1
  /\ f.pc = "choose" =>
       /\ FillsMatch(f.opt) /\ Combinations(f.opt) <= MaxCombinations
       /\ Elements(f.results, Expansions(f.opt), Expansions(f.opt))
       /\ f.opt.count <= Len(f.results)
  /\ f.exit = 0 => FillPrinted(f.opt, f.results)
  /\ f.exit = 2 => FillRefused(f.opt)

FillInv ==
  /\ tool = "fill" => fill \in FillStates /\ FillPhases(fill)
  /\ tool # "fill" => fill.exit = -1 /\ fill.pc = "check"

LEMMA FillInitInv == Init => FillInv
<1> SUFFICES ASSUME Init
             PROVE  FillInv
  OBVIOUS
<1>1. CASE tool = "fill"
  <2>1. PICK opt \in FillOptions : fill = FillStart(opt)
    BY <1>1 DEF Init, FillInit
  <2>2. <<>> \in Seq(FillResults)
    OBVIOUS
  <2>3. fill \in FillStates
    BY <2>1, <2>2 DEF FillStart, FillStates
  <2>4. FillPhases(fill)
    BY <2>1 DEF FillStart, FillPhases
  <2> QED
    BY <1>1, <2>3, <2>4 DEF FillInv
<1>2. CASE tool # "fill"
  <2>1. fill = FillIdle
    BY <1>2 DEF Init
  <2> QED
    BY <1>2, <2>1 DEF FillIdle, FillStart, FillInv
<1> QED
  BY <1>1, <1>2

\* The number of elements that are listed once each.
LEMMA ElementsCount ==
  ASSUME NEW q, NEW T, NEW A, Elements(q, T, A)
  PROVE  IsFiniteSet(A) /\ Cardinality(A) = Len(q) /\ Len(q) \in Nat
<1>1. q \in Seq(T) /\ IsInjective(q) /\ ToSet(q) = A
  BY DEF Elements
<1>2. Len(q) \in Nat /\ DOMAIN q = 1 .. Len(q)
  BY <1>1, SeqFacts
<1>3. OneToOne(q, Len(q), A)
  BY <1>1, <1>2 DEF OneToOne, IsInjective, ToSet
<1> QED
  BY <1>2, <1>3, CountOneToOne

LEMMA FirstElements ==
  ASSUME NEW T, NEW s, NEW n, s \in Seq(T), n \in 0 .. Len(s)
  PROVE  /\ SubSeq(s, 1, n) \in Seq(T) /\ Len(SubSeq(s, 1, n)) = n
         /\ DOMAIN SubSeq(s, 1, n) = 1 .. n
         /\ \A i \in 1 .. n : SubSeq(s, 1, n)[i] = s[i]
OBVIOUS

\* The elements of q in some order.
Ordered(s, q, order) ==
  /\ order \in [DOMAIN q -> DOMAIN q] /\ IsInjective(order)
  /\ s = [i \in DOMAIN q |-> q[order[i]]]

\* The first results of any order of them.
LEMMA OrderedFacts ==
  ASSUME NEW q, NEW T, NEW A, NEW order, NEW s, NEW n, Elements(q, T, A),
         Ordered(s, q, order), n \in 0 .. Len(q)
  PROVE  /\ SubSeq(s, 1, n) \in Seq(T)
         /\ Len(SubSeq(s, 1, n)) = n
         /\ IsInjective(SubSeq(s, 1, n))
         /\ ToSet(SubSeq(s, 1, n)) \subseteq A
         /\ Len(s) = Len(q)
<1>1. q \in Seq(T) /\ IsInjective(q) /\ ToSet(q) = A
  BY DEF Elements
<1>2. PICK len : len = Len(q)
  OBVIOUS
<1>3. len \in Nat /\ DOMAIN q = 1 .. len /\ \A i \in 1 .. len : q[i] \in T
  BY <1>1, <1>2, SeqFacts
<1>4. \A i \in 1 .. len : order[i] \in 1 .. len
  BY <1>3 DEF Ordered
<1>5. \A i, j \in 1 .. len : order[i] = order[j] => i = j
  BY <1>3, Zenon DEF Ordered, IsInjective
<1>6. \A i, j \in 1 .. len : q[i] = q[j] => i = j
  BY <1>1, <1>3 DEF IsInjective
<1>7. \A i \in 1 .. len : q[i] \in A
  BY <1>1, <1>3 DEF ToSet
<1>8. \A i \in 1 .. len : s[i] = q[order[i]]
  BY <1>3 DEF Ordered
<1>9. s \in Seq(T) /\ Len(s) = len
  <2>1. s = [i \in 1 .. len |-> q[order[i]]]
    BY <1>3 DEF Ordered
  <2>2. \A i \in 1 .. len : q[order[i]] \in T
    BY <1>3, <1>4
  <2>3. s \in [1 .. len -> T]
    BY <2>1, <2>2
  <2> QED
    BY <1>3, <2>3
<1>10. PICK r : r = SubSeq(s, 1, n)
  BY Zenon
<1>11. n \in Nat /\ n <= len
  BY <1>2, <1>3
<1>12. r \in Seq(T) /\ Len(r) = n /\ DOMAIN r = 1 .. n /\ \A i \in 1 .. n : r[i] = s[i]
  <2>1. n \in 0 .. Len(s)
    BY <1>9, <1>11
  <2> QED
    BY <1>9, <1>10, <2>1, FirstElements
<1>13. \A i \in 1 .. n : i \in 1 .. len
  BY <1>3, <1>11
<1>14. IsInjective(r)
  <2>1. ASSUME NEW i \in 1 .. n, NEW j \in 1 .. n, r[i] = r[j]
        PROVE  i = j
    <3>1. i \in 1 .. len /\ j \in 1 .. len
      BY <1>13
    <3>2. q[order[i]] = q[order[j]]
      BY <1>8, <1>12, <2>1, <3>1
    <3>3. order[i] = order[j]
      BY <1>4, <1>6, <3>1, <3>2
    <3> QED
      BY <1>5, <3>1, <3>3
  <2> QED
    BY <1>12, <2>1 DEF IsInjective
<1>15. ToSet(r) \subseteq A
  <2>1. ASSUME NEW i \in 1 .. n
        PROVE  r[i] \in A
    <3>1. i \in 1 .. len /\ r[i] = s[i]
      BY <1>12, <1>13
    <3>2. s[i] = q[order[i]] /\ order[i] \in 1 .. len
      BY <1>4, <1>8, <3>1
    <3> QED
      BY <1>7, <3>1, <3>2
  <2> QED
    BY <1>12, <2>1 DEF ToSet
<1> QED
  BY <1>2, <1>9, <1>10, <1>12, <1>14, <1>15

LEMMA FillStepInv ==
  ASSUME fill \in FillStates, FillPhases(fill), FillStep
  PROVE  fill' \in FillStates /\ FillPhases(fill')
<1> DEFINE opt == fill.opt
           names == TemplateNames(opt.template)
           V == UNION {ToSet(values) : values \in FillValues}
<1>1. /\ opt \in FillOptions /\ fill.pc \in {"check", "choose", "done"}
      /\ fill.results \in Seq(FillResults) /\ fill.exit \in {-1, 0, 1, 2}
  BY DEF FillStates
<1>2. /\ opt.count \in Nat
      /\ FillsMatch(opt) =>
           /\ Sizes(names, opt.fills)
           /\ Named(names, opt.fills)
           /\ Listed(names, opt.fills, V)
  BY <1>1, FillOptionFacts, Zenon
<1>3. Combinations(opt) = Products(names, opt.fills)[Len(names)]
  BY DEF Combinations
<1> HIDE DEF V, names
<1>4. CASE Refuse
  <2>1. fill.pc = "check" /\ fill' = [fill EXCEPT !.pc = "done", !.exit = 2]
    BY <1>4 DEF Refuse
  <2>2. /\ fill' \in FillStates /\ fill'.pc = "done" /\ fill'.exit = 2 /\ fill'.opt = opt
    BY <2>1, Zenon DEF FillStates
  <2>3. FillsMatch(opt) => TooMany(names, opt.fills)
    BY <1>4 DEF Refuse, names
  <2>4. FillRefused(opt)
    BY <1>2, <1>3, <2>3, TooManyFacts DEF FillRefused
  <2> QED
    BY <2>2, <2>4 DEF FillPhases
<1>5. CASE GenerateAll
  <2>1. PICK results : results = Generate(opt.template, names, opt.fills)
    OBVIOUS
  <2>2. /\ fill.pc = "check" /\ FillsMatch(opt) /\ ~TooMany(names, opt.fills)
        /\ fill' = IF opt.count > Len(results) THEN [fill EXCEPT !.pc = "done", !.exit = 2]
                   ELSE [fill EXCEPT !.pc = "choose", !.results = results]
    BY <1>5, <2>1 DEF GenerateAll, names
  <2>3. Elements(results, Expansions(opt), Expansions(opt))
    BY <1>2, <2>1, <2>2, GenerateFacts, Zenon DEF names
  <2>4. Cardinality(Expansions(opt)) = Len(results) /\ Len(results) \in Nat
    BY <2>3, ElementsCount
  <2>5. CASE opt.count > Len(results)
    <3>1. fill' \in FillStates /\ fill'.pc = "done" /\ fill'.exit = 2 /\ fill'.opt = opt
      BY <2>2, <2>5, Zenon DEF FillStates
    <3>2. FillRefused(opt)
      BY <1>2, <2>4, <2>5 DEF FillRefused
    <3> QED
      BY <3>1, <3>2 DEF FillPhases
  <2>6. CASE ~(opt.count > Len(results))
    <3>1. fill' = [fill EXCEPT !.pc = "choose", !.results = results]
      BY <2>2, <2>6
    <3>2. results \in Seq(FillResults)
      <4>1. Expansions(opt) \subseteq FillResults
        BY <1>1 DEF FillResults
      <4>2. results \in Seq(Expansions(opt))
        BY <2>3 DEF Elements
      <4> QED
        BY <4>1, <4>2
    <3>3. /\ fill' \in FillStates /\ fill'.pc = "choose" /\ fill'.exit = fill.exit
          /\ fill'.opt = opt /\ fill'.results = results
      BY <3>1, <3>2, Zenon DEF FillStates
    <3>4. fill.exit = -1
      BY <2>2 DEF FillPhases
    <3>5. Combinations(opt) <= MaxCombinations
      <4>1. ~(Combinations(opt) > MaxCombinations)
        BY <1>2, <1>3, <2>2, TooManyFacts
      <4>2. Combinations(opt) \in Nat
        BY <1>2, <1>3, <2>2, TooManyFacts
      <4> QED
        BY <4>1, <4>2, FillAssumption
    <3>6. opt.count <= Len(results)
      BY <1>2, <2>4, <2>6
    <3> QED
      BY <2>2, <2>3, <3>3, <3>4, <3>5, <3>6 DEF FillPhases
  <2> QED
    BY <2>5, <2>6
<1>6. CASE FillFails
  <2>1. fill' = [fill EXCEPT !.pc = "done", !.exit = 1]
    BY <1>6 DEF FillFails
  <2>2. fill' \in FillStates /\ fill'.pc = "done" /\ fill'.exit = 1
    BY <2>1, Zenon DEF FillStates
  <2> QED
    BY <2>2 DEF FillPhases
<1>7. CASE Choose
  <2>1. fill.pc = "choose"
    BY <1>7 DEF Choose
  <2> DEFINE q == fill.results
  <2>2. /\ Elements(q, Expansions(opt), Expansions(opt)) /\ opt.count <= Len(q)
    BY <2>1 DEF FillPhases
  <2>3. Cardinality(Expansions(opt)) = Len(q) /\ Len(q) \in Nat
    BY <2>2, ElementsCount
  <2>4. PICK order \in IF opt.randomize THEN Bijection(DOMAIN q, DOMAIN q)
                       ELSE {[i \in DOMAIN q |-> i]} :
          LET shuffled == [i \in DOMAIN q |-> q[order[i]]]
              n == IF opt.count = 0 THEN Len(shuffled) ELSE opt.count
          IN  fill' = [fill EXCEPT !.pc = "done", !.exit = 0, !.results = SubSeq(shuffled, 1, n)]
    BY <1>7 DEF Choose
  <2> HIDE DEF q
  <2>5. order \in [DOMAIN q -> DOMAIN q] /\ IsInjective(order)
    BY <2>4 DEF Bijection, Injection, IsInjective
  <2>6. PICK shuffled : shuffled = [i \in DOMAIN q |-> q[order[i]]]
    BY Zenon
  <2>7. PICK n : n = IF opt.count = 0 THEN Len(q) ELSE opt.count
    BY Zenon
  <2>8. n \in 0 .. Len(q)
    BY <1>2, <2>2, <2>3, <2>7
  <2>9. /\ SubSeq(shuffled, 1, n) \in Seq(Expansions(opt))
        /\ Len(SubSeq(shuffled, 1, n)) = n
        /\ IsInjective(SubSeq(shuffled, 1, n))
        /\ ToSet(SubSeq(shuffled, 1, n)) \subseteq Expansions(opt)
        /\ Len(shuffled) = Len(q)
    <3>1. Ordered(shuffled, q, order)
      BY <2>5, <2>6 DEF Ordered
    <3> QED
      BY <2>2, <2>8, <3>1, OrderedFacts
  <2>10. PICK r : r = SubSeq(shuffled, 1, n)
    BY Zenon
  <2>11. fill' = [fill EXCEPT !.pc = "done", !.exit = 0, !.results = r]
    BY <2>4, <2>6, <2>7, <2>9, <2>10, Zenon
  <2>12. r \in Seq(FillResults)
    <3>1. Expansions(opt) \subseteq FillResults
      BY <1>1 DEF FillResults
    <3>2. r \in Seq(Expansions(opt))
      BY <2>9, <2>10
    <3> QED
      BY <3>1, <3>2
  <2>13. /\ fill' \in FillStates /\ fill'.pc = "done" /\ fill'.exit = 0 /\ fill'.opt = opt
         /\ fill'.results = r
    BY <2>11, <2>12, Zenon DEF FillStates
  <2>14. FillPrinted(opt, r)
    BY <2>3, <2>7, <2>9, <2>10 DEF FillPrinted
  <2> QED
    BY <2>13, <2>14 DEF FillPhases
<1> QED
  BY <1>4, <1>5, <1>6, <1>7 DEF FillStep

LEMMA FillInvComplete == FillInv => FillComplete
<1> SUFFICES ASSUME FillInv
             PROVE  FillComplete
  OBVIOUS
<1>1. FillComplete <=>
        /\ fill.exit = 0 => FillPrinted(fill.opt, fill.results)
        /\ fill.exit = 2 => FillRefused(fill.opt)
        /\ fill.pc = "choose" =>
             FillsMatch(fill.opt) /\ Combinations(fill.opt) <= MaxCombinations
  BY DEF FillComplete, FillPrinted, FillRefused
<1>2. CASE tool = "fill"
  BY <1>1, <1>2 DEF FillInv, FillPhases
<1>3. CASE tool # "fill"
  BY <1>1, <1>3 DEF FillInv
<1> QED
  BY <1>2, <1>3

\* Every expansion that fill prints is one of the template, none is printed twice, and they
\* are as many as asked for, by default all there are; a call is refused only for a reason:
\* for templates of any length and any numbers of names and values.
THEOREM FillsComplete == Spec => []FillComplete
<1>1. Init => FillInv
  BY FillInitInv
<1>2. FillInv /\ [Next]_vars => FillInv'
  <2> SUFFICES ASSUME FillInv, [Next]_vars
               PROVE  FillInv'
    OBVIOUS
  <2>1. CASE RunFill
    <3>1. tool = "fill" /\ tool' = tool /\ FillStep
      BY <2>1 DEF RunFill, Rest
    <3>2. fill' \in FillStates /\ FillPhases(fill')
      BY <3>1, FillStepInv DEF FillInv
    <3> QED
      BY <3>1, <3>2 DEF FillInv
  <2>2. CASE UNCHANGED <<tool, fill>>
    BY <2>2 DEF FillInv
  <2> QED
    BY <2>1, <2>2 DEF Next, vars, files, Rest, RunBuniq, RunKp, RunBhxx, RunBpatch, RunBgrep,
                      RunFurl, RunExe, RunSplitMerge
<1> QED
  BY <1>1, <1>2, FillInvComplete, PTL DEF Spec

-----------------------------------------------------------------------------
(* exe: the search for strings finds the longest runs.                     *)

\* The bytes of the file, the mark of what is no character of ASCII, the encodings.
Symbols == STRING \cup {"x", "ASCII", "LE", "BE"}

FoundStrings == [start : Nat, text : Seq(Symbols)]

ScanStates == [found : Seq(FoundStrings), start : Nat, text : Seq(Symbols)]

ScanStart == [found |-> <<>>, start |-> 0, text |-> <<>>]

\* What there is to look at.
Scanned(chars, size, encoding) ==
  chars \in Seq(Symbols) /\ size \in {1, 2} /\ encoding \in Symbols

LEMMA KeptType ==
  ASSUME NEW scan, NEW encoding, scan \in ScanStates, encoding \in Symbols
  PROVE  Kept(scan, encoding) \in Seq(FoundStrings)
<1>1. PICK s : s = [start |-> scan.start, text |-> <<encoding>> \o scan.text]
  BY Zenon
<1>2. scan.found \in Seq(FoundStrings) /\ scan.start \in Nat /\ scan.text \in Seq(Symbols)
  BY DEF ScanStates
<1>3. <<encoding>> \o scan.text \in Seq(Symbols)
  BY <1>2
<1>4. s \in FoundStrings
  BY <1>1, <1>2, <1>3 DEF FoundStrings
<1> QED
  BY <1>1, <1>2, <1>4 DEF Kept

LEMMA ScanUnitType ==
  ASSUME NEW scan, NEW char, NEW offset, NEW encoding, scan \in ScanStates, char \in Symbols,
         offset \in Nat, encoding \in Symbols
  PROVE  ScanUnit(scan, char, offset, encoding) \in ScanStates
<1>1. scan.found \in Seq(FoundStrings) /\ scan.start \in Nat /\ scan.text \in Seq(Symbols)
  BY DEF ScanStates
<1>2. Kept(scan, encoding) \in Seq(FoundStrings)
  BY KeptType
<1>3. Append(scan.text, char) \in Seq(Symbols) /\ <<>> \in Seq(Symbols)
  BY <1>1
<1> QED
  BY <1>1, <1>2, <1>3, Zenon DEF ScanUnit, ScanStates

LEMMA ScanFunction ==
  ASSUME NEW chars, NEW size, NEW encoding, Scanned(chars, size, encoding)
  PROVE  \E f : /\ ScanUnits(chars, size, encoding) = Kept(f[Len(chars)], encoding)
                /\ f[0] = ScanStart
                /\ \A n \in 0 .. Len(chars) - 1 :
                     f[n + 1] = ScanUnit(f[n], chars[n + 1], size * n, encoding)
<1> DEFINE last == Len(chars)
           B == ScanStates
           Body(f, i) == IF i = 0 THEN ScanStart
                         ELSE ScanUnit(f[i - 1], chars[i], size * (i - 1), encoding)
           scan == CHOOSE f : f = [i \in 0 .. last |-> Body(f, i)]
           step == [p \in (0 .. last) \X B |->
                      IF p[1] < last THEN ScanUnit(p[2], chars[p[1] + 1], size * p[1], encoding)
                      ELSE p[2]]
<1>1. /\ last \in Nat /\ \A i \in 1 .. last : chars[i] \in Symbols
      /\ encoding \in Symbols /\ \A n \in 0 .. last : size * n \in Nat
  <2>1. chars \in Seq(Symbols) /\ size \in Nat /\ encoding \in Symbols
    <3>1. chars \in Seq(Symbols) /\ size \in {1, 2} /\ encoding \in Symbols
      BY DEF Scanned
    <3>2. \A x \in {1, 2} : x \in Nat
      OBVIOUS
    <3> QED
      BY <3>1, <3>2, Zenon
  <2>2. last \in Nat /\ \A i \in 1 .. last : chars[i] \in Symbols
    BY <2>1, SeqFacts
  <2>3. \A n \in 0 .. last : size * n \in Nat
    BY <2>1, <2>2
  <2> QED
    BY <2>1, <2>2, <2>3
<1>2. ASSUME NEW n \in 0 .. last, NEW a \in B
      PROVE  /\ step[<<n, a>>] \in B
             /\ n < last => step[<<n, a>>] = ScanUnit(a, chars[n + 1], size * n, encoding)
  <2>1. <<n, a>> \in (0 .. last) \X B
    OBVIOUS
  <2>2. step[<<n, a>>] = IF n < last THEN ScanUnit(a, chars[n + 1], size * n, encoding) ELSE a
    BY <2>1
  <2>3. n < last => chars[n + 1] \in Symbols
    BY <1>1
  <2>4. n < last => ScanUnit(a, chars[n + 1], size * n, encoding) \in B
    BY <1>1, <2>3, ScanUnitType
  <2> HIDE DEF step
  <2> QED
    BY <2>2, <2>4
<1>3. Steps(B, ScanStart, step, 0, last)
  <2>1. ScanStart \in B
    BY DEF ScanStart, ScanStates
  <2> HIDE DEF step, B
  <2>2. 0 \in Nat /\ last \in Nat /\ 0 <= last
    BY <1>1
  <2>3. \A n \in 0 .. last : \A a \in B : step[<<n, a>>] \in B
    BY <1>2
  <2> QED
    BY <2>1, <2>2, <2>3, Zenon DEF Steps
<1>4. PICK g : Follows(g, B, ScanStart, step, 0, last)
  <2> HIDE DEF step, B, last
  <2> QED
    BY <1>3, Recursion, Zenon
<1>5. /\ g \in [0 .. last -> B] /\ g[0] = ScanStart
      /\ \A n \in 0 .. last - 1 : g[n + 1] = ScanUnit(g[n], chars[n + 1], size * n, encoding)
  <2> HIDE DEF step, B
  <2>1. g \in [0 .. last -> B] /\ g[0] = ScanStart
    BY <1>4 DEF Follows
  <2>2. ASSUME NEW n \in 0 .. last - 1
        PROVE  g[n + 1] = ScanUnit(g[n], chars[n + 1], size * n, encoding)
    <3>1. g[n + 1] = step[<<n, g[n]>>]
      BY <1>4, <2>2 DEF Follows
    <3>2. n \in 0 .. last /\ n < last /\ g[n] \in B
      BY <1>1, <2>1
    <3> QED
      BY <3>1, <3>2, <1>2
  <2> QED
    BY <2>1, <2>2
<1>6. g = [i \in 0 .. last |-> Body(g, i)]
  <2>1. ASSUME NEW i \in 0 .. last
        PROVE  g[i] = Body(g, i)
    <3>1. CASE i = 0
      BY <3>1, <1>5
    <3>2. CASE i # 0
      <4>1. PICK n : n = i - 1
        OBVIOUS
      <4>2. n \in 0 .. last - 1 /\ i = n + 1
        BY <3>2, <4>1, <1>1
      <4>3. g[n + 1] = ScanUnit(g[n], chars[n + 1], size * n, encoding)
        BY <4>2, <1>5
      <4> QED
        BY <3>2, <4>1, <4>2, <4>3
    <3> QED
      BY <3>1, <3>2
  <2> HIDE DEF Body, B
  <2> QED
    BY <2>1, <1>5
<1>7. scan = [i \in 0 .. last |-> Body(scan, i)]
  BY <1>6, Zenon
<1>8. ScanUnits(chars, size, encoding) = Kept(scan[last], encoding)
  BY DEF ScanUnits, ScanStart
<1>9. /\ scan[0] = ScanStart
      /\ \A n \in 0 .. last - 1 :
           scan[n + 1] = ScanUnit(scan[n], chars[n + 1], size * n, encoding)
  <2> HIDE DEF scan
  <2>1. scan[0] = ScanStart
    BY <1>1, <1>7
  <2>2. ASSUME NEW n \in 0 .. last - 1
        PROVE  scan[n + 1] = ScanUnit(scan[n], chars[n + 1], size * n, encoding)
    <3>1. n + 1 \in 0 .. last /\ n + 1 # 0 /\ (n + 1) - 1 = n
      BY <1>1
    <3>2. scan[n + 1] = Body(scan, n + 1)
      BY <1>7, <3>1
    <3> QED
      BY <3>1, <3>2
  <2> QED
    BY <2>1, <2>2
<1> QED
  BY <1>8, <1>9, Zenon

-----------------------------------------------------------------------------
\* A run of printable characters from b on, as long as it can be to the left, up to k.
Running(chars, b, k) ==
  /\ k \in 0 .. Len(chars) /\ b \in 1 .. k + 1 /\ Len(chars) \in Nat
  /\ \A i \in b .. k : Printable(chars[i])
  /\ b > 1 => ~Printable(chars[b - 1])

\* It cannot be longer to the right.
Ended(chars, k) == k < Len(chars) => ~Printable(chars[k + 1])

RunsTo(chars, k) == {r \in RunsOf(chars) : r[2] = k}

LEMMA RunFacts ==
  ASSUME NEW chars, NEW r, r \in RunsOf(chars), Len(chars) \in Nat
  PROVE  /\ r[1] \in 1 .. Len(chars) /\ r[2] \in 1 .. Len(chars) /\ r = <<r[1], r[2]>>
         /\ r[1] < r[2]
         /\ \A i \in r[1] .. r[2] : Printable(chars[i])
         /\ r[1] > 1 => ~Printable(chars[r[1] - 1])
         /\ r[2] < Len(chars) => ~Printable(chars[r[2] + 1])
BY DEF RunsOf, MinLength

LEMMA RunsEnding ==
  ASSUME NEW chars, NEW b, NEW k, Running(chars, b, k)
  PROVE  /\ ~Ended(chars, k) => RunsTo(chars, k) = {}
         /\ Ended(chars, k) =>
              RunsTo(chars, k) = IF k - b + 1 >= MinLength THEN {<<b, k>>} ELSE {}
<1>1. /\ k \in 0 .. Len(chars) /\ b \in 1 .. k + 1 /\ Len(chars) \in Nat
      /\ \A i \in b .. k : Printable(chars[i])
      /\ b > 1 => ~Printable(chars[b - 1])
  BY DEF Running
<1>2. ASSUME NEW r \in RunsTo(chars, k)
      PROVE  r = <<b, k>> /\ Ended(chars, k) /\ k - b + 1 >= MinLength
  <2>1. PICK a : a = r[1]
    OBVIOUS
  <2>2. /\ a \in 1 .. k /\ r = <<a, k>>
        /\ \A i \in a .. k : Printable(chars[i])
        /\ a > 1 => ~Printable(chars[a - 1])
        /\ k < Len(chars) => ~Printable(chars[k + 1])
    BY <1>1, <2>1, RunFacts DEF RunsTo
  <2>3. k - a + 1 >= MinLength
    BY <2>1 DEF RunsTo, RunsOf
  <2>4. ~(a < b)
    <3>1. ASSUME a < b
          PROVE  FALSE
      <4>1. b > 1 /\ b - 1 \in a .. k
        BY <1>1, <2>2, <3>1
      <4> QED
        BY <1>1, <2>2, <4>1
    <3> QED
      BY <3>1
  <2>5. ~(b < a)
    <3>1. ASSUME b < a
          PROVE  FALSE
      <4>1. a > 1 /\ a - 1 \in b .. k
        BY <1>1, <2>2, <3>1
      <4> QED
        BY <1>1, <2>2, <4>1
    <3> QED
      BY <3>1
  <2>6. a = b
    BY <1>1, <2>2, <2>4, <2>5
  <2> QED
    BY <2>2, <2>3, <2>6 DEF Ended
<1>3. ASSUME Ended(chars, k), k - b + 1 >= MinLength
      PROVE  <<b, k>> \in RunsTo(chars, k)
  <2>1. b \in 1 .. Len(chars) /\ k \in 1 .. Len(chars)
    BY <1>1, <1>3 DEF MinLength
  <2> QED
    BY <1>1, <1>3, <2>1, Zenon DEF RunsTo, RunsOf, Ended
<1> QED
  BY <1>2, <1>3

\* The strings of the runs that end before the k-th character.
RunString(chars, size, encoding, r) ==
  [start |-> size * (r[1] - 1), text |-> <<encoding>> \o SubSeq(chars, r[1], r[2])]

StringsBefore(chars, size, encoding, k) ==
  {RunString(chars, size, encoding, r) : r \in {q \in RunsOf(chars) : q[2] < k}}

LEMMA StringsGrow ==
  ASSUME NEW chars, NEW size, NEW encoding, NEW k, k \in Nat, Len(chars) \in Nat
  PROVE  StringsBefore(chars, size, encoding, k + 1)
           = StringsBefore(chars, size, encoding, k)
               \cup {RunString(chars, size, encoding, r) : r \in RunsTo(chars, k)}
<1>1. \A r \in RunsOf(chars) : r[2] \in Nat
  BY RunFacts
<1>2. \A r \in RunsOf(chars) : r[2] < k + 1 <=> r[2] < k \/ r[2] = k
  BY <1>1
<1>3. {q \in RunsOf(chars) : q[2] < k + 1} = {q \in RunsOf(chars) : q[2] < k} \cup RunsTo(chars, k)
  BY <1>2 DEF RunsTo
<1> QED
  BY <1>3 DEF StringsBefore

LEMMA StringsNone ==
  ASSUME NEW chars, NEW size, NEW encoding, Len(chars) \in Nat
  PROVE  StringsBefore(chars, size, encoding, 0) = {}
<1>1. \A r \in RunsOf(chars) : ~(r[2] < 0)
  BY RunFacts
<1> QED
  BY <1>1 DEF StringsBefore

LEMMA StringsAll ==
  ASSUME NEW chars, NEW size, NEW encoding, Len(chars) \in Nat
  PROVE  StringsBefore(chars, size, encoding, Len(chars) + 1)
           = RunStrings(chars, size, encoding)
<1>1. \A r \in RunsOf(chars) : r[2] < Len(chars) + 1
  BY RunFacts
<1>2. {q \in RunsOf(chars) : q[2] < Len(chars) + 1} = RunsOf(chars)
  BY <1>1
<1> QED
  BY <1>2, Zenon DEF StringsBefore, RunStrings, RunString

-----------------------------------------------------------------------------
(* What is held after each character.                                      *)

\* What is kept after k characters, the last of them a part of a run from b on.
ScanHeld(chars, size, encoding, k, acc, b) ==
  /\ Running(chars, b, k) /\ acc \in ScanStates
  /\ acc.text = SubSeq(chars, b, k)
  /\ b <= k => acc.start = size * (b - 1)
  /\ Elements(acc.found, FoundStrings, StringsBefore(chars, size, encoding, k))

LEMMA TextFacts ==
  ASSUME NEW s, NEW b, NEW k, s \in Seq(Symbols), k \in 0 .. Len(s), b \in 1 .. k + 1
  PROVE  /\ SubSeq(s, b, k) \in Seq(Symbols) /\ Len(SubSeq(s, b, k)) = k - b + 1
         /\ SubSeq(s, b, k) = <<>> <=> b = k + 1
OBVIOUS

LEMMA TextGrows ==
  ASSUME NEW s, NEW b, NEW k, s \in Seq(Symbols), k \in 0 .. Len(s) - 1, b \in 1 .. k + 1
  PROVE  SubSeq(s, b, k + 1) = Append(SubSeq(s, b, k), s[k + 1])
OBVIOUS

LEMMA RunStringNew ==
  ASSUME NEW chars, NEW size, NEW encoding, NEW k, NEW b, Scanned(chars, size, encoding),
         Running(chars, b, k), b <= k
  PROVE  RunString(chars, size, encoding, <<b, k>>)
           \notin StringsBefore(chars, size, encoding, k)
<1>1. /\ k \in 0 .. Len(chars) /\ b \in 1 .. k + 1 /\ Len(chars) \in Nat
      /\ \A i \in b .. k : Printable(chars[i])
  BY DEF Running
<1>2. SUFFICES ASSUME NEW r, r \in RunsOf(chars), r[2] < k,
                      RunString(chars, size, encoding, <<b, k>>)
                        = RunString(chars, size, encoding, r)
               PROVE  FALSE
  BY DEF StringsBefore
<1>3. PICK m, n : m = r[1] /\ n = r[2]
  OBVIOUS
<1>4. /\ m \in 1 .. Len(chars) /\ n \in 1 .. Len(chars) /\ n < k /\ m < n
      /\ n < Len(chars) => ~Printable(chars[n + 1])
  BY <1>1, <1>2, <1>3, RunFacts
<1>5. size * (b - 1) = size * (m - 1)
  BY <1>2, <1>3 DEF RunString
<1>6. m = b
  <2>1. size \in {1, 2}
    BY DEF Scanned
  <2>2. m \in Nat /\ b \in Nat
    BY <1>1, <1>4
  <2>3. CASE size = 1
    BY <1>5, <2>2, <2>3
  <2>4. CASE size = 2
    BY <1>5, <2>2, <2>4
  <2> QED
    BY <2>1, <2>3, <2>4
<1>7. n + 1 \in b .. k /\ n < Len(chars)
  BY <1>1, <1>4, <1>6
<1> QED
  BY <1>1, <1>4, <1>7

LEMMA KeptFacts ==
  ASSUME NEW chars, NEW size, NEW encoding, NEW k, NEW acc, NEW b,
         Scanned(chars, size, encoding), ScanHeld(chars, size, encoding, k, acc, b),
         Ended(chars, k)
  PROVE  Elements(Kept(acc, encoding), FoundStrings,
                  StringsBefore(chars, size, encoding, k + 1))
<1> DEFINE found == acc.found
           A == StringsBefore(chars, size, encoding, k)
           s == RunString(chars, size, encoding, <<b, k>>)
<1>1. /\ k \in 0 .. Len(chars) /\ b \in 1 .. k + 1 /\ Len(chars) \in Nat
      /\ Running(chars, b, k)
  BY DEF ScanHeld, Running
<1>2. chars \in Seq(Symbols) /\ encoding \in Symbols
  BY DEF Scanned
<1>3. /\ Elements(found, FoundStrings, A) /\ acc.text = SubSeq(chars, b, k)
      /\ b <= k => acc.start = size * (b - 1)
      /\ acc.start \in Nat
  BY DEF ScanHeld, ScanStates
<1>4. Len(acc.text) = k - b + 1
  BY <1>1, <1>2, <1>3, TextFacts
<1>5. k \in Nat
  BY <1>1
<1>6. StringsBefore(chars, size, encoding, k + 1)
        = A \cup {RunString(chars, size, encoding, r) : r \in RunsTo(chars, k)}
  BY <1>1, <1>5, StringsGrow, Zenon
<1>7. RunsTo(chars, k) = IF k - b + 1 >= MinLength THEN {<<b, k>>} ELSE {}
  BY <1>1, RunsEnding
<1>8. CASE k - b + 1 >= MinLength
  <2>1. b <= k
    BY <1>1, <1>8 DEF MinLength
  <2>2. Kept(acc, encoding) = Append(found, s)
    BY <1>3, <1>4, <1>8, <2>1, Zenon DEF Kept, RunString
  <2>3. s \notin A
    BY <1>1, <2>1, RunStringNew
  <2>4. s \in FoundStrings
    <3>1. acc.text \in Seq(Symbols)
      BY Zenon DEF ScanHeld, ScanStates
    <3>2. PICK text : text = <<encoding>> \o acc.text
      BY Zenon
    <3>3. text \in Seq(Symbols)
      BY <1>2, <3>1, <3>2
    <3>4. s = [start |-> acc.start, text |-> text]
      BY <1>3, <2>1, <3>2, Zenon DEF RunString
    <3>5. acc.start \in Nat
      BY <1>3
    <3> HIDE DEF s
    <3> QED
      BY <3>3, <3>4, <3>5 DEF FoundStrings
  <2>5. StringsBefore(chars, size, encoding, k + 1) = A \cup {s}
    BY <1>6, <1>7, <1>8
  <2> HIDE DEF A, s, found
  <2>6. Elements(Append(found, s), FoundStrings, A \cup {s})
    BY <1>3, <2>3, <2>4, ElementsAppend
  <2> QED
    BY <2>2, <2>5, <2>6, Zenon
<1>9. CASE ~(k - b + 1 >= MinLength)
  <2>1. Kept(acc, encoding) = found
    BY <1>4, <1>9 DEF Kept
  <2>2. StringsBefore(chars, size, encoding, k + 1) = A
    BY <1>6, <1>7, <1>9, Zenon
  <2> QED
    BY <1>3, <2>1, <2>2
<1> QED
  BY <1>8, <1>9

LEMMA ScanHeldStep ==
  ASSUME NEW chars, NEW size, NEW encoding, NEW k, NEW acc, NEW b,
         Scanned(chars, size, encoding), ScanHeld(chars, size, encoding, k, acc, b),
         k < Len(chars)
  PROVE  \E c : ScanHeld(chars, size, encoding, k + 1,
                         ScanUnit(acc, chars[k + 1], size * k, encoding), c)
<1>1. /\ k \in 0 .. Len(chars) - 1 /\ b \in 1 .. k + 1 /\ Len(chars) \in Nat
      /\ \A i \in b .. k : Printable(chars[i])
      /\ b > 1 => ~Printable(chars[b - 1])
      /\ Running(chars, b, k)
  BY DEF ScanHeld, Running
<1>2. chars \in Seq(Symbols) /\ encoding \in Symbols
  BY DEF Scanned
<1>3. /\ acc \in ScanStates /\ acc.text = SubSeq(chars, b, k)
      /\ b <= k => acc.start = size * (b - 1)
  BY DEF ScanHeld
<1>4. size * k \in Nat
  <2>1. size \in Nat
    <3>1. size \in {1, 2}
      BY DEF Scanned
    <3> QED
      BY <3>1
  <2>2. k \in Nat
    BY <1>1
  <2> QED
    BY <2>1, <2>2
<1>5. chars[k + 1] \in Symbols
  BY <1>1, <1>2
<1>6. PICK next : next = ScanUnit(acc, chars[k + 1], size * k, encoding)
  OBVIOUS
<1>7. PICK offset : offset = size * k
  OBVIOUS
<1>8. next \in ScanStates
  BY <1>3, <1>4, <1>5, <1>2, <1>6, ScanUnitType
<1>9. CASE Printable(chars[k + 1])
  <2>1. /\ next.found = acc.found
        /\ next.text = Append(acc.text, chars[k + 1])
        /\ next.start = IF acc.text = <<>> THEN offset ELSE acc.start
    BY <1>3, <1>6, <1>7, <1>9, Zenon DEF ScanUnit, ScanStates
  <2>2. Running(chars, b, k + 1)
    BY <1>1, <1>9 DEF Running
  <2>3. next.text = SubSeq(chars, b, k + 1)
    BY <1>1, <1>2, <1>3, <2>1, TextGrows
  <2>4. next.start = size * (b - 1)
    <3>1. k \in 0 .. Len(chars)
      BY <1>1
    <3>2. acc.text = <<>> <=> b = k + 1
      BY <1>1, <1>2, <1>3, <3>1, TextFacts
    <3>3. b \in Nat /\ k \in Nat /\ b <= k + 1
      BY <1>1
    <3>4. CASE b = k + 1
      <4>1. b - 1 = k
        BY <3>3, <3>4
      <4> QED
        BY <1>7, <2>1, <3>2, <3>4, <4>1
    <3>5. CASE b # k + 1
      <4>1. b <= k
        BY <3>3, <3>5
      <4> QED
        BY <1>3, <2>1, <3>2, <3>5, <4>1
    <3> QED
      BY <3>4, <3>5
  <2>5. ~Ended(chars, k)
    BY <1>9 DEF Ended
  <2>6. StringsBefore(chars, size, encoding, k + 1)
          = StringsBefore(chars, size, encoding, k)
    <3>1. RunsTo(chars, k) = {}
      BY <1>1, <2>5, RunsEnding
    <3>2. k \in Nat
      BY <1>1
    <3>3. StringsBefore(chars, size, encoding, k + 1)
            = StringsBefore(chars, size, encoding, k)
                \cup {RunString(chars, size, encoding, r) : r \in RunsTo(chars, k)}
      BY <1>1, <3>2, StringsGrow, Zenon
    <3> QED
      BY <3>1, <3>3
  <2>7. Elements(next.found, FoundStrings, StringsBefore(chars, size, encoding, k + 1))
    BY <2>1, <2>6 DEF ScanHeld
  <2>8. ScanHeld(chars, size, encoding, k + 1, next, b)
    BY <1>8, <2>2, <2>3, <2>4, <2>7 DEF ScanHeld
  <2> QED
    BY <1>6, <2>8
<1>10. CASE ~Printable(chars[k + 1])
  <2>1. next.found = Kept(acc, encoding) /\ next.text = <<>>
    BY <1>3, <1>6, <1>10 DEF ScanUnit, ScanStates
  <2>2. PICK c : c = k + 2
    OBVIOUS
  <2>3. c \in 1 .. (k + 1) + 1 /\ k + 1 \in 0 .. Len(chars) /\ ~(c <= k + 1) /\ c - 1 = k + 1
    BY <1>1, <2>2
  <2>4. Running(chars, c, k + 1)
    BY <1>1, <1>10, <2>3 DEF Running
  <2>5. SubSeq(chars, c, k + 1) = <<>>
    <3>1. c = (k + 1) + 1
      BY <1>1, <2>2
    <3> QED
      BY <1>2, <2>3, <3>1, TextFacts
  <2>6. Ended(chars, k)
    BY <1>10 DEF Ended
  <2>7. Elements(next.found, FoundStrings, StringsBefore(chars, size, encoding, k + 1))
    BY <2>1, <2>6, KeptFacts
  <2>8. ScanHeld(chars, size, encoding, k + 1, next, c)
    BY <1>8, <2>1, <2>3, <2>4, <2>5, <2>7 DEF ScanHeld
  <2> QED
    BY <1>6, <2>8
<1> QED
  BY <1>9, <1>10

\* The search finds the runs, each once.
LEMMA ScanUnitsFacts ==
  ASSUME NEW chars, NEW size, NEW encoding, Scanned(chars, size, encoding)
  PROVE  Elements(ScanUnits(chars, size, encoding), FoundStrings,
                  RunStrings(chars, size, encoding))
<1>1. PICK last : last = Len(chars)
  BY Zenon
<1>2. last \in Nat
  <2>1. chars \in Seq(Symbols)
    BY DEF Scanned
  <2> QED
    BY <1>1, <2>1
<1>3. PICK f : /\ ScanUnits(chars, size, encoding) = Kept(f[last], encoding)
               /\ f[0] = ScanStart
               /\ \A n \in 0 .. last - 1 :
                    f[n + 1] = ScanUnit(f[n], chars[n + 1], size * n, encoding)
  BY <1>1, ScanFunction
<1> DEFINE Held(n) == \E b : ScanHeld(chars, size, encoding, n, f[n], b)
           G == {n \in Nat : Held(n)}
<1>4. Held(0)
  <2>1. ScanStart \in ScanStates
    BY DEF ScanStart, ScanStates
  <2>2. PICK one : one = 1
    OBVIOUS
  <2>3. Running(chars, one, 0)
    BY <1>1, <1>2, <2>2 DEF Running
  <2>4. SubSeq(chars, one, 0) = <<>>
    <3>1. chars \in Seq(Symbols)
      BY DEF Scanned
    <3>2. one = 0 + 1 /\ 0 \in 0 .. Len(chars) /\ one \in 1 .. 0 + 1
      BY <1>1, <1>2, <2>2
    <3> QED
      BY <3>1, <3>2, TextFacts
  <2>5. Elements(<<>>, FoundStrings, StringsBefore(chars, size, encoding, 0))
    <3>1. StringsBefore(chars, size, encoding, 0) = {}
      BY <1>1, <1>2, StringsNone
    <3>2. Elements(<<>>, FoundStrings, {})
      BY DEF Elements, IsInjective, ToSet
    <3> QED
      BY <3>1, <3>2, Zenon
  <2>6. ScanHeld(chars, size, encoding, 0, ScanStart, one)
    BY <2>1, <2>2, <2>3, <2>4, <2>5 DEF ScanHeld, ScanStart
  <2> QED
    BY <1>3, <2>6
<1>5. ASSUME NEW n \in 0 .. last - 1, n \in G
      PROVE  n + 1 \in G
  <2>1. PICK b : ScanHeld(chars, size, encoding, n, f[n], b)
    BY <1>5
  <2>2. n < Len(chars)
    BY <1>1, <1>2
  <2>3. \E c : ScanHeld(chars, size, encoding, n + 1,
                        ScanUnit(f[n], chars[n + 1], size * n, encoding), c)
    BY <2>1, <2>2, ScanHeldStep, Zenon
  <2>4. Held(n + 1)
    BY <1>3, <2>3
  <2>5. n + 1 \in Nat
    BY <1>2
  <2> QED
    BY <2>4, <2>5
<1>6. 0 \in G
  BY <1>4
<1>7. last \in G
  <2> HIDE DEF G
  <2>1. PICK first : first = 0
    OBVIOUS
  <2>2. Inductive(G, first, last)
    BY <1>2, <1>5, <1>6, <2>1 DEF Inductive
  <2>3. \A n \in first .. last : n \in G
    BY <2>2, RangeInduction
  <2> QED
    BY <1>2, <2>1, <2>3
<1>8. PICK b : ScanHeld(chars, size, encoding, last, f[last], b)
  BY <1>7
<1>9. Ended(chars, last)
  BY <1>1, <1>2 DEF Ended
<1>10. Elements(Kept(f[last], encoding), FoundStrings,
                StringsBefore(chars, size, encoding, last + 1))
  BY <1>8, <1>9, KeptFacts
<1>11. StringsBefore(chars, size, encoding, last + 1) = RunStrings(chars, size, encoding)
  BY <1>1, <1>2, StringsAll
<1> QED
  BY <1>3, <1>10, <1>11

-----------------------------------------------------------------------------
(* The three encodings.                                                    *)

LEMMA ConcatElements ==
  ASSUME NEW s, NEW t, NEW T, NEW A, NEW B, Elements(s, T, A), Elements(t, T, B),
         \A x \in A : x \notin B
  PROVE  Elements(s \o t, T, A \cup B)
<1>1. PICK st : st = s \o t
  BY Zenon
<1>2. PICK a, b : a = Len(s) /\ b = Len(t)
  BY Zenon
<1>3. s \in Seq(T) /\ t \in Seq(T)
  BY DEF Elements
<1>4. /\ a \in Nat /\ b \in Nat /\ Len(st) = a + b /\ st \in Seq(T)
      /\ \A i \in 1 .. a : st[i] = s[i]
      /\ \A i \in 1 .. b : st[a + i] = t[i]
  BY <1>1, <1>2, <1>3, ConcatFacts
<1>5. DOMAIN s = 1 .. a /\ DOMAIN t = 1 .. b /\ DOMAIN st = 1 .. a + b
  BY <1>2, <1>3, <1>4, SeqFacts
<1>6. /\ \A i, j \in 1 .. a : s[i] = s[j] => i = j
      /\ \A i, j \in 1 .. b : t[i] = t[j] => i = j
      /\ \A i \in 1 .. a : s[i] \in A
      /\ \A i \in 1 .. b : t[i] \in B
  BY <1>5 DEF Elements, IsInjective, ToSet
<1>7. ASSUME NEW i \in 1 .. a + b
      PROVE  \/ i \in 1 .. a /\ st[i] = s[i] /\ st[i] \in A
             \/ \E k \in 1 .. b : i = a + k /\ st[i] = t[k] /\ st[i] \in B
  <2>1. CASE i <= a
    <3>1. i \in 1 .. a
      BY <1>4, <2>1
    <3> QED
      BY <1>4, <1>6, <3>1
  <2>2. CASE i > a
    <3>1. PICK k : k = i - a
      OBVIOUS
    <3>2. k \in 1 .. b /\ i = a + k
      BY <1>4, <2>2, <3>1
    <3> QED
      BY <1>4, <1>6, <3>2
  <2> QED
    BY <1>4, <2>1, <2>2
<1>8. IsInjective(st)
  <2>1. ASSUME NEW i \in 1 .. a + b, NEW j \in 1 .. a + b, st[i] = st[j]
        PROVE  i = j
    <3>1. CASE st[i] \in A
      <4>1. i \in 1 .. a /\ j \in 1 .. a /\ s[i] = s[j]
        BY <1>7, <2>1, <3>1
      <4> QED
        BY <1>6, <4>1
    <3>2. CASE st[i] \notin A
      <4>1. PICK k \in 1 .. b : i = a + k /\ st[i] = t[k]
        BY <1>7, <3>2
      <4>2. PICK m \in 1 .. b : j = a + m /\ st[j] = t[m]
        BY <1>7, <2>1, <3>2
      <4>3. k = m
        BY <1>6, <2>1, <4>1, <4>2
      <4> QED
        BY <4>1, <4>2, <4>3
    <3> QED
      BY <3>1, <3>2
  <2> QED
    BY <1>5, <2>1 DEF IsInjective
<1>9. ToSet(st) = A \cup B
  <2>1. \A i \in 1 .. a + b : st[i] \in A \cup B
    BY <1>7
  <2>2. A = {s[i] : i \in 1 .. a} /\ B = {t[i] : i \in 1 .. b}
    BY <1>5 DEF Elements, ToSet
  <2>3. \A i \in 1 .. a : i \in 1 .. a + b /\ st[i] = s[i]
    BY <1>4
  <2>4. \A i \in 1 .. b : a + i \in 1 .. a + b /\ st[a + i] = t[i]
    BY <1>4
  <2>5. A \subseteq ToSet(st) /\ B \subseteq ToSet(st)
    BY <1>5, <2>2, <2>3, <2>4 DEF ToSet
  <2>6. ToSet(st) \subseteq A \cup B
    BY <1>5, <2>1 DEF ToSet
  <2> QED
    BY <2>5, <2>6
<1> QED
  BY <1>1, <1>4, <1>8, <1>9 DEF Elements

LEMMA Utf16Type ==
  ASSUME NEW data, NEW low, NEW high, data \in Seq(Symbols), low \in {0, 1}, high \in {0, 1}
  PROVE  Utf16(data, low, high) \in Seq(Symbols)
<1>1. PICK n, m : n = Len(data) \div 2 /\ m = Len(data)
  OBVIOUS
<1>2. m \in Nat /\ \A i \in 1 .. m : data[i] \in Symbols
  BY <1>1
<1>3. n \in Nat /\ 2 * n <= m
  BY <1>1, <1>2
<1>4. ASSUME NEW i \in 1 .. n
      PROVE  (IF data[2 * i - high] = "0" THEN data[2 * i - low] ELSE "x") \in Symbols
  <2>1. 2 * i - low \in 1 .. m
    <3>1. CASE low = 0
      BY <1>2, <1>3, <3>1
    <3>2. CASE low = 1
      BY <1>2, <1>3, <3>2
    <3> QED
      BY <3>1, <3>2
  <2>2. data[2 * i - low] \in Symbols
    BY <1>2, <2>1
  <2>3. "x" \in Symbols
    BY DEF Symbols
  <2> QED
    BY <2>2, <2>3
<1>5. Utf16(data, low, high) \in [1 .. n -> Symbols]
  BY <1>1, <1>4, Zenon DEF Utf16
<1> QED
  BY <1>3, <1>5

\* Each string begins with its encoding.
LEMMA Encoded ==
  ASSUME NEW chars, NEW size, NEW encoding, NEW x, Scanned(chars, size, encoding),
         x \in RunStrings(chars, size, encoding)
  PROVE  x.text[1] = encoding
<1>1. PICK r \in RunsOf(chars) :
        x = [start |-> size * (r[1] - 1), text |-> <<encoding>> \o SubSeq(chars, r[1], r[2])]
  BY Zenon DEF RunStrings
<1>2. chars \in Seq(Symbols) /\ encoding \in Symbols
  BY DEF Scanned
<1>3. PICK m, n : m = r[1] /\ n = r[2]
  OBVIOUS
<1>4. m \in 1 .. Len(chars) /\ n \in 1 .. Len(chars) /\ Len(chars) \in Nat /\ m < n
  <2>1. Len(chars) \in Nat
    BY <1>2
  <2> QED
    BY <1>3, <2>1, RunFacts
<1>5. SubSeq(chars, m, n) \in Seq(Symbols)
  <2>1. n \in 0 .. Len(chars) /\ m \in 1 .. n + 1
    BY <1>4
  <2> QED
    BY <1>2, <2>1, TextFacts
<1>6. PICK s : s = SubSeq(chars, m, n)
  BY Zenon
<1>7. (<<encoding>> \o s)[1] = encoding
  BY <1>2, <1>5, <1>6
<1> QED
  BY <1>1, <1>3, <1>6, <1>7

LEMMA StringsFacts ==
  ASSUME NEW data, data \in Seq(Symbols)
  PROVE  Elements(Strings(data), FoundStrings, StringsOf(data))
<1>1. PICK le, be : le = Utf16(data, 1, 0) /\ be = Utf16(data, 0, 1)
  OBVIOUS
<1>2. PICK one, two, ascii, little, big :
        one = 1 /\ two = 2 /\ ascii = "ASCII" /\ little = "LE" /\ big = "BE"
  OBVIOUS
<1>3. le \in Seq(Symbols) /\ be \in Seq(Symbols)
  <2>1. PICK x, y : x = 0 /\ y = 1
    OBVIOUS
  <2>2. x \in {0, 1} /\ y \in {0, 1}
    BY <2>1
  <2> QED
    BY <1>1, <2>1, <2>2, Utf16Type
<1>4. ascii # little /\ ascii # big /\ little # big
  BY <1>2
<1>5. Scanned(data, one, ascii) /\ Scanned(le, two, little) /\ Scanned(be, two, big)
  <2>1. one \in {1, 2} /\ two \in {1, 2}
    BY <1>2
  <2>2. ascii \in Symbols /\ little \in Symbols /\ big \in Symbols
    BY <1>2 DEF Symbols
  <2> QED
    BY <1>3, <2>1, <2>2, Zenon DEF Scanned
<1>6. PICK A, L, B : /\ A = RunStrings(data, one, ascii)
                     /\ L = RunStrings(le, two, little)
                     /\ B = RunStrings(be, two, big)
  OBVIOUS
<1>7. PICK a, l, b : /\ a = ScanUnits(data, one, ascii)
                     /\ l = ScanUnits(le, two, little)
                     /\ b = ScanUnits(be, two, big)
  OBVIOUS
<1>8. Elements(a, FoundStrings, A) /\ Elements(l, FoundStrings, L) /\ Elements(b, FoundStrings, B)
  BY <1>5, <1>6, <1>7, ScanUnitsFacts
<1>9. /\ \A x \in A : x.text[1] = ascii
      /\ \A x \in L : x.text[1] = little
      /\ \A x \in B : x.text[1] = big
  BY <1>5, <1>6, Encoded
<1>10. Elements(a \o l, FoundStrings, A \cup L)
  <2>1. \A x \in A : x \notin L
    BY <1>4, <1>9
  <2> QED
    BY <1>8, <2>1, ConcatElements
<1>11. Elements((a \o l) \o b, FoundStrings, (A \cup L) \cup B)
  <2>1. \A x \in A \cup L : x \notin B
    BY <1>4, <1>9
  <2> QED
    BY <1>8, <1>10, <2>1, ConcatElements
<1>12. Strings(data) = (a \o l) \o b
  BY <1>1, <1>2, <1>7 DEF Strings
<1>13. StringsOf(data) = (A \cup L) \cup B
  BY <1>1, <1>2, <1>6 DEF StringsOf
<1> QED
  BY <1>11, <1>12, <1>13

-----------------------------------------------------------------------------
(* What is collected.                                                      *)

ExeRecords == [kind : Kinds, string : FoundStrings]

\* The records of a kind the libraries deliver, and those of the strings.
OneRecord(kinds, kind) ==
  IF kind \in kinds THEN {[kind |-> kind, string |-> NoString]} ELSE {}

OfKind(kinds, kind, records) == IF kind \in kinds THEN records ELSE <<>>

StringSet(kinds, found) ==
  IF "strings" \in kinds THEN {[kind |-> "strings", string |-> s] : s \in found} ELSE {}

StringSeq(found) == [i \in DOMAIN found |-> [kind |-> "strings", string |-> found[i]]]

LEMMA OneRecordElements ==
  ASSUME NEW kinds, NEW kind, kind \in Kinds
  PROVE  /\ Elements(OfKind(kinds, kind, <<[kind |-> kind, string |-> NoString]>>), ExeRecords,
                     OneRecord(kinds, kind))
         /\ \A x \in OneRecord(kinds, kind) : x.kind = kind
<1>1. PICK r : r = [kind |-> kind, string |-> NoString]
  BY Zenon
<1>2. r \in ExeRecords /\ r.kind = kind
  <2>1. NoString \in FoundStrings
    BY DEF NoString, FoundStrings
  <2> QED
    BY <1>1, <2>1 DEF ExeRecords
<1>3. CASE kind \in kinds
  <2>1. Elements(<<r>>, ExeRecords, {r})
    <3>1. <<r>> \in Seq(ExeRecords) /\ DOMAIN <<r>> = {1} /\ <<r>>[1] = r
      BY <1>2
    <3> QED
      BY <3>1 DEF Elements, IsInjective, ToSet
  <2>2. OneRecord(kinds, kind) = {r}
    BY <1>1, <1>3 DEF OneRecord
  <2>3. OfKind(kinds, kind, <<r>>) = <<r>>
    BY <1>3 DEF OfKind
  <2> QED
    BY <1>1, <1>2, <2>1, <2>2, <2>3
<1>4. CASE kind \notin kinds
  <2>1. Elements(<<>>, ExeRecords, {})
    BY DEF Elements, IsInjective, ToSet
  <2>2. OneRecord(kinds, kind) = {}
    BY <1>4 DEF OneRecord
  <2>3. OfKind(kinds, kind, <<r>>) = <<>>
    BY <1>4 DEF OfKind
  <2> QED
    BY <1>1, <2>1, <2>2, <2>3
<1> QED
  BY <1>3, <1>4

LEMMA StringElements ==
  ASSUME NEW kinds, NEW found, NEW A, Elements(found, FoundStrings, A)
  PROVE  /\ Elements(OfKind(kinds, "strings", StringSeq(found)), ExeRecords,
                     StringSet(kinds, A))
         /\ \A x \in StringSet(kinds, A) : x.kind = "strings"
<1>1. CASE "strings" \in kinds
  <2>1. PICK n : n = Len(found)
    BY Zenon
  <2>2. found \in Seq(FoundStrings) /\ n \in Nat /\ DOMAIN found = 1 .. n
    BY <2>1, SeqFacts DEF Elements
  <2>3. /\ \A i \in 1 .. n : found[i] \in FoundStrings
        /\ \A i, j \in 1 .. n : found[i] = found[j] => i = j
        /\ A = {found[i] : i \in 1 .. n}
    BY <2>2 DEF Elements, IsInjective, ToSet
  <2>4. PICK q : q = StringSeq(found)
    OBVIOUS
  <2>5. /\ q \in Seq(ExeRecords) /\ DOMAIN q = 1 .. n
        /\ \A i \in 1 .. n : q[i] = [kind |-> "strings", string |-> found[i]]
    <3>1. q = [i \in 1 .. n |-> [kind |-> "strings", string |-> found[i]]]
      BY <2>2, <2>4 DEF StringSeq
    <3>2. \A i \in 1 .. n : [kind |-> "strings", string |-> found[i]] \in ExeRecords
      BY <2>3 DEF ExeRecords, Kinds
    <3>3. q \in [1 .. n -> ExeRecords]
      BY <3>1, <3>2
    <3>4. q \in Seq(ExeRecords)
      BY <2>2, <3>3
    <3> QED
      BY <3>1, <3>4
  <2>6. IsInjective(q)
    <3>1. ASSUME NEW i \in 1 .. n, NEW j \in 1 .. n, q[i] = q[j]
          PROVE  i = j
      <4>1. found[i] = found[j]
        BY <2>5, <3>1
      <4> QED
        BY <2>3, <4>1
    <3> QED
      BY <2>5, <3>1 DEF IsInjective
  <2>7. ToSet(q) = StringSet(kinds, A)
    <3>1. StringSet(kinds, A) = {[kind |-> "strings", string |-> s] : s \in A}
      BY <1>1 DEF StringSet
    <3>2. ToSet(q) = {q[i] : i \in 1 .. n}
      BY <2>5 DEF ToSet
    <3>3. \A i \in 1 .. n : q[i] \in StringSet(kinds, A)
      BY <2>3, <2>5, <3>1
    <3>4. ASSUME NEW x \in StringSet(kinds, A)
          PROVE  \E i \in 1 .. n : x = q[i]
      <4>1. PICK s \in A : x = [kind |-> "strings", string |-> s]
        BY <3>1
      <4>2. PICK i \in 1 .. n : s = found[i]
        BY <2>3
      <4> QED
        BY <2>5, <4>1, <4>2
    <3> QED
      BY <3>2, <3>3, <3>4
  <2>8. OfKind(kinds, "strings", StringSeq(found)) = q
    BY <1>1, <2>4 DEF OfKind
  <2>9. \A x \in StringSet(kinds, A) : x.kind = "strings"
    BY DEF StringSet
  <2> QED
    BY <2>5, <2>6, <2>7, <2>8, <2>9 DEF Elements
<1>2. CASE "strings" \notin kinds
  <2>1. Elements(<<>>, ExeRecords, {})
    BY DEF Elements, IsInjective, ToSet
  <2> QED
    BY <1>2, <2>1 DEF StringSet, OfKind
<1> QED
  BY <1>1, <1>2

\* All that is asked for is collected, each thing once.
LEMMA CollectedFacts ==
  ASSUME NEW raw, NEW kinds, raw \in Seq(Symbols), kinds \subseteq Kinds
  PROVE  Elements(Collected(raw, kinds), ExeRecords, Asked(raw, kinds))
<1> DEFINE one(kind) == OfKind(kinds, kind, <<[kind |-> kind, string |-> NoString]>>)
           set(kind) == OneRecord(kinds, kind)
<1>1. PICK p1, p2, p3, p4, p6 :
        /\ p1 = one("info") /\ p2 = one("sections") /\ p3 = one("addresses")
        /\ p4 = one("mapping") /\ p6 = one("disassembly")
  OBVIOUS
<1>2. PICK A1, A2, A3, A4, A6 :
        /\ A1 = set("info") /\ A2 = set("sections") /\ A3 = set("addresses")
        /\ A4 = set("mapping") /\ A6 = set("disassembly")
  OBVIOUS
<1>3. PICK found, A : found = Strings(raw) /\ A = StringsOf(raw)
  OBVIOUS
<1>4. PICK p5, A5 : p5 = OfKind(kinds, "strings", StringSeq(found)) /\ A5 = StringSet(kinds, A)
  OBVIOUS
<1>5. Elements(p5, ExeRecords, A5) /\ \A x \in A5 : x.kind = "strings"
  <2>1. Elements(found, FoundStrings, A)
    BY <1>3, StringsFacts
  <2> QED
    BY <1>4, <2>1, StringElements
<1>6. Elements(p1, ExeRecords, A1) /\ \A x \in A1 : x.kind = "info"
  <2>1. PICK kind : kind = "info"
    OBVIOUS
  <2>2. kind \in Kinds
    BY <2>1 DEF Kinds
  <2>3. Elements(one(kind), ExeRecords, set(kind)) /\ \A x \in set(kind) : x.kind = kind
    BY <2>2, OneRecordElements
  <2> QED
    BY <1>1, <1>2, <2>1, <2>3
<1>7. Elements(p2, ExeRecords, A2) /\ \A x \in A2 : x.kind = "sections"
  <2>1. PICK kind : kind = "sections"
    OBVIOUS
  <2>2. kind \in Kinds
    BY <2>1 DEF Kinds
  <2>3. Elements(one(kind), ExeRecords, set(kind)) /\ \A x \in set(kind) : x.kind = kind
    BY <2>2, OneRecordElements
  <2> QED
    BY <1>1, <1>2, <2>1, <2>3
<1>8. Elements(p3, ExeRecords, A3) /\ \A x \in A3 : x.kind = "addresses"
  <2>1. PICK kind : kind = "addresses"
    OBVIOUS
  <2>2. kind \in Kinds
    BY <2>1 DEF Kinds
  <2>3. Elements(one(kind), ExeRecords, set(kind)) /\ \A x \in set(kind) : x.kind = kind
    BY <2>2, OneRecordElements
  <2> QED
    BY <1>1, <1>2, <2>1, <2>3
<1>9. Elements(p4, ExeRecords, A4) /\ \A x \in A4 : x.kind = "mapping"
  <2>1. PICK kind : kind = "mapping"
    OBVIOUS
  <2>2. kind \in Kinds
    BY <2>1 DEF Kinds
  <2>3. Elements(one(kind), ExeRecords, set(kind)) /\ \A x \in set(kind) : x.kind = kind
    BY <2>2, OneRecordElements
  <2> QED
    BY <1>1, <1>2, <2>1, <2>3
<1>10. Elements(p6, ExeRecords, A6) /\ \A x \in A6 : x.kind = "disassembly"
  <2>1. PICK kind : kind = "disassembly"
    OBVIOUS
  <2>2. kind \in Kinds
    BY <2>1 DEF Kinds
  <2>3. Elements(one(kind), ExeRecords, set(kind)) /\ \A x \in set(kind) : x.kind = kind
    BY <2>2, OneRecordElements
  <2> QED
    BY <1>1, <1>2, <2>1, <2>3
<1>11. Collected(raw, kinds) = p1 \o p2 \o p3 \o p4 \o p5 \o p6
  BY <1>1, <1>3, <1>4 DEF Collected, OfKind, StringSeq
<1>12. Elements(p1 \o p2, ExeRecords, A1 \cup A2)
  <2>1. \A x \in A1 : x \notin A2
    BY <1>6, <1>7
  <2> QED
    BY <1>6, <1>7, <2>1, ConcatElements
<1>13. Elements(p1 \o p2 \o p3, ExeRecords, A1 \cup A2 \cup A3)
  <2>1. \A x \in A1 \cup A2 : x \notin A3
    BY <1>6, <1>7, <1>8
  <2> QED
    BY <1>8, <1>12, <2>1, ConcatElements
<1>14. Elements(p1 \o p2 \o p3 \o p4, ExeRecords, A1 \cup A2 \cup A3 \cup A4)
  <2>1. \A x \in A1 \cup A2 \cup A3 : x \notin A4
    BY <1>6, <1>7, <1>8, <1>9
  <2> QED
    BY <1>9, <1>13, <2>1, ConcatElements
<1>15. Elements(p1 \o p2 \o p3 \o p4 \o p5, ExeRecords, A1 \cup A2 \cup A3 \cup A4 \cup A5)
  <2>1. \A x \in A1 \cup A2 \cup A3 \cup A4 : x \notin A5
    BY <1>5, <1>6, <1>7, <1>8, <1>9
  <2> QED
    BY <1>5, <1>14, <2>1, ConcatElements
<1>16. Elements(p1 \o p2 \o p3 \o p4 \o p5 \o p6, ExeRecords,
                A1 \cup A2 \cup A3 \cup A4 \cup A5 \cup A6)
  <2>1. \A x \in A1 \cup A2 \cup A3 \cup A4 \cup A5 : x \notin A6
    BY <1>5, <1>6, <1>7, <1>8, <1>9, <1>10
  <2> QED
    BY <1>10, <1>15, <2>1, ConcatElements
<1>17. Asked(raw, kinds) = A1 \cup A2 \cup A3 \cup A4 \cup A5 \cup A6
  <2>1. PICK Single : Single = {[kind |-> kind, string |-> NoString] :
                                  kind \in kinds \ {"strings"}}
    BY Zenon
  <2>2. Single = A1 \cup A2 \cup A3 \cup A4 \cup A6
    <3>1. \A kind \in kinds \ {"strings"} :
            kind \in {"info", "sections", "addresses", "mapping", "disassembly"}
      BY DEF Kinds
    <3> QED
      BY <1>2, <2>1, <3>1 DEF OneRecord
  <2>3. {[kind |-> "strings", string |-> string] :
           string \in IF "strings" \in kinds THEN A ELSE {}} = A5
    BY <1>4 DEF StringSet
  <2> QED
    BY <1>3, <2>1, <2>2, <2>3 DEF Asked
<1> QED
  BY <1>11, <1>16, <1>17

-----------------------------------------------------------------------------
(* The steps of exe.                                                       *)

ExeContents == Seq(Symbols) \cup Seq(ExeRecords)

ExeStates ==
  [opt : [kinds : SUBSET Kinds, out : Outputs],
   pc : {"read", "collect", "output", "print", "done"},
   disk : ExeContents, output : {<<"old">>} \cup Seq(ExeRecords), raw : Seq(Symbols),
   records : Seq(ExeRecords), printed : Seq(ExeRecords), exit : {-1, 0, 1, 2, 4}]

\* The file that has been read is that on disk.
ExeReadIt(e) == e.disk = e.raw

\* Nothing is printed or written.
ExeSilent(e) == e.printed = <<>> /\ e.output = <<"old">>

ExePhases(e) ==
  /\ e.pc = "read" =>
       e.exit = -1 /\ e.raw = <<>> /\ ExeSilent(e) /\ e.disk \in Seq(Symbols)
  /\ e.pc = "collect" => e.exit = -1 /\ ExeReadIt(e) /\ ExeSilent(e)
  /\ e.pc = "output" =>
       /\ e.exit = -1 /\ ExeReadIt(e) /\ ExeSilent(e)
       /\ e.records = Collected(e.raw, e.opt.kinds)
  /\ e.pc = "print" =>
       /\ e.exit = -1 /\ e.printed = <<>>
       /\ e.opt.out # "link" => ExeReadIt(e)
       /\ e.records = Collected(e.raw, e.opt.kinds)
  /\ e.pc = "done" =>
       /\ e.exit # -1
       /\ e.exit = 0 => e.printed = Collected(e.raw, e.opt.kinds)
       /\ e.exit > 0 => ExeSilent(e)
       /\ e.opt.out # "link" /\ e.raw # <<>> => ExeReadIt(e)

ExeInv ==
  /\ tool = "exe" => exe \in ExeStates /\ ExePhases(exe)
  /\ tool # "exe" => exe.exit = -1 /\ exe.raw = <<>>

LEMMA ExeInitInv == Init => ExeInv
<1> SUFFICES ASSUME Init
             PROVE  ExeInv
  OBVIOUS
<1>1. CASE tool = "exe"
  <2>1. PICK kinds \in ExeKinds, to \in Outputs, file \in ExeFiles :
          exe = ExeStart([kinds |-> kinds, out |-> to], file)
    <3>1. ExeInit
      BY <1>1 DEF Init
    <3> QED
      BY <3>1, SMT DEF ExeInit
  <2>2. PICK opt : opt = [kinds |-> kinds, out |-> to]
    BY Zenon
  <2>3. opt \in [kinds : SUBSET Kinds, out : Outputs]
    BY <2>1, <2>2, ExeAssumption
  <2>4. file \in Seq(Symbols)
    <3>1. file \in Seq(STRING)
      BY <2>1, ExeAssumption
    <3>2. PICK T : T = STRING
      OBVIOUS
    <3>3. T \subseteq Symbols
      BY <3>2 DEF Symbols
    <3>4. file \in Seq(T)
      BY <3>1, <3>2
    <3> QED
      BY <3>3, <3>4
  <2>5. <<>> \in Seq(Symbols) /\ <<>> \in Seq(ExeRecords)
    OBVIOUS
  <2>6. exe = [opt |-> opt, pc |-> "read", disk |-> file, output |-> <<"old">>, raw |-> <<>>,
               records |-> <<>>, printed |-> <<>>, exit |-> -1]
    BY <2>1, <2>2 DEF ExeStart
  <2>7. exe \in ExeStates
    BY <2>3, <2>4, <2>5, <2>6 DEF ExeStates, ExeContents
  <2>8. ExePhases(exe)
    BY <2>4, <2>6 DEF ExePhases, ExeSilent
  <2> QED
    BY <1>1, <2>7, <2>8 DEF ExeInv
<1>2. CASE tool # "exe"
  <2>1. exe = ExeIdle
    BY <1>2 DEF Init
  <2> QED
    BY <1>2, <2>1 DEF ExeIdle, ExeStart, ExeInv
<1> QED
  BY <1>1, <1>2

LEMMA ExeStepInv ==
  ASSUME exe \in ExeStates, ExePhases(exe), ExeStep
  PROVE  exe' \in ExeStates /\ ExePhases(exe')
<1>1. /\ exe.opt \in [kinds : SUBSET Kinds, out : Outputs] /\ exe.raw \in Seq(Symbols)
      /\ exe.records \in Seq(ExeRecords) /\ exe.opt.kinds \subseteq Kinds
  BY DEF ExeStates
<1>2. <<>> \in Seq(Symbols) /\ <<>> \in Seq(ExeRecords) /\ <<>> \in ExeContents
  BY DEF ExeContents
<1>3. ASSUME NEW status \in {1, 2}, ExeEnds(status), exe.pc \in {"read", "collect", "output"}
      PROVE  exe' \in ExeStates /\ ExePhases(exe')
  <2>1. exe' = [exe EXCEPT !.pc = "done", !.exit = status]
    BY <1>3 DEF ExeEnds
  <2>2. /\ exe' \in ExeStates /\ exe'.pc = "done" /\ exe'.exit = status /\ exe'.opt = exe.opt
        /\ exe'.raw = exe.raw /\ exe'.disk = exe.disk /\ exe'.output = exe.output
        /\ exe'.printed = exe.printed
    BY <2>1, Zenon DEF ExeStates
  <2>3. ExeSilent(exe) /\ (exe.raw # <<>> => ExeReadIt(exe))
    BY <1>3 DEF ExePhases
  <2> QED
    BY <2>2, <2>3 DEF ExePhases, ExeSilent, ExeReadIt
<1>4. CASE ExeRead
  <2>1. CASE ExeEnds(2)
    BY <1>3, <1>4, <2>1 DEF ExeRead
  <2>2. CASE exe' = [exe EXCEPT !.pc = "collect", !.raw = exe.disk]
    <3>1. exe.pc = "read"
      BY <1>4 DEF ExeRead
    <3>2. exe.exit = -1 /\ ExeSilent(exe) /\ exe.disk \in Seq(Symbols)
      BY <3>1 DEF ExePhases
    <3>3. /\ exe' \in ExeStates /\ exe'.pc = "collect" /\ exe'.exit = exe.exit
          /\ exe'.raw = exe.disk /\ exe'.disk = exe.disk /\ exe'.output = exe.output
          /\ exe'.printed = exe.printed
      BY <2>2, <3>2, Zenon DEF ExeStates
    <3> QED
      BY <3>2, <3>3 DEF ExePhases, ExeSilent, ExeReadIt
  <2> QED
    BY <1>4, <2>1, <2>2 DEF ExeRead
<1>5. CASE ExeCollect
  <2>1. CASE ExeEnds(1)
    BY <1>3, <1>5, <2>1 DEF ExeCollect
  <2>2. CASE exe' = [exe EXCEPT !.pc = "output", !.records = Collected(exe.raw, exe.opt.kinds)]
    <3>1. exe.pc = "collect"
      BY <1>5 DEF ExeCollect
    <3>2. exe.exit = -1 /\ ExeSilent(exe) /\ ExeReadIt(exe)
      BY <3>1 DEF ExePhases
    <3>3. PICK records : records = Collected(exe.raw, exe.opt.kinds)
      OBVIOUS
    <3>4. records \in Seq(ExeRecords)
      BY <1>1, <3>3, CollectedFacts DEF Elements
    <3>5. exe' = [exe EXCEPT !.pc = "output", !.records = records]
      BY <2>2, <3>3
    <3>6. /\ exe' \in ExeStates /\ exe'.pc = "output" /\ exe'.exit = exe.exit
          /\ exe'.opt = exe.opt /\ exe'.raw = exe.raw /\ exe'.disk = exe.disk
          /\ exe'.output = exe.output /\ exe'.printed = exe.printed
          /\ exe'.records = records
      BY <3>4, <3>5, Zenon DEF ExeStates
    <3> QED
      BY <3>2, <3>3, <3>6 DEF ExePhases, ExeSilent, ExeReadIt
  <2> QED
    BY <1>5, <2>1, <2>2 DEF ExeCollect
<1>6. CASE OpenOutput
  <2>1. /\ exe.pc = "output"
        /\ exe' = CASE exe.opt.out = "same" -> [exe EXCEPT !.pc = "done", !.exit = 4]
                    [] exe.opt.out = "directory" -> [exe EXCEPT !.pc = "done", !.exit = 2]
                    [] exe.opt.out = "link" -> [exe EXCEPT !.pc = "print", !.disk = <<>>]
                    [] exe.opt.out = "other" -> [exe EXCEPT !.pc = "print", !.output = <<>>]
                    [] OTHER -> [exe EXCEPT !.pc = "print"]
    BY <1>6 DEF OpenOutput
  <2>2. /\ exe.exit = -1 /\ ExeReadIt(exe) /\ ExeSilent(exe)
        /\ exe.records = Collected(exe.raw, exe.opt.kinds)
    BY <2>1 DEF ExePhases
  <2>3. CASE exe.opt.out \in {"same", "directory"}
    <3>1. exe' = [exe EXCEPT !.pc = "done", !.exit = 4]
            \/ exe' = [exe EXCEPT !.pc = "done", !.exit = 2]
      BY <2>1, <2>3
    <3>2. /\ exe' \in ExeStates /\ exe'.pc = "done" /\ exe'.exit \in {2, 4}
          /\ exe'.opt = exe.opt /\ exe'.raw = exe.raw /\ exe'.disk = exe.disk
          /\ exe'.output = exe.output /\ exe'.printed = exe.printed
      <4>1. CASE exe' = [exe EXCEPT !.pc = "done", !.exit = 4]
        BY <4>1, Zenon DEF ExeStates
      <4>2. CASE exe' = [exe EXCEPT !.pc = "done", !.exit = 2]
        BY <4>2, Zenon DEF ExeStates
      <4> QED
        BY <3>1, <4>1, <4>2
    <3> QED
      BY <2>2, <3>2 DEF ExePhases, ExeSilent, ExeReadIt
  <2>4. CASE exe.opt.out = "link"
    <3>1. exe' = [exe EXCEPT !.pc = "print", !.disk = <<>>]
      BY <2>1, <2>4
    <3>2. /\ exe' \in ExeStates /\ exe'.pc = "print" /\ exe'.exit = exe.exit
          /\ exe'.opt = exe.opt /\ exe'.raw = exe.raw /\ exe'.records = exe.records
          /\ exe'.printed = exe.printed
      BY <1>2, <3>1, Zenon DEF ExeStates
    <3> QED
      BY <2>2, <2>4, <3>2 DEF ExePhases, ExeSilent
  <2>5. CASE exe.opt.out \in {"other", "stdout"}
    <3>1. exe' = [exe EXCEPT !.pc = "print", !.output = <<>>]
            \/ exe' = [exe EXCEPT !.pc = "print"]
      BY <2>1, <2>5
    <3>2. /\ exe' \in ExeStates /\ exe'.pc = "print" /\ exe'.exit = exe.exit
          /\ exe'.opt = exe.opt /\ exe'.raw = exe.raw /\ exe'.records = exe.records
          /\ exe'.printed = exe.printed /\ exe'.disk = exe.disk
      <4>1. CASE exe' = [exe EXCEPT !.pc = "print", !.output = <<>>]
        BY <1>2, <4>1, Zenon DEF ExeStates
      <4>2. CASE exe' = [exe EXCEPT !.pc = "print"]
        BY <4>2, Zenon DEF ExeStates
      <4> QED
        BY <3>1, <4>1, <4>2
    <3> QED
      BY <2>2, <3>2 DEF ExePhases, ExeSilent, ExeReadIt
  <2> QED
    BY <1>1, <2>3, <2>4, <2>5 DEF Outputs
<1>7. CASE OpenFails
  BY <1>3, <1>7 DEF OpenFails
<1>8. CASE ExePrint
  <2>1. /\ exe.pc = "print"
        /\ exe' = [exe EXCEPT !.pc = "done", !.exit = 0, !.printed = exe.records,
                     !.output = IF exe.opt.out = "other" THEN exe.records ELSE @,
                     !.disk = IF exe.opt.out = "link" THEN exe.records ELSE @]
    BY <1>8 DEF ExePrint
  <2>2. /\ exe.opt.out # "link" => ExeReadIt(exe)
        /\ exe.records = Collected(exe.raw, exe.opt.kinds)
    BY <2>1 DEF ExePhases
  <2>3. exe.records \in ExeContents
    BY <1>1 DEF ExeContents
  <2>4. /\ exe' \in ExeStates /\ exe'.pc = "done" /\ exe'.exit = 0
        /\ exe'.opt = exe.opt /\ exe'.raw = exe.raw /\ exe'.printed = exe.records
        /\ exe.opt.out # "link" => exe'.disk = exe.disk
    BY <1>1, <2>1, <2>3, Zenon DEF ExeStates
  <2> QED
    BY <2>2, <2>4 DEF ExePhases, ExeReadIt
<1> QED
  BY <1>4, <1>5, <1>6, <1>7, <1>8 DEF ExeStep

LEMMA ExeInvSound == ExeInv => ExeIsSound
<1> SUFFICES ASSUME ExeInv
             PROVE  ExeIsSound
  OBVIOUS
<1>1. CASE tool = "exe"
  <2>1. exe \in ExeStates /\ ExePhases(exe)
    BY <1>1 DEF ExeInv
  <2>2. exe.raw \in Seq(Symbols) /\ exe.opt.kinds \subseteq Kinds /\ exe.exit \in {-1, 0, 1, 2, 4}
    BY <2>1 DEF ExeStates
  <2>3. exe.pc \in {"read", "collect", "output", "print", "done"}
    BY <2>1 DEF ExeStates
  <2>4. /\ exe.exit # -1 => exe.pc = "done"
        /\ exe.exit = 0 => exe.printed = Collected(exe.raw, exe.opt.kinds)
        /\ exe.exit > 0 => ExeSilent(exe)
        /\ exe.opt.out # "link" /\ exe.raw # <<>> => ExeReadIt(exe)
    BY <2>1, <2>2, <2>3 DEF ExePhases
  <2>5. ASSUME exe.exit = 0
        PROVE  IsInjective(exe.printed) /\ ToSet(exe.printed) = Asked(exe.raw, exe.opt.kinds)
    <3>1. PICK raw, kinds : raw = exe.raw /\ kinds = exe.opt.kinds
      OBVIOUS
    <3>2. Elements(Collected(raw, kinds), ExeRecords, Asked(raw, kinds))
      BY <2>2, <3>1, CollectedFacts
    <3> QED
      BY <2>4, <2>5, <3>1, <3>2 DEF Elements
  <2> QED
    BY <2>4, <2>5 DEF ExeIsSound, ExeSilent, ExeReadIt
<1>2. CASE tool # "exe"
  BY <1>2 DEF ExeInv, ExeIsSound
<1> QED
  BY <1>1, <1>2

\* What exe prints has every string of at least four printable characters, in ASCII and in
\* both orders of UTF-16, as long as it is and once, and everything else asked for; a call
\* that fails prints nothing and leaves the output as it was; the executable is not changed
\* but by a hard link: for files of any length and any kinds of information.
THEOREM ExeSound == Spec => []ExeIsSound
<1>1. Init => ExeInv
  BY ExeInitInv
<1>2. ExeInv /\ [Next]_vars => ExeInv'
  <2> SUFFICES ASSUME ExeInv, [Next]_vars
               PROVE  ExeInv'
    OBVIOUS
  <2>1. CASE RunExe
    <3>1. tool = "exe" /\ tool' = tool /\ ExeStep
      BY <2>1 DEF RunExe, Rest
    <3>2. exe' \in ExeStates /\ ExePhases(exe')
      BY <3>1, ExeStepInv DEF ExeInv
    <3> QED
      BY <3>1, <3>2 DEF ExeInv
  <2>2. CASE UNCHANGED <<tool, exe>>
    BY <2>2 DEF ExeInv
  <2> QED
    BY <2>1, <2>2 DEF Next, vars, files, Rest, RunBuniq, RunFill, RunKp, RunBhxx, RunBpatch,
                      RunBgrep, RunFurl, RunSplitMerge
<1> QED
  BY <1>1, <1>2, ExeInvSound, PTL DEF Spec

-----------------------------------------------------------------------------
(* kp: matches, replacements and lines as functions of how far they are read.*)

LEMMA FoundType ==
  ASSUME NEW found, NEW line, NEW i, NEW expr, NEW o, found \in Seq(Nat), i \in Nat
  PROVE  NextMatch(found, line, i, expr, o) \in Seq(Nat)
<1>1. Append(found, i) \in Seq(Nat)
  OBVIOUS
<1> QED
  BY <1>1 DEF NextMatch

NoMatches == <<>>

MatchesRun(f, line, expr, o) ==
  /\ Matches(line, expr, o) = f[Len(line)]
  /\ f[0] = NoMatches
  /\ \A n \in 0 .. Len(line) : f[n] \in Seq(Nat)
  /\ \A n \in 0 .. Len(line) - 1 : f[n + 1] = NextMatch(f[n], line, n + 1, expr, o)

LEMMA MatchesFunction ==
  ASSUME NEW line, NEW expr, NEW o, Len(line) \in Nat
  PROVE  \E f : MatchesRun(f, line, expr, o)
<1> DEFINE last == Len(line)
           B == Seq(Nat)
           Body(f, i) == IF i = 0 THEN NoMatches ELSE NextMatch(f[i - 1], line, i, expr, o)
           upTo == CHOOSE f : f = [i \in 0 .. last |-> Body(f, i)]
           step == [p \in (0 .. last) \X B |->
                      IF p[1] < last THEN NextMatch(p[2], line, p[1] + 1, expr, o) ELSE p[2]]
<1>1. last \in Nat
  OBVIOUS
<1>2. ASSUME NEW n \in 0 .. last, NEW a \in B
      PROVE  /\ step[<<n, a>>] \in B
             /\ n < last => step[<<n, a>>] = NextMatch(a, line, n + 1, expr, o)
  <2>1. <<n, a>> \in (0 .. last) \X B
    OBVIOUS
  <2>2. step[<<n, a>>] = IF n < last THEN NextMatch(a, line, n + 1, expr, o) ELSE a
    BY <2>1
  <2>3. n < last => n + 1 \in 1 .. last /\ n + 1 \in Nat
    BY <1>1
  <2>4. n < last => NextMatch(a, line, n + 1, expr, o) \in B
    BY <2>3, FoundType
  <2> HIDE DEF step, B
  <2> QED
    BY <2>2, <2>4
<1>3. Steps(B, NoMatches, step, 0, last)
  <2>1. NoMatches \in B
    BY DEF NoMatches
  <2> HIDE DEF step, B
  <2>2. 0 \in Nat /\ last \in Nat /\ 0 <= last
    BY <1>1
  <2>3. \A n \in 0 .. last : \A a \in B : step[<<n, a>>] \in B
    BY <1>2
  <2> QED
    BY <2>1, <2>2, <2>3, Zenon DEF Steps
<1>4. PICK g : Follows(g, B, NoMatches, step, 0, last)
  <2> HIDE DEF step, B, last
  <2> QED
    BY <1>3, Recursion, Zenon
<1>5. /\ g \in [0 .. last -> B] /\ g[0] = NoMatches
      /\ \A n \in 0 .. last - 1 : g[n + 1] = NextMatch(g[n], line, n + 1, expr, o)
  <2> HIDE DEF step, B
  <2>1. g \in [0 .. last -> B] /\ g[0] = NoMatches
    BY <1>4 DEF Follows
  <2>2. ASSUME NEW n \in 0 .. last - 1
        PROVE  g[n + 1] = NextMatch(g[n], line, n + 1, expr, o)
    <3>1. g[n + 1] = step[<<n, g[n]>>]
      BY <1>4, <2>2 DEF Follows
    <3>2. n \in 0 .. last /\ n < last /\ g[n] \in B
      BY <1>1, <2>1
    <3> QED
      BY <3>1, <3>2, <1>2
  <2> QED
    BY <2>1, <2>2
<1>6. g = [i \in 0 .. last |-> Body(g, i)]
  <2>1. ASSUME NEW i \in 0 .. last
        PROVE  g[i] = Body(g, i)
    <3>1. CASE i = 0
      BY <3>1, <1>5
    <3>2. CASE i # 0
      <4>1. PICK n : n = i - 1
        OBVIOUS
      <4>2. n \in 0 .. last - 1 /\ i = n + 1
        BY <3>2, <4>1, <1>1
      <4>3. g[n + 1] = NextMatch(g[n], line, n + 1, expr, o)
        BY <4>2, <1>5
      <4> QED
        BY <3>2, <4>1, <4>2, <4>3
    <3> QED
      BY <3>1, <3>2
  <2> HIDE DEF Body, B
  <2> QED
    BY <2>1, <1>5
<1>7. upTo = [i \in 0 .. last |-> Body(upTo, i)]
  BY <1>6
<1>8. Matches(line, expr, o) = upTo[last]
  BY DEF Matches, NoMatches
<1>9. /\ upTo[0] = NoMatches
      /\ \A n \in 0 .. last - 1 : upTo[n + 1] = NextMatch(upTo[n], line, n + 1, expr, o)
  <2> HIDE DEF upTo
  <2>1. upTo[0] = NoMatches
    BY <1>1, <1>7
  <2>2. ASSUME NEW n \in 0 .. last - 1
        PROVE  upTo[n + 1] = NextMatch(upTo[n], line, n + 1, expr, o)
    <3>1. n + 1 \in 0 .. last /\ n + 1 # 0 /\ (n + 1) - 1 = n
      BY <1>1
    <3>2. upTo[n + 1] = Body(upTo, n + 1)
      BY <1>7, <3>1
    <3> QED
      BY <3>1, <3>2
  <2> QED
    BY <2>1, <2>2
<1>10. \A n \in 0 .. last : upTo[n] \in B
  <2> DEFINE G == {n \in Nat : upTo[n] \in B}
  <2> HIDE DEF upTo, step, B, last
  <2>1. 0 \in G
    BY <1>3, <1>9 DEF Steps
  <2>2. ASSUME NEW n \in 0 .. last - 1, n \in G
        PROVE  n + 1 \in G
    <3>1. n \in 0 .. last /\ n < last /\ upTo[n] \in B /\ n + 1 \in Nat
      BY <1>1, <2>2
    <3>2. step[<<n, upTo[n]>>] = upTo[n + 1] /\ step[<<n, upTo[n]>>] \in B
      BY <3>1, <1>2, <1>9
    <3> QED
      BY <3>1, <3>2
  <2>3. PICK first : first = 0
    OBVIOUS
  <2> HIDE DEF G
  <2>4. Inductive(G, first, last)
    BY <1>1, <2>1, <2>2, <2>3 DEF Inductive
  <2>5. \A n \in first .. last : n \in G
    BY <2>4, RangeInduction
  <2> QED
    BY <2>3, <2>5 DEF G
<1> HIDE DEF upTo
<1>11. MatchesRun(upTo, line, expr, o)
  BY <1>8, <1>9, <1>10 DEF MatchesRun
<1> QED
  BY <1>11

\* What is held while a replacement is read.
FormatStates(T) == [text : Seq(T), dollar : BOOLEAN]

NoFormat == [text |-> <<>>, dollar |-> FALSE]

LEMMA FormatCharType ==
  ASSUME NEW T, NEW acc, NEW c, acc \in FormatStates(T), c \in T
  PROVE  FormatChar(acc, c) \in FormatStates(T)
<1>1. acc.text \in Seq(T) /\ Append(acc.text, c) \in Seq(T)
  BY DEF FormatStates
<1> QED
  BY <1>1, Zenon DEF FormatChar, FormatStates

FormattedRun(f, format, T) ==
  /\ Formatted(format) = f[Len(format)].text
  /\ f[0] = NoFormat
  /\ \A n \in 0 .. Len(format) : f[n] \in FormatStates(T)
  /\ \A n \in 0 .. Len(format) - 1 : f[n + 1] = FormatChar(f[n], format[n + 1])

LEMMA FormattedFunction ==
  ASSUME NEW T, NEW format, format \in Seq(T)
  PROVE  \E f : FormattedRun(f, format, T)
<1> DEFINE last == Len(format)
           B == FormatStates(T)
           Body(f, i) == IF i = 0 THEN NoFormat ELSE FormatChar(f[i - 1], format[i])
           upTo == CHOOSE f : f = [i \in 0 .. last |-> Body(f, i)]
           step == [p \in (0 .. last) \X B |->
                      IF p[1] < last THEN FormatChar(p[2], format[p[1] + 1]) ELSE p[2]]
<1>1. last \in Nat /\ \A i \in 1 .. last : format[i] \in T
  BY SeqFacts
<1>2. ASSUME NEW n \in 0 .. last, NEW a \in B
      PROVE  /\ step[<<n, a>>] \in B
             /\ n < last => step[<<n, a>>] = FormatChar(a, format[n + 1])
  <2>1. <<n, a>> \in (0 .. last) \X B
    OBVIOUS
  <2>2. step[<<n, a>>] = IF n < last THEN FormatChar(a, format[n + 1]) ELSE a
    BY <2>1
  <2>3. n < last => n + 1 \in 1 .. last /\ n + 1 \in Nat
    BY <1>1
  <2>4. n < last => FormatChar(a, format[n + 1]) \in B
    BY <1>1, <2>3, FormatCharType
  <2> HIDE DEF step, B
  <2> QED
    BY <2>2, <2>4
<1>3. Steps(B, NoFormat, step, 0, last)
  <2>1. NoFormat \in B
    BY DEF NoFormat, FormatStates
  <2> HIDE DEF step, B
  <2>2. 0 \in Nat /\ last \in Nat /\ 0 <= last
    BY <1>1
  <2>3. \A n \in 0 .. last : \A a \in B : step[<<n, a>>] \in B
    BY <1>2
  <2> QED
    BY <2>1, <2>2, <2>3, Zenon DEF Steps
<1>4. PICK g : Follows(g, B, NoFormat, step, 0, last)
  <2> HIDE DEF step, B, last
  <2> QED
    BY <1>3, Recursion, Zenon
<1>5. /\ g \in [0 .. last -> B] /\ g[0] = NoFormat
      /\ \A n \in 0 .. last - 1 : g[n + 1] = FormatChar(g[n], format[n + 1])
  <2> HIDE DEF step, B
  <2>1. g \in [0 .. last -> B] /\ g[0] = NoFormat
    BY <1>4 DEF Follows
  <2>2. ASSUME NEW n \in 0 .. last - 1
        PROVE  g[n + 1] = FormatChar(g[n], format[n + 1])
    <3>1. g[n + 1] = step[<<n, g[n]>>]
      BY <1>4, <2>2 DEF Follows
    <3>2. n \in 0 .. last /\ n < last /\ g[n] \in B
      BY <1>1, <2>1
    <3> QED
      BY <3>1, <3>2, <1>2
  <2> QED
    BY <2>1, <2>2
<1>6. g = [i \in 0 .. last |-> Body(g, i)]
  <2>1. ASSUME NEW i \in 0 .. last
        PROVE  g[i] = Body(g, i)
    <3>1. CASE i = 0
      BY <3>1, <1>5
    <3>2. CASE i # 0
      <4>1. PICK n : n = i - 1
        OBVIOUS
      <4>2. n \in 0 .. last - 1 /\ i = n + 1
        BY <3>2, <4>1, <1>1
      <4>3. g[n + 1] = FormatChar(g[n], format[n + 1])
        BY <4>2, <1>5
      <4> QED
        BY <3>2, <4>1, <4>2, <4>3
    <3> QED
      BY <3>1, <3>2
  <2> HIDE DEF Body, B
  <2> QED
    BY <2>1, <1>5
<1>7. upTo = [i \in 0 .. last |-> Body(upTo, i)]
  BY <1>6, Zenon
<1>8. Formatted(format) = upTo[last].text
  BY DEF Formatted, NoFormat
<1>9. /\ upTo[0] = NoFormat
      /\ \A n \in 0 .. last - 1 : upTo[n + 1] = FormatChar(upTo[n], format[n + 1])
  <2> HIDE DEF upTo
  <2>1. upTo[0] = NoFormat
    BY <1>1, <1>7
  <2>2. ASSUME NEW n \in 0 .. last - 1
        PROVE  upTo[n + 1] = FormatChar(upTo[n], format[n + 1])
    <3>1. n + 1 \in 0 .. last /\ n + 1 # 0 /\ (n + 1) - 1 = n
      BY <1>1
    <3>2. upTo[n + 1] = Body(upTo, n + 1)
      BY <1>7, <3>1
    <3> QED
      BY <3>1, <3>2
  <2> QED
    BY <2>1, <2>2
<1>10. \A n \in 0 .. last : upTo[n] \in B
  <2> DEFINE G == {n \in Nat : upTo[n] \in B}
  <2> HIDE DEF upTo, step, B, last
  <2>1. 0 \in G
    BY <1>3, <1>9 DEF Steps
  <2>2. ASSUME NEW n \in 0 .. last - 1, n \in G
        PROVE  n + 1 \in G
    <3>1. n \in 0 .. last /\ n < last /\ upTo[n] \in B /\ n + 1 \in Nat
      BY <1>1, <2>2
    <3>2. step[<<n, upTo[n]>>] = upTo[n + 1] /\ step[<<n, upTo[n]>>] \in B
      BY <3>1, <1>2, <1>9
    <3> QED
      BY <3>1, <3>2
  <2>3. PICK first : first = 0
    OBVIOUS
  <2> HIDE DEF G
  <2>4. Inductive(G, first, last)
    BY <1>1, <2>1, <2>2, <2>3 DEF Inductive
  <2>5. \A n \in first .. last : n \in G
    BY <2>4, RangeInduction
  <2> QED
    BY <2>3, <2>5 DEF G
<1> HIDE DEF upTo
<1>11. FormattedRun(upTo, format, T)
  BY <1>8, <1>9, <1>10 DEF FormattedRun
<1> QED
  BY <1>11

\* What is held while the lines of a text are read.
SplitStates(T) == [done : Seq(Seq(T)), line : Seq(T)]

NoLines == [done |-> <<>>, line |-> <<>>]

\* The lines of a text whose characters have been read.
LinesOf(acc) == IF acc.line = <<>> THEN acc.done ELSE Append(acc.done, acc.line)

LEMMA SplitCharType ==
  ASSUME NEW T, NEW acc, NEW c, acc \in SplitStates(T), c \in T \cup {"nl"}
  PROVE  SplitChar(acc, c) \in SplitStates(T)
<1>1. acc.line \in Seq(T) /\ acc.done \in Seq(Seq(T))
  BY DEF SplitStates
<1>2. (c # "nl" => Append(acc.line, c) \in Seq(T)) /\ <<>> \in Seq(T)
  BY <1>1
<1>3. Append(acc.done, acc.line) \in Seq(Seq(T))
  <2>1. PICK B : B = Seq(T)
    OBVIOUS
  <2> QED
    BY <1>1, <2>1
<1> QED
  BY <1>1, <1>2, <1>3, Zenon DEF SplitChar, SplitStates

SplitRun(f, s, T) ==
  /\ SplitLines(s) = LinesOf(f[Len(s)])
  /\ f[0] = NoLines
  /\ \A n \in 0 .. Len(s) : f[n] \in SplitStates(T)
  /\ \A n \in 0 .. Len(s) - 1 : f[n + 1] = SplitChar(f[n], s[n + 1])

LEMMA SplitFunction ==
  ASSUME NEW T, NEW s, s \in Seq(T \cup {"nl"})
  PROVE  \E f : SplitRun(f, s, T)
<1> DEFINE last == Len(s)
           B == SplitStates(T)
           Body(f, i) == IF i = 0 THEN NoLines ELSE SplitChar(f[i - 1], s[i])
           upTo == CHOOSE f : f = [i \in 0 .. last |-> Body(f, i)]
           step == [p \in (0 .. last) \X B |->
                      IF p[1] < last THEN SplitChar(p[2], s[p[1] + 1]) ELSE p[2]]
<1>1. last \in Nat /\ \A i \in 1 .. last : s[i] \in T \cup {"nl"}
  BY SeqFacts
<1>2. ASSUME NEW n \in 0 .. last, NEW a \in B
      PROVE  /\ step[<<n, a>>] \in B
             /\ n < last => step[<<n, a>>] = SplitChar(a, s[n + 1])
  <2>1. <<n, a>> \in (0 .. last) \X B
    OBVIOUS
  <2>2. step[<<n, a>>] = IF n < last THEN SplitChar(a, s[n + 1]) ELSE a
    BY <2>1
  <2>3. n < last => n + 1 \in 1 .. last /\ n + 1 \in Nat
    BY <1>1
  <2>4. n < last => SplitChar(a, s[n + 1]) \in B
    BY <1>1, <2>3, SplitCharType
  <2> HIDE DEF step, B
  <2> QED
    BY <2>2, <2>4
<1>3. Steps(B, NoLines, step, 0, last)
  <2>1. NoLines \in B
    BY DEF NoLines, SplitStates
  <2> HIDE DEF step, B
  <2>2. 0 \in Nat /\ last \in Nat /\ 0 <= last
    BY <1>1
  <2>3. \A n \in 0 .. last : \A a \in B : step[<<n, a>>] \in B
    BY <1>2
  <2> QED
    BY <2>1, <2>2, <2>3, Zenon DEF Steps
<1>4. PICK g : Follows(g, B, NoLines, step, 0, last)
  <2> HIDE DEF step, B, last
  <2> QED
    BY <1>3, Recursion, Zenon
<1>5. /\ g \in [0 .. last -> B] /\ g[0] = NoLines
      /\ \A n \in 0 .. last - 1 : g[n + 1] = SplitChar(g[n], s[n + 1])
  <2> HIDE DEF step, B
  <2>1. g \in [0 .. last -> B] /\ g[0] = NoLines
    BY <1>4 DEF Follows
  <2>2. ASSUME NEW n \in 0 .. last - 1
        PROVE  g[n + 1] = SplitChar(g[n], s[n + 1])
    <3>1. g[n + 1] = step[<<n, g[n]>>]
      BY <1>4, <2>2 DEF Follows
    <3>2. n \in 0 .. last /\ n < last /\ g[n] \in B
      BY <1>1, <2>1
    <3> QED
      BY <3>1, <3>2, <1>2
  <2> QED
    BY <2>1, <2>2
<1>6. g = [i \in 0 .. last |-> Body(g, i)]
  <2>1. ASSUME NEW i \in 0 .. last
        PROVE  g[i] = Body(g, i)
    <3>1. CASE i = 0
      BY <3>1, <1>5
    <3>2. CASE i # 0
      <4>1. PICK n : n = i - 1
        OBVIOUS
      <4>2. n \in 0 .. last - 1 /\ i = n + 1
        BY <3>2, <4>1, <1>1
      <4>3. g[n + 1] = SplitChar(g[n], s[n + 1])
        BY <4>2, <1>5
      <4> QED
        BY <3>2, <4>1, <4>2, <4>3
    <3> QED
      BY <3>1, <3>2
  <2> HIDE DEF Body, B
  <2> QED
    BY <2>1, <1>5
<1>7. upTo = [i \in 0 .. last |-> Body(upTo, i)]
  BY <1>6, Zenon
<1>8. SplitLines(s) = LinesOf(upTo[last])
  BY DEF SplitLines, NoLines, LinesOf
<1>9. /\ upTo[0] = NoLines
      /\ \A n \in 0 .. last - 1 : upTo[n + 1] = SplitChar(upTo[n], s[n + 1])
  <2> HIDE DEF upTo
  <2>1. upTo[0] = NoLines
    BY <1>1, <1>7
  <2>2. ASSUME NEW n \in 0 .. last - 1
        PROVE  upTo[n + 1] = SplitChar(upTo[n], s[n + 1])
    <3>1. n + 1 \in 0 .. last /\ n + 1 # 0 /\ (n + 1) - 1 = n
      BY <1>1
    <3>2. upTo[n + 1] = Body(upTo, n + 1)
      BY <1>7, <3>1
    <3> QED
      BY <3>1, <3>2
  <2> QED
    BY <2>1, <2>2
<1>10. \A n \in 0 .. last : upTo[n] \in B
  <2> DEFINE G == {n \in Nat : upTo[n] \in B}
  <2> HIDE DEF upTo, step, B, last
  <2>1. 0 \in G
    BY <1>3, <1>9 DEF Steps
  <2>2. ASSUME NEW n \in 0 .. last - 1, n \in G
        PROVE  n + 1 \in G
    <3>1. n \in 0 .. last /\ n < last /\ upTo[n] \in B /\ n + 1 \in Nat
      BY <1>1, <2>2
    <3>2. step[<<n, upTo[n]>>] = upTo[n + 1] /\ step[<<n, upTo[n]>>] \in B
      BY <3>1, <1>2, <1>9
    <3> QED
      BY <3>1, <3>2
  <2>3. PICK first : first = 0
    OBVIOUS
  <2> HIDE DEF G
  <2>4. Inductive(G, first, last)
    BY <1>1, <2>1, <2>2, <2>3 DEF Inductive
  <2>5. \A n \in first .. last : n \in G
    BY <2>4, RangeInduction
  <2> QED
    BY <2>3, <2>5 DEF G
<1> HIDE DEF upTo
<1>11. SplitRun(upTo, s, T)
  BY <1>8, <1>9, <1>10 DEF SplitRun
<1> QED
  BY <1>11

-----------------------------------------------------------------------------
(* The occurrences that kp replaces.                                       *)

\* The occurrences of OLD in a line, and what of them may be replaced: no two that
\* overlap, and all but what overlaps an earlier one.
AllAt(line, o) == {i \in DOMAIN line : OccursAt(line, i, o)}

Greedy(g, all, n) ==
  /\ g \subseteq all
  /\ \A i, j \in g : i < j => i + n <= j
  /\ \A i \in all \ g : \E j \in g : j < i /\ i < j + n

\* There is only one such set.
LEMMA GreedyBelow ==
  ASSUME NEW g, NEW h, NEW all, NEW n, NEW last, Greedy(g, all, n), Greedy(h, all, n),
         last \in Nat, all \subseteq 1 .. last, n \in Nat
  PROVE  \A k \in 0 .. last : \A i \in all : i <= k => (i \in g <=> i \in h)
<1> DEFINE G == {k \in Nat : \A i \in all : i <= k => (i \in g <=> i \in h)}
<1>1. 0 \in G
  OBVIOUS
<1>2. ASSUME NEW k \in 0 .. last - 1, k \in G
      PROVE  k + 1 \in G
  <2>1. ASSUME NEW x, NEW y, Greedy(x, all, n), Greedy(y, all, n),
               \A i \in all : i <= k => (i \in x <=> i \in y), k + 1 \in x
        PROVE  k + 1 \in y
    <3>1. SUFFICES ASSUME k + 1 \notin y
                   PROVE  FALSE
      OBVIOUS
    <3>2. k + 1 \in all \ y
      BY <2>1, <3>1 DEF Greedy
    <3>3. PICK j \in y : j < k + 1 /\ k + 1 < j + n
      BY <2>1, <3>2 DEF Greedy
    <3>4. j \in all /\ j \in Nat /\ j <= k
      BY <2>1, <3>3 DEF Greedy
    <3>5. j \in x
      BY <2>1, <3>4
    <3>6. j + n <= k + 1
      BY <2>1, <3>3, <3>5 DEF Greedy
    <3> QED
      BY <3>3, <3>4, <3>6
  <2>2. \A i \in all : i <= k => (i \in g <=> i \in h)
    BY <1>2
  <2>3. k + 1 \in g <=> k + 1 \in h
    BY <2>1, <2>2
  <2>4. ASSUME NEW i \in all, i <= k + 1
        PROVE  i \in g <=> i \in h
    <3>1. i \in Nat
      OBVIOUS
    <3>2. CASE i <= k
      BY <2>2, <3>2
    <3>3. CASE ~(i <= k)
      <4>1. i = k + 1
        BY <2>4, <3>1, <3>3
      <4> QED
        BY <2>3, <4>1
    <3> QED
      BY <3>2, <3>3
  <2> QED
    BY <2>4
<1> HIDE DEF G
<1>3. PICK first : first = 0
  OBVIOUS
<1>4. Inductive(G, first, last)
  BY <1>1, <1>2, <1>3 DEF Inductive
<1>5. \A k \in first .. last : k \in G
  BY <1>4, RangeInduction
<1> QED
  BY <1>3, <1>5 DEF G

LEMMA GreedyUnique ==
  ASSUME NEW g, NEW h, NEW all, NEW n, NEW last, Greedy(g, all, n), Greedy(h, all, n),
         last \in Nat, all \subseteq 1 .. last, n \in Nat
  PROVE  g = h
<1>1. \A k \in 0 .. last : \A i \in all : i <= k => (i \in g <=> i \in h)
  BY GreedyBelow, Zenon
<1>2. \A i \in all : i <= last
  OBVIOUS
<1>3. \A i \in all : i \in g <=> i \in h
  BY <1>1, <1>2
<1> QED
  BY <1>3, Zenon DEF Greedy

\* The matches found up to k, one after the other.
Listing(found, k, all, n) ==
  /\ found \in Seq(Nat)
  /\ \A a \in 1 .. Len(found) : found[a] \in all /\ found[a] <= k
  /\ \A a, b \in 1 .. Len(found) : a < b => found[a] + n <= found[b]
  /\ \A i \in all : i <= k => \E a \in 1 .. Len(found) : found[a] <= i /\ i < found[a] + n

\* A match is found if it does not overlap the last one.
LEMMA ListingStep ==
  ASSUME NEW found, NEW k, NEW all, NEW n, NEW next, Listing(found, k, all, n), k \in Nat,
         n \in Nat \ {0}, all \subseteq Nat,
         next = IF k + 1 \in all /\ (found # <<>> => Last(found) + n <= k + 1)
                THEN Append(found, k + 1) ELSE found
  PROVE  Listing(next, k + 1, all, n)
<1>1. PICK m : m = Len(found)
  OBVIOUS
<1>2. /\ m \in Nat /\ found \in Seq(Nat)
      /\ \A a \in 1 .. m : found[a] \in all /\ found[a] <= k /\ found[a] \in Nat
      /\ \A a, b \in 1 .. m : a < b => found[a] + n <= found[b]
      /\ \A i \in all : i <= k => \E a \in 1 .. m : found[a] <= i /\ i < found[a] + n
  BY <1>1 DEF Listing
<1>20. m \in Nat
  BY <1>2
<1>3. found # <<>> => m \in 1 .. m /\ Last(found) = found[m]
  BY <1>1, <1>2 DEF Last
<1>4. found = <<>> <=> m = 0
  BY <1>1, <1>2
<1>5. CASE k + 1 \in all /\ (found # <<>> => Last(found) + n <= k + 1)
  <2>1. next = Append(found, k + 1)
    BY <1>5
  <2>2. PICK p : p = k + 1
    OBVIOUS
  <2>3. p \in Nat /\ next = Append(found, p) /\ k < p
    BY <2>1, <2>2
  <2>4. /\ next \in Seq(Nat) /\ Len(next) = m + 1 /\ next[m + 1] = p
        /\ \A a \in 1 .. m : next[a] = found[a]
    BY <1>1, <1>2, <2>3, AppendFacts
  <2>5. ASSUME NEW a \in 1 .. m + 1
        PROVE  next[a] \in all /\ next[a] <= k + 1
    <3>1. CASE a \in 1 .. m
      BY <1>2, <2>4, <3>1
    <3>2. CASE a = m + 1
      BY <1>5, <2>2, <2>4, <3>2
    <3>3. a \in 1 .. m \/ a = m + 1
      BY <1>20
    <3> QED
      BY <3>1, <3>2, <3>3, Zenon
  <2>6. ASSUME NEW a \in 1 .. m + 1, NEW b \in 1 .. m + 1, a < b
        PROVE  next[a] + n <= next[b]
    <3>1. a \in 1 .. m
      BY <1>2, <2>6
    <3>2. CASE b \in 1 .. m
      BY <1>2, <2>4, <2>6, <3>1, <3>2
    <3>3. CASE b = m + 1
      <4>1. found # <<>> /\ found[m] + n <= p
        BY <1>2, <1>3, <1>4, <1>5, <2>2, <3>1
      <4>2. found[a] <= found[m]
        <5>1. CASE a = m
          BY <1>2, <3>1, <5>1
        <5>2. CASE a # m
          <6>1. a < m /\ m \in 1 .. m
            BY <1>2, <3>1, <5>2
          <6>2. found[a] + n <= found[m]
            BY <1>2, <3>1, <6>1
          <6> QED
            BY <1>2, <3>1, <6>1, <6>2, SMTT(30)
        <5> QED
          BY <5>1, <5>2
      <4>3. found[a] \in Nat /\ found[m] \in Nat
        BY <1>2, <3>1
      <4>4. next[a] = found[a] /\ next[b] = p
        BY <2>4, <3>1, <3>3
      <4>5. PICK x, y : x = found[a] /\ y = found[m]
        OBVIOUS
      <4>6. x \in Nat /\ y \in Nat /\ n \in Nat /\ p \in Nat /\ x <= y /\ y + n <= p
        BY <2>3, <4>1, <4>2, <4>3, <4>5
      <4>7. x + n <= p
        BY <4>6
      <4> QED
        BY <4>4, <4>5, <4>7, Zenon
    <3>4. b \in 1 .. m \/ b = m + 1
      BY <1>20
    <3> QED
      BY <3>2, <3>3, <3>4, Zenon
  <2>7. ASSUME NEW i \in all, i <= k + 1, i \in Nat
        PROVE  \E a \in 1 .. m + 1 : next[a] <= i /\ i < next[a] + n
    <3>1. CASE i <= k
      <4>1. PICK a \in 1 .. m : found[a] <= i /\ i < found[a] + n
        BY <1>2, <3>1
      <4>2. a \in 1 .. m + 1 /\ next[a] = found[a]
        BY <1>2, <2>4
      <4> QED
        BY <4>1, <4>2, Zenon
    <3>2. CASE ~(i <= k)
      <4>1. i = p
        BY <2>2, <2>7, <3>2
      <4>2. m + 1 \in 1 .. m + 1
        BY <1>2
      <4> QED
        BY <2>3, <2>4, <4>1, <4>2
    <3> QED
      BY <3>1, <3>2, Zenon
  <2>8. \A i \in all : i <= k + 1 => \E a \in 1 .. m + 1 : next[a] <= i /\ i < next[a] + n
    BY <2>7, Zenon
  <2>9. next \in Seq(Nat) /\ Len(next) = m + 1
    BY <2>4
  <2> QED
    BY <2>5, <2>6, <2>8, <2>9, Zenon DEF Listing
<1>6. CASE ~(k + 1 \in all /\ (found # <<>> => Last(found) + n <= k + 1))
  <2>1. next = found
    BY <1>6
  <2>2. ASSUME NEW i \in all, i <= k + 1, i \in Nat
        PROVE  \E a \in 1 .. m : found[a] <= i /\ i < found[a] + n
    <3>1. CASE i <= k
      BY <1>2, <3>1
    <3>2. CASE ~(i <= k)
      <4>1. i = k + 1
        BY <2>2, <3>2
      <4>2. found # <<>> /\ ~(found[m] + n <= k + 1)
        BY <1>3, <1>6, <4>1
      <4>3. m \in 1 .. m /\ found[m] <= k /\ found[m] \in Nat
        BY <1>2, <1>3, <4>2
      <4> QED
        BY <4>1, <4>2, <4>3
    <3> QED
      BY <3>1, <3>2
  <2>3. \A a \in 1 .. m : found[a] <= k + 1
    BY <1>2
  <2>4. \A i \in all : i <= k + 1 => \E a \in 1 .. m : found[a] <= i /\ i < found[a] + n
    BY <2>2
  <2> QED
    BY <1>1, <1>2, <2>1, <2>3, <2>4 DEF Listing
<1> QED
  BY <1>5, <1>6

\* The characters of a line.
KpSigns == (STRING \cup {"$"}) \ {"nl"}

\* The options of a call that are no switches.
KpTyped(o) ==
  /\ o.text[1] \in Seq(KpSigns) /\ o.text[1] # <<>>
  /\ o.text[2] \in Seq(KpSigns)

\* Nothing in OLD is special once it is escaped.
LEMMA MatchMeansText ==
  ASSUME NEW line, NEW i, NEW o, KpTyped(o)
  PROVE  /\ Len(EscapeRegex(o.text[1])) = Len(o.text[1])
         /\ MatchAt(line, i, EscapeRegex(o.text[1]), o) <=> OccursAt(line, i, o)
<1>1. PICK old, expr, n : old = o.text[1] /\ expr = EscapeRegex(old) /\ n = Len(old)
  BY Zenon
<1>2. n \in Nat /\ DOMAIN old = 1 .. n
  <2>1. old \in Seq(KpSigns)
    BY <1>1 DEF KpTyped
  <2> QED
    BY <1>1, <2>1, SeqFacts
<1>3. PICK B : B = {[char |-> old[j], escaped |-> old[j] \in Special] : j \in 1 .. n}
  BY Zenon
<1>4. /\ expr \in [1 .. n -> B]
      /\ \A k \in 1 .. n : expr[k] = [char |-> old[k], escaped |-> old[k] \in Special]
  BY <1>1, <1>2, <1>3 DEF EscapeRegex
<1>5. Len(expr) = n /\ DOMAIN expr = 1 .. n
  BY <1>2, <1>4
<1>6. ASSUME NEW k \in 1 .. n, NEW c
      PROVE  Accepted(expr[k], c, o.ignoreCase) <=> SameChar(old[k], c, o)
  <2>1. expr[k].char = old[k] /\ expr[k].escaped = (old[k] \in Special)
    BY <1>4
  <2>2. "." \in Special
    BY DEF Special
  <2> QED
    BY <2>1, <2>2, Zenon DEF Accepted, SameChar
<1>7. MatchAt(line, i, expr, o) <=>
        i + n - 1 <= Len(line)
          /\ \A k \in 1 .. n : Accepted(expr[k], line[i + k - 1], o.ignoreCase)
  BY <1>5 DEF MatchAt
<1>8. OccursAt(line, i, o) <=>
        i + n - 1 <= Len(line) /\ \A k \in 1 .. n : SameChar(old[k], line[i + k - 1], o)
  BY <1>1, <1>2 DEF OccursAt
<1> QED
  BY <1>1, <1>5, <1>6, <1>7, <1>8, Zenon

\* The matches are a listing of the occurrences.
LEMMA MatchesFacts ==
  ASSUME NEW T, NEW line, NEW o, KpTyped(o), line \in Seq(T)
  PROVE  Listing(Matches(line, EscapeRegex(o.text[1]), o), Len(line), AllAt(line, o),
                 Len(o.text[1]))
<1>1. PICK expr, n, last, all : /\ expr = EscapeRegex(o.text[1]) /\ n = Len(o.text[1])
                                /\ last = Len(line) /\ all = AllAt(line, o)
  BY Zenon
<1>2. last \in Nat /\ DOMAIN line = 1 .. last
  BY <1>1, SeqFacts
<1>3. n \in Nat \ {0} /\ Len(expr) = n
  <2>1. n \in Nat /\ n # 0
    BY <1>1, SeqFacts DEF KpTyped
  <2> QED
    BY <1>1, <2>1, MatchMeansText, Zenon
<1>4. all \subseteq Nat /\ \A i \in 1 .. last : i \in all <=> MatchAt(line, i, expr, o)
  BY <1>1, <1>2, MatchMeansText DEF AllAt
<1>5. PICK f : /\ Matches(line, expr, o) = f[last]
               /\ f[0] = NoMatches
               /\ \A k \in 0 .. last - 1 : f[k + 1] = NextMatch(f[k], line, k + 1, expr, o)
  <2>1. Len(line) \in Nat
    BY <1>1, <1>2
  <2>2. PICK f : MatchesRun(f, line, expr, o)
    BY <2>1, MatchesFunction, Zenon
  <2> QED
    BY <1>1, <2>2 DEF MatchesRun
<1> DEFINE G == {k \in Nat : Listing(f[k], k, all, n)}
<1>6. 0 \in G
  <2>1. \A i \in all : ~(i <= 0)
    BY <1>1, <1>2 DEF AllAt
  <2>2. <<>> \in Seq(Nat) /\ Len(<<>>) = 0
    OBVIOUS
  <2>3. PICK none : none = <<>>
    OBVIOUS
  <2>4. none \in Seq(Nat) /\ Len(none) = 0 /\ \A a \in 1 .. Len(none) : FALSE
    BY <2>2, <2>3
  <2>5. Listing(none, 0, all, n)
    BY <2>1, <2>4 DEF Listing
  <2> QED
    BY <1>5, <2>3, <2>5 DEF NoMatches
<1>7. ASSUME NEW k \in 0 .. last - 1, k \in G
      PROVE  k + 1 \in G
  <2>1. PICK found : found = f[k]
    OBVIOUS
  <2>2. Listing(found, k, all, n) /\ k \in Nat /\ k + 1 \in 1 .. last /\ k + 1 \in Nat
    BY <1>2, <1>7, <2>1
  <2>3. f[k + 1] = IF k + 1 \in all /\ (found # <<>> => Last(found) + n <= k + 1)
                   THEN Append(found, k + 1) ELSE found
    BY <1>3, <1>4, <1>5, <2>1, <2>2 DEF NextMatch
  <2>4. Listing(f[k + 1], k + 1, all, n)
    BY <1>3, <1>4, <2>2, <2>3, ListingStep, Zenon
  <2> QED
    BY <2>2, <2>4
<1> HIDE DEF G
<1>8. PICK first : first = 0
  OBVIOUS
<1>9. Inductive(G, first, last)
  BY <1>2, <1>6, <1>7, <1>8 DEF Inductive
<1>10. \A k \in first .. last : k \in G
  BY <1>9, RangeInduction
<1>11. last \in G
  BY <1>2, <1>8, <1>10
<1> QED
  BY <1>1, <1>5, <1>11 DEF G

LEMMA ListingFacts ==
  ASSUME NEW found, NEW last, NEW all, NEW n, Listing(found, last, all, n), last \in Nat,
         all \subseteq 1 .. last, n \in Nat \ {0}
  PROVE  /\ Greedy(ToSet(found), all, n)
         /\ Cardinality(ToSet(found)) = Len(found)
         /\ found # <<>> => Min(ToSet(found)) = Head(found)
         /\ found # <<>> <=> all # {}
<1>1. PICK m, U : m = Len(found) /\ U = ToSet(found)
  BY Zenon
<1>2. /\ m \in Nat /\ found \in Seq(Nat)
      /\ \A a \in 1 .. m : found[a] \in all /\ found[a] \in Nat
      /\ \A a, b \in 1 .. m : a < b => found[a] + n <= found[b]
      /\ \A i \in all : i <= last => \E a \in 1 .. m : found[a] <= i /\ i < found[a] + n
  BY <1>1 DEF Listing
<1>3. m \in Nat /\ U = {found[a] : a \in 1 .. m} /\ (found = <<>> <=> m = 0)
  BY <1>1, <1>2 DEF ToSet
<1>4. ASSUME NEW a \in 1 .. m, NEW b \in 1 .. m, a < b
      PROVE  found[a] + n <= found[b] /\ found[a] < found[b]
  BY <1>2, <1>4
<1>5. ASSUME NEW a \in 1 .. m, NEW b \in 1 .. m, found[a] < found[b]
      PROVE  a < b
  <2>1. SUFFICES ASSUME ~(a < b)
                 PROVE  FALSE
    OBVIOUS
  <2>2. a = b \/ b < a
    BY <2>1
  <2>3. found[a] \in Nat /\ found[b] \in Nat
    BY <1>2
  <2>4. b < a => found[b] < found[a]
    BY <1>4
  <2> QED
    BY <1>5, <2>2, <2>3, <2>4
<1>6. Greedy(U, all, n)
  <2>1. U \subseteq all
    BY <1>2, <1>3
  <2>2. ASSUME NEW i \in U, NEW j \in U, i < j
        PROVE  i + n <= j
    <3>1. PICK a \in 1 .. m : i = found[a]
      BY <1>3
    <3>2. PICK b \in 1 .. m : j = found[b]
      BY <1>3
    <3>3. a < b
      BY <1>5, <2>2, <3>1, <3>2
    <3> QED
      BY <1>4, <3>1, <3>2, <3>3
  <2>3. ASSUME NEW i \in all \ U
        PROVE  \E j \in U : j < i /\ i < j + n
    <3>1. i <= last /\ i \in Nat
      OBVIOUS
    <3>2. PICK a \in 1 .. m : found[a] <= i /\ i < found[a] + n
      BY <1>2, <3>1
    <3>3. found[a] \in U /\ found[a] \in Nat /\ found[a] # i
      BY <1>2, <1>3
    <3> QED
      BY <3>1, <3>2, <3>3
  <2> QED
    BY <2>1, <2>2, <2>3 DEF Greedy
<1>7. Cardinality(U) = m
  <2>1. ASSUME NEW a \in 1 .. m, NEW b \in 1 .. m, found[a] = found[b]
        PROVE  a = b
    <3>1. found[a] \in Nat /\ found[b] \in Nat
      BY <1>2
    <3>2. (a < b => found[a] < found[b]) /\ (b < a => found[b] < found[a])
      BY <1>4
    <3> QED
      BY <2>1, <3>1, <3>2
  <2>2. OneToOne(found, m, U)
    BY <1>3, <2>1 DEF OneToOne
  <2> QED
    BY <2>2, CountOneToOne
<1>8. ASSUME found # <<>>
      PROVE  Min(U) = Head(found)
  <2>1. 1 \in 1 .. m
    BY <1>3, <1>8
  <2>2. PICK x : x = found[1]
    OBVIOUS
  <2>3. x \in U /\ x \in Nat /\ U \subseteq Nat
    BY <1>2, <1>3, <2>1, <2>2
  <2>4. ASSUME NEW y \in U
        PROVE  x <= y
    <3>1. PICK b \in 1 .. m : y = found[b]
      BY <1>3
    <3>2. b = 1 \/ 1 < b
      OBVIOUS
    <3>3. 1 < b => x < y
      BY <1>4, <2>1, <2>2, <3>1
    <3> QED
      BY <2>2, <2>3, <3>1, <3>2, <3>3
  <2>5. ASSUME NEW z \in U, \A y \in U : z <= y
        PROVE  z = x
    <3>1. z <= x /\ x <= z /\ z \in Nat
      BY <2>3, <2>4, <2>5
    <3> QED
      BY <2>3, <3>1
  <2>6. Min(U) = x
    BY <2>3, <2>4, <2>5, Zenon DEF Min
  <2> QED
    BY <1>2, <2>2, <2>6
<1>9. m # 0 <=> all # {}
  <2>1. ASSUME m # 0
        PROVE  all # {}
    <3>1. 1 \in 1 .. m
      BY <1>3, <2>1
    <3> QED
      BY <1>2, <3>1
  <2>2. ASSUME NEW i \in all
        PROVE  m # 0
    <3>1. i <= last
      OBVIOUS
    <3>2. PICK a \in 1 .. m : found[a] <= i
      BY <1>2, <3>1
    <3> QED
      BY <1>3, <3>2
  <2> QED
    BY <2>1, <2>2, Zenon
<1> QED
  BY <1>1, <1>3, <1>6, <1>7, <1>8, <1>9, Zenon

\* The matches that are used.
UsedMatches(line, o) ==
  LET all == Matches(line, EscapeRegex(o.text[1]), o)
  IN  IF o.first /\ all # <<>> THEN <<Head(all)>> ELSE all

LEMMA ReplacedFacts ==
  ASSUME NEW T, NEW line, NEW o, KpTyped(o), line \in Seq(T)
  PROVE  /\ ToSet(UsedMatches(line, o)) = Replaced(line, o)
         /\ UsedMatches(line, o) \in Seq(Nat)
         /\ Cardinality(Replaced(line, o)) = Len(UsedMatches(line, o))
         /\ Matches(line, EscapeRegex(o.text[1]), o) # <<>> <=> Replaced(line, o) # {}
         /\ Len(Matches(line, EscapeRegex(o.text[1]), o)) \in Nat
<1>1. PICK found, n, last, all : /\ found = Matches(line, EscapeRegex(o.text[1]), o)
                                 /\ n = Len(o.text[1]) /\ last = Len(line)
                                 /\ all = AllAt(line, o)
  BY Zenon
<1>2. n \in Nat \ {0} /\ last \in Nat /\ DOMAIN line = 1 .. last
  BY <1>1, SeqFacts DEF KpTyped
<1>3. all \subseteq 1 .. last
  BY <1>1, <1>2 DEF AllAt
<1>4. Listing(found, last, all, n)
  BY <1>1, MatchesFacts
<1>5. /\ Greedy(ToSet(found), all, n)
      /\ Cardinality(ToSet(found)) = Len(found)
      /\ found # <<>> => Min(ToSet(found)) = Head(found)
      /\ found # <<>> <=> all # {}
  BY <1>2, <1>3, <1>4, ListingFacts, Zenon
<1>6. found \in Seq(Nat)
  BY <1>4 DEF Listing
<1>7. PICK chosen : chosen = CHOOSE g \in SUBSET all :
                               /\ \A i, j \in g : i < j => i + n <= j
                               /\ \A i \in all \ g : \E j \in g : j < i /\ i < j + n
  BY Zenon
<1>8. chosen = ToSet(found)
  <2>1. PICK U : U = ToSet(found)
    OBVIOUS
  <2>2. U \in SUBSET all /\ Greedy(U, all, n)
    BY <1>5, <2>1 DEF Greedy
  <2>3. Greedy(chosen, all, n)
    BY <1>7, <2>2, Zenon DEF Greedy
  <2> QED
    BY <1>2, <1>3, <2>1, <2>2, <2>3, GreedyUnique, Zenon
<1>9. Replaced(line, o) = IF o.first /\ all # {} THEN {Min(chosen)} ELSE chosen
  BY <1>1, <1>7 DEF Replaced, AllAt
<1>10. UsedMatches(line, o) = IF o.first /\ found # <<>> THEN <<Head(found)>> ELSE found
  BY <1>1 DEF UsedMatches
<1>11. CASE o.first /\ found # <<>>
  <2>1. PICK x : x = Head(found)
    OBVIOUS
  <2>2. x \in Nat
    BY <1>6, <1>11, <2>1
  <2>3. UsedMatches(line, o) = <<x>> /\ Replaced(line, o) = {x}
    BY <1>5, <1>8, <1>9, <1>10, <1>11, <2>1
  <2>4. Cardinality({x}) = 1
    BY FS_Singleton, Zenon
  <2>5. <<x>> \in Seq(Nat) /\ Len(<<x>>) = 1 /\ ToSet(<<x>>) = {x}
    BY <2>2 DEF ToSet
  <2>6. Len(found) \in Nat
    BY <1>6
  <2> QED
    BY <1>1, <1>11, <2>3, <2>4, <2>5, <2>6
<1>12. CASE ~(o.first /\ found # <<>>)
  <2>1. UsedMatches(line, o) = found /\ Replaced(line, o) = ToSet(found)
    BY <1>5, <1>8, <1>9, <1>10, <1>12
  <2>2. Len(found) \in Nat /\ (found # <<>> <=> ToSet(found) # {})
    <3>1. PICK m : m = Len(found)
      OBVIOUS
    <3>2. m \in Nat /\ DOMAIN found = 1 .. m /\ (found = <<>> <=> m = 0)
      BY <1>6, <3>1
    <3>3. ToSet(found) = {found[i] : i \in 1 .. m}
      BY <3>2 DEF ToSet
    <3>4. m # 0 => 1 \in 1 .. m
      BY <3>2
    <3>5. m = 0 => 1 .. m = {}
      BY <3>2
    <3> QED
      BY <3>1, <3>2, <3>3, <3>4, <3>5
  <2> QED
    BY <1>1, <1>5, <1>6, <2>1, <2>2
<1> QED
  BY <1>11, <1>12

-----------------------------------------------------------------------------
(* Where sequences stand when they are put end to end.                     *)

\* Where the sequences of ss stand when they are put end to end: after the first n of
\* them p[n] elements have passed.
Laid(p, ss, flat) ==
  /\ p[0] = 0
  /\ \A n \in 0 .. Len(ss) : p[n] \in Nat
  /\ \A n \in 0 .. Len(ss) - 1 : p[n + 1] = p[n] + Len(ss[n + 1])
  /\ Len(flat) = p[Len(ss)]
  /\ \A n \in 0 .. Len(ss) - 1 : \A k \in 1 .. Len(ss[n + 1]) : flat[p[n] + k] = ss[n + 1][k]

\* What f adds up has been laid out up to n.
LaidTo(f, ss, T, n) ==
  /\ f[n] \in Seq(T)
  /\ \A j \in 1 .. n : Len(f[j]) <= Len(f[n])
  /\ \A j \in 1 .. n : \A k \in 1 .. Len(f[j]) : f[n][k] = f[j][k]

LEMMA LaidStep ==
  ASSUME NEW f, NEW ss, NEW T, NEW n, AddsUp(f, ss, T), ss \in Seq(Seq(T)),
         n \in 1 .. Len(ss) - 1, LaidTo(f, ss, T, n)
  PROVE  LaidTo(f, ss, T, n + 1)
<1>1. PICK B : B = Seq(T)
  OBVIOUS
<1>2. Len(ss) \in Nat /\ n \in 1 .. Len(ss) /\ n + 1 \in 1 .. Len(ss)
  BY SeqFacts
<1>3. ss[n + 1] \in Seq(T)
  BY <1>1, <1>2, SeqFacts
<1>4. PICK a, b, c : a = f[n] /\ b = ss[n + 1] /\ c = f[n + 1]
  OBVIOUS
<1>5. a \in Seq(T) /\ b \in Seq(T) /\ c = a \o b
  BY <1>3, <1>4, Zenon DEF AddsUp, LaidTo
<1>6. /\ c \in Seq(T) /\ Len(a) \in Nat /\ Len(b) \in Nat /\ Len(c) = Len(a) + Len(b)
      /\ \A k \in 1 .. Len(a) : c[k] = a[k]
  BY <1>5, ConcatFacts
<1>7. ASSUME NEW j \in 1 .. n + 1
      PROVE  /\ Len(f[j]) <= Len(c)
             /\ \A k \in 1 .. Len(f[j]) : c[k] = f[j][k]
  <2>1. CASE j \in 1 .. n
    <3>1. PICK d : d = f[j]
      OBVIOUS
    <3>2. d \in Seq(T)
      <4>1. j \in 1 .. Len(ss)
        BY <1>2, <2>1
      <4> QED
        BY <3>1, <4>1, Zenon DEF AddsUp
    <3>3. Len(d) \in Nat /\ Len(d) <= Len(a)
      BY <1>4, <2>1, <3>1, <3>2, SeqFacts DEF LaidTo
    <3>4. ASSUME NEW k \in 1 .. Len(d)
          PROVE  c[k] = d[k]
      <4>1. a[k] = d[k]
        BY <1>4, <2>1, <3>1, Zenon DEF LaidTo
      <4>2. k \in 1 .. Len(a)
        BY <1>6, <3>3
      <4> QED
        BY <1>6, <4>1, <4>2
    <3>5. Len(d) <= Len(c)
      BY <1>6, <3>3
    <3> QED
      BY <3>1, <3>4, <3>5, Zenon
  <2>2. CASE j = n + 1
    <3>1. f[j] = c
      BY <1>4, <2>2
    <3>2. Len(c) <= Len(c)
      BY <1>6
    <3> QED
      BY <3>1, <3>2
  <2>3. j \in 1 .. n \/ j = n + 1
    BY <1>2
  <2> QED
    BY <2>1, <2>2, <2>3
<1> QED
  BY <1>4, <1>6, <1>7, Zenon DEF LaidTo

LEMMA FlattenLaid ==
  ASSUME NEW T, NEW ss, NEW flat, ss \in Seq(Seq(T)), flat = FlattenSeq(ss)
  PROVE  \E p : Laid(p, ss, flat)
<1>1. CASE ss = <<>>
  <2>1. PICK p : p = [n \in {0} |-> 0]
    BY Zenon
  <2>2. flat = <<>>
    BY <1>1, FlattenEmpty
  <2>3. p[0] = 0 /\ Len(ss) = 0 /\ Len(flat) = 0
    BY <1>1, <2>1, <2>2
  <2>4. \A n \in 0 .. Len(ss) : p[n] \in Nat
    BY <2>3
  <2>5. 0 .. Len(ss) - 1 = {}
    BY <2>3
  <2>6. Laid(p, ss, flat)
    BY <2>3, <2>4, <2>5 DEF Laid
  <2> QED
    BY <2>6
<1>2. CASE ss # <<>>
  <2>1. PICK f : AddsUp(f, ss, T) /\ flat = f[Len(ss)]
    BY <1>2, FlattenFunction
  <2>2. PICK last : last = Len(ss)
    OBVIOUS
  <2>3. last \in Nat /\ last >= 1 /\ 1 \in 1 .. last /\ last \in 1 .. last
    BY <1>2, <2>2, SeqFacts
  <2>4. /\ \A n \in 1 .. last : f[n] \in Seq(T)
        /\ f[1] = ss[1]
        /\ \A n \in 1 .. last - 1 : f[n + 1] = f[n] \o ss[n + 1]
    BY <2>1, <2>2, Zenon DEF AddsUp
  <2>5. \A n \in 1 .. last : ss[n] \in Seq(T)
    <3>1. PICK B : B = Seq(T)
      OBVIOUS
    <3> QED
      BY <2>2, <3>1, SeqFacts
  <2>6. \A n \in 1 .. last : LaidTo(f, ss, T, n)
    <3> DEFINE G == {n \in Nat : LaidTo(f, ss, T, n)}
    <3>1. PICK first : first = 1
      OBVIOUS
    <3>2. LaidTo(f, ss, T, 1)
      <4>1. \A j \in 1 .. 1 : j = 1
        OBVIOUS
      <4>2. f[1] \in Seq(T)
        BY <2>3, <2>4
      <4>3. Len(f[1]) \in Nat
        BY <4>2, SeqFacts
      <4> QED
        BY <4>1, <4>2, <4>3 DEF LaidTo
    <3>3. ASSUME NEW n \in first .. last - 1, n \in G
          PROVE  n + 1 \in G
      <4>1. n \in Nat /\ n + 1 \in Nat /\ n \in 1 .. Len(ss) - 1
        BY <2>2, <2>3, <3>1, <3>3
      <4>2. LaidTo(f, ss, T, n)
        BY <3>3
      <4>3. LaidTo(f, ss, T, n + 1)
        BY <2>1, <4>1, <4>2, LaidStep, Zenon
      <4> QED
        BY <4>1, <4>3
    <3>4. 1 \in G
      BY <3>2
    <3> HIDE DEF G
    <3>5. Inductive(G, first, last)
      BY <2>3, <3>1, <3>3, <3>4 DEF Inductive
    <3>6. \A n \in first .. last : n \in G
      BY <3>5, RangeInduction
    <3> QED
      BY <3>1, <3>6 DEF G
  <2>7. PICK p : p = [n \in 0 .. last |-> IF n = 0 THEN 0 ELSE Len(f[n])]
    BY Zenon
  <2>8. p[0] = 0 /\ \A n \in 1 .. last : p[n] = Len(f[n]) /\ p[n] \in Nat
    <3>1. \A n \in 1 .. last : Len(f[n]) \in Nat
      BY <2>4, SeqFacts
    <3> QED
      BY <2>3, <2>7, <3>1
  <2>9. \A n \in 0 .. last : p[n] \in Nat
    BY <2>3, <2>8
  <2>10. ASSUME NEW n \in 0 .. last - 1
         PROVE  /\ p[n + 1] = p[n] + Len(ss[n + 1])
                /\ \A k \in 1 .. Len(ss[n + 1]) : f[n + 1][p[n] + k] = ss[n + 1][k]
    <3>1. n + 1 \in 1 .. last /\ n \in Nat
      BY <2>3
    <3>2. PICK b : b = ss[n + 1]
      OBVIOUS
    <3>3. b \in Seq(T) /\ p[n + 1] = Len(f[n + 1])
      BY <2>5, <2>8, <3>1, <3>2
    <3>4. Len(b) \in Nat
      BY <3>3, SeqFacts
    <3>5. CASE n = 0
      <4>1. f[n + 1] = b
        BY <2>4, <3>2, <3>5
      <4>2. p[n] = 0
        BY <2>8, <3>5
      <4>3. \A k \in 1 .. Len(b) : p[n] + k = k
        BY <4>2, <3>4
      <4> QED
        BY <3>2, <3>3, <3>4, <4>1, <4>2, <4>3
    <3>6. CASE n # 0
      <4>1. n \in 1 .. last - 1 /\ n \in 1 .. last
        BY <2>3, <3>6
      <4>2. PICK a : a = f[n]
        OBVIOUS
      <4>3. a \in Seq(T) /\ f[n + 1] = a \o b /\ p[n] = Len(a)
        BY <2>4, <2>8, <3>2, <4>1, <4>2, Zenon
      <4>4. Len(a \o b) = Len(a) + Len(b) /\ \A k \in 1 .. Len(b) : (a \o b)[Len(a) + k] = b[k]
        BY <3>3, <4>3, ConcatFacts
      <4> QED
        BY <3>2, <3>3, <4>3, <4>4, Zenon
    <3> QED
      BY <3>5, <3>6
  <2>11. ASSUME NEW n \in 0 .. last - 1, NEW k \in 1 .. Len(ss[n + 1])
         PROVE  flat[p[n] + k] = ss[n + 1][k]
    <3>1. n + 1 \in 1 .. last /\ n \in 0 .. last
      BY <2>3
    <3>2. PICK i : i = p[n] + k
      OBVIOUS
    <3>3. f[n + 1][i] = ss[n + 1][k] /\ p[n + 1] = p[n] + Len(ss[n + 1]) /\ p[n + 1] = Len(f[n + 1])
      BY <2>8, <2>10, <3>1, <3>2
    <3>4. p[n] \in Nat /\ Len(ss[n + 1]) \in Nat
      BY <2>5, <2>9, <3>1, SeqFacts
    <3>5. i \in 1 .. Len(f[n + 1])
      <4>1. PICK a, b, c : a = p[n] /\ b = Len(ss[n + 1]) /\ c = Len(f[n + 1])
        BY Zenon
      <4>2. a \in Nat /\ b \in Nat /\ c = a + b /\ k \in 1 .. b /\ i = a + k
        BY <3>2, <3>3, <3>4, <4>1, Zenon
      <4>3. i \in 1 .. c
        BY <4>2
      <4> QED
        BY <4>1, <4>3, Zenon
    <3>6. LaidTo(f, ss, T, last)
      BY <2>3, <2>6
    <3>7. f[last][i] = f[n + 1][i]
      BY <3>1, <3>5, <3>6 DEF LaidTo
    <3> QED
      BY <2>1, <2>2, <3>2, <3>3, <3>7
  <2>12. Len(flat) = p[last]
    BY <2>1, <2>2, <2>3, <2>8
  <2>13. Laid(p, ss, flat)
    BY <2>2, <2>8, <2>9, <2>10, <2>11, <2>12 DEF Laid
  <2> QED
    BY <2>13
<1> QED
  BY <1>1, <1>2

LEMMA LaidWithin ==
  ASSUME NEW T, NEW ss, NEW flat, NEW p, ss \in Seq(Seq(T)), Laid(p, ss, flat)
  PROVE  \A n \in 0 .. Len(ss) : p[n] <= Len(flat)
<1>1. PICK last : last = Len(ss)
  OBVIOUS
<1>2. last \in Nat /\ \A n \in 1 .. last : Len(ss[n]) \in Nat
  <2>1. PICK B : B = Seq(T)
    OBVIOUS
  <2>2. last \in Nat /\ \A n \in 1 .. last : ss[n] \in B
    BY <1>1, <2>1, SeqFacts
  <2> QED
    BY <2>1, <2>2, SeqFacts
<1>3. /\ \A n \in 0 .. last : p[n] \in Nat
      /\ \A n \in 0 .. last - 1 : p[n + 1] = p[n] + Len(ss[n + 1])
      /\ Len(flat) = p[last]
  BY <1>1, Zenon DEF Laid
<1> DEFINE G == {k \in Nat : k <= last => p[last - k] <= p[last]}
<1>4. 0 \in G
  BY <1>2, <1>3
<1>5. ASSUME NEW k \in 0 .. last - 1, k \in G
      PROVE  k + 1 \in G
  <2>1. PICK n : n = last - (k + 1)
    OBVIOUS
  <2>2. n \in 0 .. last - 1 /\ n + 1 = last - k /\ k <= last /\ n + 1 \in 1 .. last /\ k \in Nat
    BY <1>2, <2>1
  <2>3. p[n + 1] <= p[last]
    BY <1>5, <2>2
  <2>4. p[n] <= p[n + 1]
    <3>1. p[n] \in Nat /\ Len(ss[n + 1]) \in Nat /\ p[n + 1] = p[n] + Len(ss[n + 1])
      BY <1>2, <1>3, <2>2
    <3> QED
      BY <3>1
  <2>5. p[n] \in Nat /\ p[n + 1] \in Nat /\ p[last] \in Nat
    BY <1>2, <1>3, <2>2
  <2> QED
    BY <2>1, <2>2, <2>3, <2>4, <2>5
<1> HIDE DEF G
<1>6. PICK first : first = 0
  OBVIOUS
<1>7. Inductive(G, first, last)
  BY <1>2, <1>4, <1>5, <1>6 DEF Inductive
<1>8. \A k \in first .. last : k \in G
  BY <1>7, RangeInduction
<1>9. ASSUME NEW n \in 0 .. last
      PROVE  p[n] <= Len(flat)
  <2>1. PICK k : k = last - n
    OBVIOUS
  <2>2. k \in first .. last /\ k <= last /\ last - k = n
    BY <1>2, <1>6, <2>1
  <2>3. k \in G
    BY <1>8, <2>2
  <2> QED
    BY <1>3, <2>2, <2>3 DEF G
<1> QED
  BY <1>1, <1>9

-----------------------------------------------------------------------------
(* What is special in NEW for a replacement.                               *)

\* One character of NEW as it is written in a replacement.
EscapedChar(c) == IF c = "$" THEN <<"$", "$">> ELSE <<c>>

LEMMA PrefixFacts ==
  ASSUME NEW T, NEW s, NEW n, s \in Seq(T), n \in 0 .. Len(s) - 1
  PROVE  /\ SubSeq(s, 1, n) \in Seq(T) /\ SubSeq(s, 1, n + 1) \in Seq(T)
         /\ Append(SubSeq(s, 1, n), s[n + 1]) = SubSeq(s, 1, n + 1)
         /\ SubSeq(s, 1, 0) = <<>>
         /\ SubSeq(s, 1, Len(s)) = s
<1>1. Len(s) \in Nat
  BY SeqFacts
<1>2. SubSeq(s, 1, n) \in Seq(T) /\ SubSeq(s, 1, n + 1) \in Seq(T)
  BY <1>1
<1>3. Append(SubSeq(s, 1, n), s[n + 1]) = SubSeq(s, 1, n + 1)
  BY <1>1
<1>4. SubSeq(s, 1, 0) = <<>>
  BY <1>1
<1>5. SubSeq(s, 1, Len(s)) = s
  BY <1>1
<1> QED
  BY <1>2, <1>3, <1>4, <1>5

\* The text e is read from position k on.
ReadEscaped(f, format, k, e) ==
  \A j \in 1 .. Len(e) :
    /\ format[k + j] = e[j]
    /\ f[k + j] = FormatChar(f[k + j - 1], format[k + j])

\* What is held: the text, and whether it ends in a dollar that may be one of two.
IsHeld(acc, text, dollar) == acc = [text |-> text, dollar |-> dollar]

LEMMA FormatFirst ==
  ASSUME NEW acc, NEW text, NEW more, NEW c, IsHeld(acc, text, FALSE), Append(text, c) = more
  PROVE  /\ c = "$" => IsHeld(FormatChar(acc, c), more, TRUE)
         /\ c # "$" => IsHeld(FormatChar(acc, c), more, FALSE)
<1>1. acc.text = text /\ ~acc.dollar
  BY DEF IsHeld
<1>2. FormatChar(acc, c) = [text |-> Append(acc.text, c), dollar |-> (c = "$")]
  BY <1>1, Zenon DEF FormatChar
<1>3. FormatChar(acc, c) = [text |-> more, dollar |-> (c = "$")]
  BY <1>1, <1>2
<1>4. CASE c = "$"
  <2>1. FormatChar(acc, c) = [text |-> more, dollar |-> TRUE]
    BY <1>3, <1>4, Zenon
  <2> QED
    BY <1>4, <2>1 DEF IsHeld
<1>5. CASE c # "$"
  <2>1. FormatChar(acc, c) = [text |-> more, dollar |-> FALSE]
    BY <1>3, <1>5, Zenon
  <2> QED
    BY <1>5, <2>1 DEF IsHeld
<1> QED
  BY <1>4, <1>5, Zenon

LEMMA FormatSecond ==
  ASSUME NEW acc, NEW text, NEW c, IsHeld(acc, text, TRUE), c = "$"
  PROVE  IsHeld(FormatChar(acc, c), text, FALSE)
<1>1. acc.dollar /\ acc = [text |-> text, dollar |-> TRUE]
  BY DEF IsHeld
<1>2. FormatChar(acc, c) = [acc EXCEPT !.dollar = FALSE]
  BY <1>1, Zenon DEF FormatChar
<1>3. [acc EXCEPT !.dollar = FALSE] = [text |-> text, dollar |-> FALSE]
  <2>1. [[text |-> text, dollar |-> TRUE] EXCEPT !.dollar = FALSE]
          = [text |-> text, dollar |-> FALSE]
    <3>1. ASSUME NEW u, NEW v
          PROVE  [[text |-> text, dollar |-> u] EXCEPT !.dollar = v]
                   = [text |-> text, dollar |-> v]
      OBVIOUS
    <3> QED
      BY <3>1, Zenon
  <2> QED
    BY <1>1, <2>1, Zenon
<1> QED
  BY <1>2, <1>3 DEF IsHeld

LEMMA HeldStep ==
  ASSUME NEW T, NEW new, NEW n, NEW f, NEW k, NEW format, NEW c, NEW e,
         new \in Seq(T), n \in 0 .. Len(new) - 1, k \in Nat, c = new[n + 1],
         e = EscapedChar(c), IsHeld(f[k], SubSeq(new, 1, n), FALSE),
         ReadEscaped(f, format, k, e)
  PROVE  IsHeld(f[k + Len(e)], SubSeq(new, 1, n + 1), FALSE)
<1>1. PICK text, more : text = SubSeq(new, 1, n) /\ more = SubSeq(new, 1, n + 1)
  BY Zenon
<1>2. Append(text, c) = more
  BY <1>1, PrefixFacts
<1>3. IsHeld(f[k], text, FALSE)
  BY <1>1, Zenon
<1>4. /\ c = "$" => IsHeld(f[k + 1], more, TRUE)
      /\ c # "$" => IsHeld(f[k + 1], more, FALSE)
  <2>1. 1 \in 1 .. Len(e) /\ e[1] = c
    BY DEF EscapedChar
  <2>2. f[k + 1] = FormatChar(f[k], c)
    <3>1. k + 1 - 1 = k
      OBVIOUS
    <3> QED
      BY <2>1, <3>1 DEF ReadEscaped
  <2> QED
    BY <1>2, <1>3, <2>2, FormatFirst, Zenon
<1>5. CASE c = "$"
  <2>1. 2 \in 1 .. Len(e) /\ e[2] = c /\ Len(e) = 2
    BY <1>5 DEF EscapedChar
  <2>2. f[k + 2] = FormatChar(f[k + 1], c)
    <3>1. k + 2 - 1 = k + 1
      OBVIOUS
    <3> QED
      BY <2>1, <3>1 DEF ReadEscaped
  <2>3. IsHeld(f[k + 1], more, TRUE)
    BY <1>4, <1>5, Zenon
  <2>4. IsHeld(f[k + 2], more, FALSE)
    BY <1>5, <2>2, <2>3, FormatSecond, Zenon
  <2> QED
    BY <1>1, <2>1, <2>4, Zenon
<1>6. CASE c # "$"
  <2>1. Len(e) = 1
    BY <1>6 DEF EscapedChar
  <2>2. IsHeld(f[k + 1], more, FALSE)
    BY <1>4, <1>6, Zenon
  <2> QED
    BY <1>1, <2>1, <2>2, Zenon
<1> QED
  BY <1>5, <1>6, Zenon

\* What is special in NEW is put into the line as it is.
LEMMA ReplacementIsNew ==
  ASSUME NEW T, NEW new, new \in Seq(T), "$" \in T
  PROVE  Formatted(EscapeReplacement(new)) = new
<1>1. PICK last, ss, format : /\ last = Len(new)
                              /\ ss = [i \in 1 .. last |-> EscapedChar(new[i])]
                              /\ format = EscapeReplacement(new)
  BY Zenon
<1>2. last \in Nat /\ DOMAIN new = 1 .. last /\ \A i \in 1 .. last : new[i] \in T
  BY <1>1, SeqFacts
<1>3. format = FlattenSeq(ss)
  BY <1>1, <1>2 DEF EscapeReplacement, EscapedChar
<1>4. \A c \in T : EscapedChar(c) \in Seq(T)
  BY DEF EscapedChar
<1>5. /\ ss \in Seq(Seq(T)) /\ Len(ss) = last
      /\ \A i \in 1 .. last : ss[i] = EscapedChar(new[i])
  <2>1. PICK B : B = Seq(T)
    OBVIOUS
  <2>2. \A i \in 1 .. last : EscapedChar(new[i]) \in B
    BY <1>2, <1>4, <2>1
  <2>3. ss \in [1 .. last -> B] /\ \A i \in 1 .. last : ss[i] = EscapedChar(new[i])
    BY <1>1, <2>2
  <2>4. ss \in Seq(B) /\ Len(ss) = last
    BY <1>2, <2>3, FunctionIsSeq
  <2> QED
    BY <2>1, <2>3, <2>4
<1>6. format \in Seq(T)
  BY <1>3, <1>5, FlattenType
<1>7. PICK p : Laid(p, ss, format)
  BY <1>3, <1>5, FlattenLaid
<1>8. PICK f : FormattedRun(f, format, T)
  BY <1>6, FormattedFunction
<1>9. /\ p[0] = 0 /\ Len(format) = p[last]
      /\ \A n \in 0 .. last : p[n] \in Nat
      /\ \A n \in 0 .. last - 1 : p[n + 1] = p[n] + Len(ss[n + 1])
      /\ \A n \in 0 .. last - 1 :
           \A j \in 1 .. Len(ss[n + 1]) : format[p[n] + j] = ss[n + 1][j]
  BY <1>5, <1>7 DEF Laid
<1>10. \A n \in 0 .. last : p[n] <= Len(format)
  BY <1>5, <1>7, <1>9, LaidWithin
<1>11. \A n \in 0 .. last : IsHeld(f[p[n]], SubSeq(new, 1, n), FALSE)
  <2> DEFINE G == {n \in Nat : IsHeld(f[p[n]], SubSeq(new, 1, n), FALSE)}
  <2>1. 0 \in G
    <3>1. SubSeq(new, 1, 0) = <<>>
      BY <1>2
    <3>2. f[0] = NoFormat
      BY <1>8 DEF FormattedRun
    <3> QED
      BY <1>9, <3>1, <3>2, Zenon DEF NoFormat, IsHeld
  <2>2. ASSUME NEW n \in 0 .. last - 1, n \in G
        PROVE  n + 1 \in G
    <3>1. /\ n \in Nat /\ n + 1 \in Nat /\ n + 1 \in 0 .. last /\ n \in 0 .. last
          /\ n + 1 \in 1 .. last
      BY <1>2
    <3>2. PICK k, c, e : k = p[n] /\ c = new[n + 1] /\ e = EscapedChar(c)
      OBVIOUS
    <3>3. ss[n + 1] = e /\ k \in Nat /\ p[n + 1] = k + Len(e) /\ e \in Seq(T)
      BY <1>2, <1>4, <1>5, <1>9, <3>1, <3>2
    <3>4. Len(e) \in Nat /\ p[n + 1] <= Len(format) /\ Len(format) \in Nat
      BY <1>6, <1>10, <3>1, <3>3, SeqFacts
    <3>5. ASSUME NEW j \in 1 .. Len(e)
          PROVE  format[k + j] = e[j] /\ f[k + j] = FormatChar(f[k + j - 1], format[k + j])
      <4>1. format[k + j] = e[j]
        BY <1>9, <3>2, <3>3
      <4>2. PICK i : i = k + j - 1
        OBVIOUS
      <4>3. i \in 0 .. Len(format) - 1 /\ k + j = i + 1
        BY <3>3, <3>4, <4>2
      <4>4. f[i + 1] = FormatChar(f[i], format[i + 1])
        BY <1>8, <4>3 DEF FormattedRun
      <4> QED
        BY <4>1, <4>2, <4>3, <4>4
    <3>6. IsHeld(f[k], SubSeq(new, 1, n), FALSE)
      BY <2>2, <3>2, Zenon
    <3>7. n \in 0 .. Len(new) - 1
      BY <1>1
    <3>8. ReadEscaped(f, format, k, e)
      BY <3>5 DEF ReadEscaped
    <3>9. IsHeld(f[k + Len(e)], SubSeq(new, 1, n + 1), FALSE)
      BY <3>2, <3>3, <3>6, <3>7, <3>8, HeldStep, Zenon
    <3> QED
      BY <3>1, <3>2, <3>3, <3>9, Zenon
  <2> HIDE DEF G
  <2>3. PICK first : first = 0
    OBVIOUS
  <2>4. Inductive(G, first, last)
    BY <1>2, <2>1, <2>2, <2>3 DEF Inductive
  <2>5. \A n \in first .. last : n \in G
    BY <2>4, RangeInduction
  <2> QED
    BY <2>3, <2>5, Zenon DEF G
<1>12. IsHeld(f[Len(format)], SubSeq(new, 1, last), FALSE)
  <2>1. last \in 0 .. last
    BY <1>2
  <2>2. IsHeld(f[p[last]], SubSeq(new, 1, last), FALSE)
    BY <1>11, <2>1, Zenon
  <2> QED
    BY <1>9, <2>2, Zenon
<1>13. SubSeq(new, 1, last) = new
  BY <1>1, <1>2
<1>14. Formatted(format) = f[Len(format)].text
  BY <1>8 DEF FormattedRun
<1>15. f[Len(format)].text = new
  BY <1>12, <1>13 DEF IsHeld
<1> QED
  BY <1>1, <1>14, <1>15

-----------------------------------------------------------------------------
(* A line as kp leaves it.                                                 *)

\* The result of replacing inside a line.
Inside(line, o) ==
  LET at == Replaced(line, o)
      left(i) == \A j \in at : i \notin j .. (j + Len(o.text[1]) - 1)
  IN  FlattenSeq([i \in DOMAIN line |->
        IF i \in at THEN o.text[2] ELSE IF left(i) THEN <<line[i]>> ELSE <<>>])

LEMMA NewFormatted ==
  ASSUME NEW o, KpTyped(o)
  PROVE  Formatted(EscapeReplacement(o.text[2])) = o.text[2]
<1>1. o.text[2] \in Seq(KpSigns)
  BY DEF KpTyped
<1>2. "$" \in KpSigns
  BY DEF KpSigns
<1> QED
  BY <1>1, <1>2, ReplacementIsNew

LEMMA ReplaceInside ==
  ASSUME NEW line, NEW o, KpTyped(o), line \in Seq(KpSigns), o.inside
  PROVE  /\ ReplaceLine(line, EscapeRegex(o.text[1]), o) = Inside(line, o)
         /\ Inside(line, o) \in Seq(KpSigns)
<1>1. PICK expr, new, used, at, n, last :
        /\ expr = EscapeRegex(o.text[1]) /\ new = o.text[2] /\ used = UsedMatches(line, o)
        /\ at = Replaced(line, o) /\ n = Len(o.text[1]) /\ last = Len(line)
  BY Zenon
<1>2. DOMAIN line = 1 .. last /\ last \in Nat /\ \A i \in 1 .. last : line[i] \in KpSigns
  BY <1>1, SeqFacts
<1>3. Len(expr) = n
  BY <1>1, MatchMeansText, Zenon
<1>4. Formatted(EscapeReplacement(o.text[2])) = new
  BY <1>1, NewFormatted
<1>5. used \in Seq(Nat) /\ ToSet(used) = at
  BY <1>1, ReplacedFacts
<1>6. PICK m : m = Len(used)
  BY Zenon
<1>7. DOMAIN used = 1 .. m /\ m \in Nat /\ at = {used[k] : k \in 1 .. m}
  BY <1>5, <1>6 DEF ToSet
<1> DEFINE piece(i) == IF Contains(used, i) THEN new
                       ELSE IF \E k \in DOMAIN used : i \in used[k] .. (used[k] + n - 1)
                       THEN <<>> ELSE <<line[i]>>
           part(i) == IF i \in at THEN new
                      ELSE IF \A j \in at : i \notin j .. (j + n - 1)
                      THEN <<line[i]>> ELSE <<>>
<1>8. \A i : piece(i) = part(i)
  <2>1. SUFFICES ASSUME NEW i
                 PROVE  piece(i) = part(i)
    BY Zenon
  <2>2. Contains(used, i) <=> i \in at
    BY <1>6, <1>7 DEF Contains
  <2>3. (\E k \in DOMAIN used : i \in used[k] .. (used[k] + n - 1))
          <=> ~\A j \in at : i \notin j .. (j + n - 1)
    BY <1>7
  <2> QED
    BY <2>2, <2>3
<1>9. ReplaceLine(line, expr, o) = FlattenSeq([i \in DOMAIN line |-> piece(i)])
  <2>1. used = IF o.first /\ Matches(line, expr, o) # <<>>
               THEN <<Head(Matches(line, expr, o))>> ELSE Matches(line, expr, o)
    BY <1>1 DEF UsedMatches
  <2> QED
    BY <1>1, <1>3, <1>4, <2>1 DEF ReplaceLine
<1>10. Inside(line, o) = FlattenSeq([i \in DOMAIN line |-> part(i)])
  BY <1>1 DEF Inside
<1>11. [i \in DOMAIN line |-> piece(i)] = [i \in DOMAIN line |-> part(i)]
  <2> HIDE DEF piece, part
  <2> QED
    BY <1>8
<1>12. Inside(line, o) \in Seq(KpSigns)
  <2>1. PICK B, ss : B = Seq(KpSigns) /\ ss = [i \in DOMAIN line |-> part(i)]
    BY Zenon
  <2>2. /\ new \in Seq(KpSigns) /\ <<>> \in Seq(KpSigns)
        /\ \A i \in 1 .. last : <<line[i]>> \in Seq(KpSigns)
    BY <1>1, <1>2 DEF KpTyped
  <2>3. \A i \in 1 .. last : part(i) \in B
    BY <2>1, <2>2
  <2> HIDE DEF part
  <2>4. ss \in [1 .. last -> B]
    BY <1>2, <2>1, <2>3
  <2>5. ss \in Seq(B)
    BY <1>2, <2>4, FunctionIsSeq
  <2>6. FlattenSeq(ss) \in Seq(KpSigns)
    BY <2>1, <2>5, FlattenType
  <2> QED
    BY <1>10, <2>1, <2>6
<1> HIDE DEF piece, part
<1> QED
  BY <1>1, <1>9, <1>10, <1>11, <1>12, Zenon

\* What kp does with a selected line is what is expected of it.
LEMMA EditIsExpected ==
  ASSUME NEW line, NEW o, KpTyped(o), line \in Seq(KpSigns)
  PROVE  /\ EditLine(line, EscapeRegex(o.text[1]), o).line = Expected(line, o)[1]
         /\ EditLine(line, EscapeRegex(o.text[1]), o).count = Expected(line, o)[2]
         /\ Expected(line, o)[1] \in Seq(KpSigns)
<1>1. PICK expr, old, new, at, all, n :
        /\ old = o.text[1] /\ new = o.text[2] /\ expr = EscapeRegex(old)
        /\ at = Replaced(line, o) /\ all = Matches(line, expr, o)
        /\ n = CountMatches(line, expr, o)
  BY Zenon
<1>2. new \in Seq(KpSigns)
  BY <1>1 DEF KpTyped
<1>3. Len(expr) = Len(old) /\ (MatchAt(line, 1, expr, o) <=> OccursAt(line, 1, o))
  BY <1>1, MatchMeansText
<1>4. /\ at # {} <=> all # <<>>
      /\ Len(all) \in Nat
      /\ Cardinality(at) = Len(UsedMatches(line, o))
  BY <1>1, ReplacedFacts
<1>5. PICK hit \in BOOLEAN : hit <=> IF o.inside THEN at # {}
                                     ELSE Len(line) = Len(old) /\ OccursAt(line, 1, o)
  BY Zenon
<1>6. all # <<>> <=> Len(all) # 0
  <2>1. PICK found : found = UsedMatches(line, o)
    OBVIOUS
  <2>2. all \in Seq(Nat)
    BY <1>1, MatchesFacts, Zenon DEF Listing
  <2> QED
    BY <2>2
<1>7. n = IF o.inside THEN Len(all)
          ELSE IF Len(line) = Len(old) /\ OccursAt(line, 1, o) THEN 1 ELSE 0
  BY <1>1, <1>3 DEF CountMatches
<1>8. n # 0 <=> hit
  BY <1>4, <1>5, <1>6, <1>7
<1>9. Expected(line, o) = IF o.invert THEN IF hit THEN <<line, 0>> ELSE <<new, 1>>
                          ELSE IF ~hit THEN <<line, 0>>
                          ELSE IF o.inside THEN <<Inside(line, o), Cardinality(at)>>
                          ELSE <<new, 1>>
  BY <1>1, <1>5 DEF Expected, Inside
<1>10. EditLine(line, expr, o) =
         IF o.invert
         THEN IF n # 0 THEN [line |-> line, count |-> 0] ELSE [line |-> new, count |-> 1]
         ELSE IF n = 0 THEN [line |-> line, count |-> 0]
         ELSE [line |-> ReplaceLine(line, expr, o),
               count |-> IF o.inside /\ ~o.first THEN n ELSE 1]
  BY <1>1 DEF EditLine
<1>11. CASE o.invert /\ ~hit
  <2>1. EditLine(line, expr, o) = [line |-> new, count |-> 1]
    BY <1>8, <1>10, <1>11
  <2>2. Expected(line, o) = <<new, 1>>
    BY <1>9, <1>11
  <2> QED
    BY <1>1, <1>2, <2>1, <2>2
<1>12. CASE IF o.invert THEN hit ELSE ~hit
  <2>1. EditLine(line, expr, o) = [line |-> line, count |-> 0]
    BY <1>8, <1>10, <1>12
  <2>2. Expected(line, o) = <<line, 0>>
    BY <1>9, <1>12
  <2> QED
    BY <1>1, <2>1, <2>2
<1>13. CASE ~o.invert /\ hit /\ o.inside
  <2>1. ReplaceLine(line, expr, o) = Inside(line, o) /\ Inside(line, o) \in Seq(KpSigns)
    BY <1>1, <1>13, ReplaceInside
  <2>2. Cardinality(at) = IF o.first THEN 1 ELSE n
    <3>1. at # {} /\ all # <<>>
      BY <1>4, <1>5, <1>13
    <3>2. UsedMatches(line, o) = IF o.first THEN <<Head(all)>> ELSE all
      BY <1>1, <3>1 DEF UsedMatches
    <3>3. Len(<<Head(all)>>) = 1
      OBVIOUS
    <3> QED
      BY <1>4, <1>7, <1>13, <3>2, <3>3
  <2>3. EditLine(line, expr, o) = [line |-> ReplaceLine(line, expr, o),
                                   count |-> IF ~o.first THEN n ELSE 1]
    BY <1>8, <1>10, <1>13
  <2>4. Expected(line, o) = <<Inside(line, o), Cardinality(at)>>
    BY <1>9, <1>13
  <2> QED
    BY <1>1, <2>1, <2>2, <2>3, <2>4
<1>14. CASE ~o.invert /\ hit /\ ~o.inside
  <2>1. n = 1
    BY <1>7, <1>8, <1>14
  <2>2. ReplaceLine(line, expr, o) = new
    <3>1. Formatted(EscapeReplacement(o.text[2])) = new
      BY <1>1, NewFormatted
    <3> QED
      BY <1>1, <1>14, <2>1, <3>1 DEF ReplaceLine
  <2>3. EditLine(line, expr, o) = [line |-> new, count |-> 1]
    BY <1>8, <1>10, <1>14, <2>2
  <2>4. Expected(line, o) = <<new, 1>>
    BY <1>9, <1>14
  <2> QED
    BY <1>1, <1>2, <2>3, <2>4
<1> QED
  BY <1>11, <1>12, <1>13, <1>14

\* The lines a range selects.
LEMMA SelectionMeansRange ==
  ASSUME NEW range, NEW total, NEW i,
         range.kind \in {"all", "range", "first", "last"}, range.from \in Nat, range.to \in Nat,
         total \in Nat, i \in 1 .. total
  PROVE  LineSelected(i, total, range) <=> InRange(i, total, range)
<1>1. Min({total, range.from}) = IF total <= range.from THEN total ELSE range.from
  <2>1. PICK a, b : a = total /\ b = range.from
    OBVIOUS
  <2>2. a \in Nat /\ b \in Nat
    BY <2>1
  <2>3. PICK m : m = IF a <= b THEN a ELSE b
    OBVIOUS
  <2>4. m \in {a, b} /\ \A y \in {a, b} : m <= y
    BY <2>2, <2>3
  <2>5. ASSUME NEW z \in {a, b}, \A y \in {a, b} : z <= y
        PROVE  z = m
    BY <2>2, <2>4, <2>5
  <2>6. Min({a, b}) = m
    BY <2>4, <2>5 DEF Min
  <2> QED
    BY <2>1, <2>3, <2>6
<1>2. CASE range.kind = "all"
  BY <1>2 DEF LineSelected, InRange
<1>3. CASE range.kind = "range"
  BY <1>3 DEF LineSelected, InRange
<1>4. CASE range.kind = "first"
  BY <1>4 DEF LineSelected, InRange
<1>5. CASE range.kind = "last"
  BY <1>1, <1>5 DEF LineSelected, InRange
<1> QED
  BY <1>2, <1>3, <1>4, <1>5

-----------------------------------------------------------------------------
(* Lines and newlines.                                                     *)

\* What is held: the lines that have ended, and the one that has not.
IsRead(acc, done, line) == acc = [done |-> done, line |-> line]

LEMMA ReadNewline ==
  ASSUME NEW acc, NEW done, NEW line, NEW c, IsRead(acc, done, line), c = "nl"
  PROVE  IsRead(SplitChar(acc, c), Append(done, line), <<>>)
<1>1. acc.done = done /\ acc.line = line
  BY DEF IsRead
<1>2. SplitChar(acc, c) = [done |-> Append(acc.done, acc.line), line |-> <<>>]
  BY Zenon DEF SplitChar
<1> QED
  BY <1>1, <1>2 DEF IsRead

LEMMA ReadOther ==
  ASSUME NEW acc, NEW done, NEW line, NEW c, IsRead(acc, done, line), c # "nl"
  PROVE  IsRead(SplitChar(acc, c), done, Append(line, c))
<1>1. acc = [done |-> done, line |-> line]
  BY DEF IsRead
<1>2. SplitChar(acc, c) = [acc EXCEPT !.line = Append(@, c)]
  BY Zenon DEF SplitChar
<1>3. [acc EXCEPT !.line = Append(@, c)] = [done |-> done, line |-> Append(line, c)]
  BY <1>1
<1> QED
  BY <1>2, <1>3 DEF IsRead

\* The characters of x stand in s from position q on.
StandsAt(x, s, q) ==
  /\ q \in Nat /\ q + Len(x) <= Len(s)
  /\ \A k \in 1 .. Len(x) : s[q + k] = x[k]

SplitsStep(f, s) == \A n \in 0 .. Len(s) - 1 : f[n + 1] = SplitChar(f[n], s[n + 1])

\* A line is read from its beginning to its end.
LEMMA LineRead ==
  ASSUME NEW T, NEW f, NEW s, NEW q, NEW x, NEW done, "nl" \notin T, x \in Seq(T),
         Len(s) \in Nat, StandsAt(x, s, q), SplitsStep(f, s), IsRead(f[q], done, <<>>)
  PROVE  IsRead(f[q + Len(x)], done, x)
<1>1. PICK m : m = Len(x)
  OBVIOUS
<1>2. m \in Nat /\ \A k \in 1 .. m : x[k] \in T
  BY <1>1, SeqFacts
<1>3. q \in Nat /\ q + m <= Len(s) /\ \A k \in 1 .. m : s[q + k] = x[k]
  BY <1>1 DEF StandsAt
<1> DEFINE G == {k \in Nat : IsRead(f[q + k], done, SubSeq(x, 1, k))}
<1>4. 0 \in G
  <2>1. SubSeq(x, 1, 0) = <<>> /\ q + 0 = q
    BY <1>2, <1>3
  <2> QED
    BY <2>1, Zenon
<1>5. ASSUME NEW k \in 0 .. m - 1, k \in G
      PROVE  k + 1 \in G
  <2>1. k \in Nat /\ k + 1 \in Nat /\ k + 1 \in 1 .. m /\ k \in 0 .. Len(x) - 1
    BY <1>1, <1>2
  <2>2. PICK t, more, c : t = SubSeq(x, 1, k) /\ more = SubSeq(x, 1, k + 1) /\ c = x[k + 1]
    BY Zenon
  <2>3. Append(t, c) = more
    BY <2>1, <2>2, PrefixFacts
  <2>4. c # "nl"
    BY <1>2, <2>1, <2>2
  <2>5. PICK n : n = q + k
    OBVIOUS
  <2>6. n \in 0 .. Len(s) - 1 /\ q + (k + 1) = n + 1
    BY <1>2, <1>3, <2>1, <2>5
  <2>7. f[n + 1] = SplitChar(f[n], c)
    <3>1. s[n + 1] = c
      BY <1>3, <2>1, <2>2, <2>6
    <3> QED
      BY <2>6, <3>1 DEF SplitsStep
  <2>8. IsRead(f[n], done, t)
    BY <1>5, <2>2, <2>5
  <2>9. IsRead(f[n + 1], done, more)
    BY <2>3, <2>4, <2>7, <2>8, ReadOther, Zenon
  <2> QED
    BY <2>1, <2>2, <2>6, <2>9
<1> HIDE DEF G
<1>6. PICK first : first = 0
  OBVIOUS
<1>7. Inductive(G, first, m)
  BY <1>2, <1>4, <1>5, <1>6 DEF Inductive
<1>8. m \in first .. m
  BY <1>2, <1>6
<1>9. m \in G
  BY <1>7, <1>8, RangeInduction
<1>10. IsRead(f[q + m], done, SubSeq(x, 1, m))
  BY <1>9 DEF G
<1>11. SubSeq(x, 1, m) = x
  BY <1>1, <1>2
<1> QED
  BY <1>1, <1>10, <1>11, Zenon

\* Every newline ends a line, and only what stands behind the last one has not ended.
LEMMA NewlinesEndLines ==
  ASSUME NEW T, NEW f, NEW s, "nl" \notin T, s \in Seq(T \cup {"nl"}), SplitRun(f, s, T)
  PROVE  /\ Newlines(s) = Len(f[Len(s)].done)
         /\ f[Len(s)].line = <<>> <=> s = <<>> \/ Last(s) = "nl"
<1>1. PICK last : last = Len(s)
  OBVIOUS
<1>2. last \in Nat /\ DOMAIN s = 1 .. last
  BY <1>1, SeqFacts
<1>3. /\ f[0] = NoLines
      /\ \A n \in 0 .. last : f[n] \in SplitStates(T)
      /\ \A n \in 0 .. last - 1 : f[n + 1] = SplitChar(f[n], s[n + 1])
  BY <1>1 DEF SplitRun
<1>4. \A n \in 0 .. last : f[n].done \in Seq(Seq(T)) /\ f[n].line \in Seq(T)
  BY <1>3 DEF SplitStates
<1>5. ASSUME NEW n \in 0 .. last - 1
      PROVE  /\ s[n + 1] = "nl" => /\ Len(f[n + 1].done) = Len(f[n].done) + 1
                                   /\ f[n + 1].line = <<>>
             /\ s[n + 1] # "nl" => f[n + 1].done = f[n].done /\ f[n + 1].line # <<>>
  <2>1. PICK acc, c, done, line : /\ acc = f[n] /\ c = s[n + 1] /\ done = f[n].done
                                  /\ line = f[n].line
    OBVIOUS
  <2>2. done \in Seq(Seq(T)) /\ line \in Seq(T) /\ f[n + 1] = SplitChar(acc, c)
    BY <1>2, <1>3, <1>4, <2>1
  <2>3. IsRead(acc, done, line)
    <3>1. acc \in SplitStates(T)
      BY <1>2, <1>3, <2>1
    <3> QED
      BY <2>1, <3>1 DEF SplitStates, IsRead
  <2>4. CASE c = "nl"
    <3>1. IsRead(f[n + 1], Append(done, line), <<>>)
      BY <2>2, <2>3, <2>4, ReadNewline
    <3>2. f[n + 1].done = Append(done, line) /\ f[n + 1].line = <<>>
      BY <3>1 DEF IsRead
    <3>3. Len(Append(done, line)) = Len(done) + 1
      <4>1. PICK B : B = Seq(T)
        OBVIOUS
      <4> QED
        BY <2>2, <4>1, AppendFacts
    <3> QED
      BY <2>1, <2>4, <3>2, <3>3
  <2>5. CASE c # "nl"
    <3>1. IsRead(f[n + 1], done, Append(line, c))
      BY <2>2, <2>3, <2>5, ReadOther
    <3>2. f[n + 1].done = done /\ f[n + 1].line = Append(line, c)
      BY <3>1 DEF IsRead
    <3>3. Append(line, c) # <<>>
      BY <2>2
    <3> QED
      BY <2>1, <2>5, <3>2, <3>3
  <2> QED
    BY <2>1, <2>4, <2>5
<1> DEFINE ends(n) == {i \in 1 .. n : s[i] = "nl"}
           G == {n \in Nat : IsFiniteSet(ends(n)) /\ Cardinality(ends(n)) = Len(f[n].done)}
<1>6. 0 \in G
  <2>1. ends(0) = {}
    OBVIOUS
  <2>2. Len(f[0].done) = 0
    BY <1>3 DEF NoLines
  <2> QED
    BY <2>1, <2>2, FS_EmptySet
<1>7. ASSUME NEW n \in 0 .. last - 1, n \in G
      PROVE  n + 1 \in G
  <2>1. n \in Nat /\ n + 1 \in Nat /\ n + 1 \notin ends(n)
    BY <1>2
  <2>2. IsFiniteSet(ends(n)) /\ Cardinality(ends(n)) = Len(f[n].done)
    BY <1>7
  <2>3. CASE s[n + 1] = "nl"
    <3>1. ends(n + 1) = ends(n) \cup {n + 1}
      BY <2>1, <2>3
    <3> HIDE DEF ends
    <3>2. IsFiniteSet(ends(n + 1)) /\ Cardinality(ends(n + 1)) = Cardinality(ends(n)) + 1
      <4>1. PICK E, x : E = ends(n) /\ x = n + 1
        OBVIOUS
      <4>2. IsFiniteSet(E) /\ x \notin E
        BY <2>1, <2>2, <4>1
      <4>3. IsFiniteSet(E \cup {x}) /\ Cardinality(E \cup {x}) = Cardinality(E) + 1
        BY <4>2, FS_AddElement
      <4> QED
        BY <3>1, <4>1, <4>3, Zenon
    <3> QED
      BY <1>5, <2>1, <2>2, <2>3, <3>2, Zenon
  <2>4. CASE s[n + 1] # "nl"
    <3>1. ends(n + 1) = ends(n)
      BY <2>1, <2>4
    <3> HIDE DEF ends
    <3> QED
      BY <1>5, <2>1, <2>2, <2>4, <3>1
  <2> QED
    BY <2>3, <2>4
<1> HIDE DEF G
<1>8. PICK first : first = 0
  OBVIOUS
<1>9. Inductive(G, first, last)
  BY <1>2, <1>6, <1>7, <1>8 DEF Inductive
<1>10. last \in first .. last
  BY <1>2, <1>8
<1>11. last \in G
  BY <1>9, <1>10, RangeInduction
<1>12. Newlines(s) = Len(f[last].done)
  <2>1. Cardinality(ends(last)) = Len(f[last].done)
    BY <1>11 DEF G
  <2> QED
    BY <1>2, <2>1, Zenon DEF Newlines
<1>13. f[last].line = <<>> <=> s = <<>> \/ Last(s) = "nl"
  <2>1. CASE s = <<>>
    <3>1. last = 0
      BY <1>1, <2>1
    <3> QED
      BY <1>3, <2>1, <3>1 DEF NoLines
  <2>2. CASE s # <<>>
    <3>1. last # 0 /\ Last(s) = s[last]
      BY <1>1, <2>2, SeqFacts DEF Last
    <3>2. PICK n : n = last - 1
      OBVIOUS
    <3>3. n \in 0 .. last - 1 /\ last = n + 1
      BY <1>2, <3>1, <3>2
    <3> QED
      BY <1>5, <2>2, <3>1, <3>3
  <2> QED
    BY <2>1, <2>2
<1> QED
  BY <1>1, <1>12, <1>13

\* A line as it is written: the last one without a newline if the input's has none.
WrittenLine(lines, final, i) ==
  IF i < Len(lines) \/ final THEN Append(lines[i], "nl") ELSE lines[i]

\* The line n + 1 stands from position p[n] on.
JoinedAt(p, lines, final, s) ==
  /\ p[0] = 0 /\ Len(s) = p[Len(lines)]
  /\ \A n \in 0 .. Len(lines) : p[n] \in Nat /\ p[n] <= Len(s)
  /\ \A n \in 0 .. Len(lines) - 1 :
       /\ StandsAt(WrittenLine(lines, final, n + 1), s, p[n])
       /\ p[n + 1] = p[n] + Len(WrittenLine(lines, final, n + 1))

LEMMA JoinLaid ==
  ASSUME NEW T, NEW lines, NEW final, NEW s, lines \in Seq(Seq(T)),
         s = JoinLines(lines, final)
  PROVE  /\ s \in Seq(T \cup {"nl"})
         /\ \E p : JoinedAt(p, lines, final, s)
<1>1. PICK last, A, B, ss : /\ last = Len(lines) /\ A = T \cup {"nl"} /\ B = Seq(A)
                            /\ ss = [i \in 1 .. last |-> WrittenLine(lines, final, i)]
  BY Zenon
<1>2. last \in Nat /\ DOMAIN lines = 1 .. last /\ \A i \in 1 .. last : lines[i] \in Seq(T)
  <2>1. PICK C : C = Seq(T)
    OBVIOUS
  <2>2. last \in Nat /\ DOMAIN lines = 1 .. last /\ \A i \in 1 .. last : lines[i] \in C
    BY <1>1, <2>1, SeqFacts
  <2> QED
    BY <2>1, <2>2
<1>3. ASSUME NEW i \in 1 .. last
      PROVE  WrittenLine(lines, final, i) \in B
  <2>1. PICK x : x = lines[i]
    OBVIOUS
  <2>2. x \in Seq(T)
    BY <1>2, <2>1
  <2>3. x \in Seq(A)
    <3>1. T \subseteq A
      BY <1>1
    <3> QED
      BY <2>2, <3>1
  <2>4. PICK c : c = "nl"
    OBVIOUS
  <2>5. c \in A
    BY <1>1, <2>4
  <2>6. Append(x, c) \in Seq(A)
    BY <2>3, <2>5, AppendFacts
  <2> QED
    BY <1>1, <2>1, <2>3, <2>4, <2>6 DEF WrittenLine
<1>4. ss \in [1 .. last -> B] /\ \A i \in 1 .. last : ss[i] = WrittenLine(lines, final, i)
  BY <1>1, <1>3
<1>5. ss \in Seq(B) /\ Len(ss) = last
  BY <1>2, <1>4, FunctionIsSeq
<1>6. s = FlattenSeq(ss)
  BY <1>1, <1>2 DEF JoinLines, WrittenLine
<1>7. ss \in Seq(Seq(A))
  BY <1>1, <1>5
<1>8. s \in Seq(A)
  BY <1>6, <1>7, FlattenType
<1>9. PICK p : Laid(p, ss, s)
  BY <1>6, <1>7, FlattenLaid
<1>10. \A n \in 0 .. last : p[n] <= Len(s)
  BY <1>5, <1>7, <1>9, LaidWithin
<1>11. /\ p[0] = 0 /\ Len(s) = p[last]
       /\ \A n \in 0 .. last : p[n] \in Nat
       /\ \A n \in 0 .. last - 1 : p[n + 1] = p[n] + Len(ss[n + 1])
       /\ \A n \in 0 .. last - 1 : \A k \in 1 .. Len(ss[n + 1]) : s[p[n] + k] = ss[n + 1][k]
  BY <1>5, <1>9 DEF Laid
<1>12. ASSUME NEW n \in 0 .. last - 1
       PROVE  /\ StandsAt(WrittenLine(lines, final, n + 1), s, p[n])
              /\ p[n + 1] = p[n] + Len(WrittenLine(lines, final, n + 1))
  <2>1. n + 1 \in 1 .. last /\ n \in 0 .. last /\ n + 1 \in 0 .. last
    BY <1>2
  <2>2. PICK x : x = WrittenLine(lines, final, n + 1)
    OBVIOUS
  <2>3. ss[n + 1] = x /\ p[n + 1] = p[n] + Len(x) /\ p[n + 1] <= Len(s) /\ p[n] \in Nat
    BY <1>4, <1>10, <1>11, <2>1, <2>2
  <2>4. \A k \in 1 .. Len(x) : s[p[n] + k] = x[k]
    BY <1>11, <2>3, Zenon
  <2> QED
    BY <2>2, <2>3, <2>4 DEF StandsAt
<1>13. JoinedAt(p, lines, final, s)
  BY <1>1, <1>10, <1>11, <1>12 DEF JoinedAt
<1> QED
  BY <1>1, <1>8, <1>13

\* The lines that end with a newline, and the line behind them.
EndedLines(lines, final) ==
  IF final \/ lines = <<>> THEN lines ELSE SubSeq(lines, 1, Len(lines) - 1)

OpenLine(lines, final) ==
  IF final \/ lines = <<>> THEN <<>> ELSE lines[Len(lines)]

\* A line that is written with a newline is read as it was.
LEMMA WrittenIsRead ==
  ASSUME NEW T, NEW f, NEW s, NEW q, NEW x, NEW done, NEW ended, "nl" \notin T, x \in Seq(T),
         Len(s) \in Nat, ended = Append(x, "nl"), StandsAt(ended, s, q),
         SplitsStep(f, s), IsRead(f[q], done, <<>>)
  PROVE  IsRead(f[q + Len(ended)], Append(done, x), <<>>)
<1>1. PICK m, c : m = Len(x) /\ c = "nl"
  OBVIOUS
<1>2. /\ m \in Nat /\ Len(ended) = m + 1 /\ ended[m + 1] = c
      /\ \A k \in 1 .. m : ended[k] = x[k]
  <2>1. PICK A : A = T \cup {c}
    BY Zenon
  <2>2. x \in Seq(A) /\ c \in A
    <3>1. T \subseteq A
      BY <2>1
    <3> QED
      BY <2>1, <3>1
  <2>3. ended = Append(x, c)
    BY <1>1
  <2> QED
    BY <1>1, <2>2, <2>3, AppendFacts
<1>3. /\ q \in Nat /\ q + (m + 1) <= Len(s)
      /\ \A k \in 1 .. m + 1 : s[q + k] = ended[k]
  BY <1>2, Zenon DEF StandsAt
<1>4. StandsAt(x, s, q)
  <2>1. \A k \in 1 .. m : s[q + k] = x[k]
    BY <1>2, <1>3
  <2>2. q + m <= Len(s)
    BY <1>2, <1>3
  <2> QED
    BY <1>1, <1>3, <2>1, <2>2 DEF StandsAt
<1>5. IsRead(f[q + m], done, x)
  BY <1>1, <1>4, LineRead, Zenon
<1>6. PICK n : n = q + m
  OBVIOUS
<1>7. n \in 0 .. Len(s) - 1 /\ q + (m + 1) = n + 1
  BY <1>2, <1>3, <1>6
<1>8. f[n + 1] = SplitChar(f[n], c)
  <2>1. s[n + 1] = c
    <3>1. m + 1 \in 1 .. m + 1
      BY <1>2
    <3> QED
      BY <1>2, <1>3, <1>7, <3>1
  <2> QED
    BY <1>7, <2>1 DEF SplitsStep
<1>9. IsRead(f[n + 1], Append(done, x), <<>>)
  BY <1>1, <1>5, <1>6, <1>8, ReadNewline
<1> QED
  BY <1>2, <1>7, <1>9

\* What is written is read as the lines it was written from.
LEMMA JoinedSplit ==
  ASSUME NEW T, NEW lines, NEW final, NEW s, "nl" \notin T, lines \in Seq(Seq(T)),
         s = JoinLines(lines, final)
  PROVE  \E f : /\ SplitRun(f, s, T)
                /\ IsRead(f[Len(s)], EndedLines(lines, final), OpenLine(lines, final))
<1>1. PICK last : last = Len(lines)
  OBVIOUS
<1>2. /\ last \in Nat /\ \A i \in 1 .. last : lines[i] \in Seq(T)
      /\ lines = <<>> <=> last = 0
  <2>1. PICK C : C = Seq(T)
    OBVIOUS
  <2>2. /\ last \in Nat /\ \A i \in 1 .. last : lines[i] \in C
        /\ lines = <<>> <=> last = 0
    BY <1>1, <2>1, SeqFacts
  <2> QED
    BY <2>1, <2>2
<1>3. s \in Seq(T \cup {"nl"}) /\ Len(s) \in Nat
  <2>1. s \in Seq(T \cup {"nl"})
    BY JoinLaid
  <2> QED
    BY <2>1, SeqFacts
<1>4. PICK p : /\ p[0] = 0 /\ Len(s) = p[last]
               /\ \A n \in 0 .. last : p[n] \in Nat /\ p[n] <= Len(s)
               /\ \A n \in 0 .. last - 1 :
                    /\ StandsAt(WrittenLine(lines, final, n + 1), s, p[n])
                    /\ p[n + 1] = p[n] + Len(WrittenLine(lines, final, n + 1))
  <2>1. PICK p : JoinedAt(p, lines, final, s)
    BY JoinLaid, Zenon
  <2> QED
    BY <1>1, <2>1, Zenon DEF JoinedAt
<1>5. PICK f : SplitRun(f, s, T)
  BY <1>3, SplitFunction, Zenon
<1>6. SplitsStep(f, s) /\ f[0] = NoLines
  BY <1>5 DEF SplitRun, SplitsStep
<1>7. PICK m : m = IF final \/ last = 0 THEN last ELSE last - 1
  OBVIOUS
<1>8. m \in Nat /\ m \in 0 .. last
  BY <1>2, <1>7
<1> DEFINE G == {n \in Nat : IsRead(f[p[n]], SubSeq(lines, 1, n), <<>>)}
<1>9. 0 \in G
  <2>1. SubSeq(lines, 1, 0) = <<>>
    OBVIOUS
  <2>2. IsRead(NoLines, <<>>, <<>>)
    BY DEF IsRead, NoLines
  <2> QED
    BY <1>4, <1>6, <2>1, <2>2, Zenon
<1>10. ASSUME NEW n \in 0 .. m - 1, n \in G
       PROVE  n + 1 \in G
  <2>1. /\ n \in Nat /\ n + 1 \in Nat /\ n + 1 \in 1 .. last /\ n \in 0 .. last - 1
        /\ n + 1 < last \/ final
    BY <1>2, <1>7, <1>8
  <2>2. PICK x, done, more, w, q : /\ x = lines[n + 1] /\ done = SubSeq(lines, 1, n)
                                   /\ more = SubSeq(lines, 1, n + 1) /\ q = p[n]
                                   /\ w = WrittenLine(lines, final, n + 1)
    BY Zenon
  <2>3. w = Append(x, "nl")
    BY <1>1, <2>1, <2>2 DEF WrittenLine
  <2>4. x \in Seq(T) /\ StandsAt(w, s, q) /\ p[n + 1] = q + Len(w)
    BY <1>2, <1>4, <2>1, <2>2
  <2>5. IsRead(f[q], done, <<>>)
    BY <1>10, <2>2
  <2>6. IsRead(f[q + Len(w)], Append(done, x), <<>>)
    BY <1>3, <1>6, <2>3, <2>4, <2>5, WrittenIsRead, Zenon
  <2>7. Append(done, x) = more
    <3>1. PICK B : B = Seq(T)
      OBVIOUS
    <3>2. lines \in Seq(B) /\ n \in 0 .. Len(lines) - 1
      BY <1>1, <2>1, <3>1
    <3> QED
      BY <2>2, <3>2, PrefixFacts
  <2> QED
    BY <2>1, <2>2, <2>4, <2>6, <2>7, Zenon
<1> HIDE DEF G
<1>11. PICK first : first = 0
  OBVIOUS
<1>12. Inductive(G, first, m)
  BY <1>8, <1>9, <1>10, <1>11 DEF Inductive
<1>13. m \in first .. m
  BY <1>8, <1>11
<1>14. m \in G
  BY <1>12, <1>13, RangeInduction
<1>15. IsRead(f[p[m]], SubSeq(lines, 1, m), <<>>)
  BY <1>14 DEF G
<1>16. CASE final \/ last = 0
  <2>1. m = last /\ SubSeq(lines, 1, last) = lines
    <3>1. PICK B : B = Seq(T)
      OBVIOUS
    <3>2. lines \in Seq(B)
      BY <3>1
    <3> QED
      BY <1>1, <1>7, <1>16, <3>2
  <2>2. EndedLines(lines, final) = lines /\ OpenLine(lines, final) = <<>>
    BY <1>2, <1>16 DEF EndedLines, OpenLine
  <2>3. IsRead(f[Len(s)], lines, <<>>)
    BY <1>4, <1>15, <2>1, Zenon
  <2> QED
    BY <1>5, <2>2, <2>3
<1>17. CASE ~(final \/ last = 0)
  <2>1. /\ m = last - 1 /\ m + 1 = last /\ last \in 1 .. last /\ m \in 0 .. last - 1
        /\ ~(m + 1 < last)
    BY <1>2, <1>7, <1>17
  <2>2. PICK x, q : x = lines[last] /\ q = p[m]
    OBVIOUS
  <2>3. WrittenLine(lines, final, m + 1) = x
    BY <1>1, <1>17, <2>1, <2>2 DEF WrittenLine
  <2>4. x \in Seq(T) /\ StandsAt(x, s, q) /\ p[last] = q + Len(x)
    BY <1>2, <1>4, <2>1, <2>2, <2>3, Zenon
  <2>5. IsRead(f[q + Len(x)], SubSeq(lines, 1, m), x)
    BY <1>3, <1>6, <1>15, <2>2, <2>4, LineRead, Zenon
  <2>6. EndedLines(lines, final) = SubSeq(lines, 1, m) /\ OpenLine(lines, final) = x
    BY <1>1, <1>2, <1>17, <2>1, <2>2 DEF EndedLines, OpenLine
  <2> QED
    BY <1>4, <1>5, <2>4, <2>5, <2>6
<1> QED
  BY <1>16, <1>17

\* Whether a text ends with a newline.
EndsWithNewline(s) == s # <<>> /\ Last(s) = "nl"

\* The newlines of a text with these lines.
NewlinesOf(lines, final) ==
  IF final \/ lines = <<>> THEN Len(lines) ELSE Len(lines) - 1

\* The lines are read again, but for an empty one behind the last newline.
HoldsLines(s, lines) ==
  \A i \in 1 .. Len(lines) :
    lines[i] # <<>> \/ i < Len(lines) =>
      i \in DOMAIN SplitLines(s) /\ SplitLines(s)[i] = lines[i]

LEMMA SplitFacts ==
  ASSUME NEW T, NEW s, "nl" \notin T, s \in Seq(T \cup {"nl"})
  PROVE  /\ SplitLines(s) \in Seq(Seq(T))
         /\ Newlines(s) = NewlinesOf(SplitLines(s), EndsWithNewline(s))
<1>1. PICK f : SplitRun(f, s, T)
  BY SplitFunction, Zenon
<1>2. PICK B, done, line, lines : /\ B = Seq(T) /\ done = f[Len(s)].done
                                  /\ line = f[Len(s)].line /\ lines = SplitLines(s)
  BY Zenon
<1>3. Len(s) \in Nat /\ Len(s) \in 0 .. Len(s)
  BY SeqFacts
<1>4. done \in Seq(B) /\ line \in B
  BY <1>1, <1>2, <1>3 DEF SplitRun, SplitStates
<1>5. lines = IF line = <<>> THEN done ELSE Append(done, line)
  BY <1>1, <1>2 DEF SplitRun, LinesOf
<1>6. Newlines(s) = Len(done) /\ (line = <<>> <=> s = <<>> \/ Last(s) = "nl")
  BY <1>1, <1>2, NewlinesEndLines
<1>7. CASE line = <<>> /\ s # <<>>
  <2>1. EndsWithNewline(s) /\ lines = done
    BY <1>5, <1>6, <1>7 DEF EndsWithNewline
  <2> QED
    BY <1>2, <1>4, <1>6, <2>1 DEF NewlinesOf
<1>8. CASE s = <<>>
  <2>1. Len(s) = 0
    BY <1>8
  <2>2. f[Len(s)] = NoLines
    BY <1>1, <2>1 DEF SplitRun
  <2>3. done = <<>> /\ line = <<>>
    BY <1>2, <2>2 DEF NoLines
  <2>4. lines = done
    BY <1>5, <2>3
  <2> QED
    BY <1>2, <1>4, <1>6, <2>3, <2>4 DEF NewlinesOf
<1>9. CASE line # <<>>
  <2>1. ~EndsWithNewline(s) /\ lines = Append(done, line)
    BY <1>5, <1>6, <1>9 DEF EndsWithNewline
  <2>2. lines \in Seq(B) /\ lines # <<>> /\ Len(lines) = Len(done) + 1 /\ Len(done) \in Nat
    BY <1>4, <2>1, AppendFacts
  <2> QED
    BY <1>2, <1>6, <2>1, <2>2 DEF NewlinesOf
<1> QED
  BY <1>7, <1>8, <1>9

\* The text s is written from lines of characters in T.
WrittenFrom(s, lines, final, T) ==
  "nl" \notin T /\ lines \in Seq(Seq(T)) /\ s = JoinLines(lines, final)

LEMMA JoinFacts ==
  ASSUME NEW T, NEW lines, NEW final, NEW s, WrittenFrom(s, lines, final, T)
  PROVE  /\ s \in Seq(T \cup {"nl"})
         /\ Newlines(s) = NewlinesOf(lines, final)
         /\ HoldsLines(s, lines)
<1>0. "nl" \notin T /\ lines \in Seq(Seq(T)) /\ s = JoinLines(lines, final)
  BY DEF WrittenFrom
<1>1. s \in Seq(T \cup {"nl"})
  BY <1>0, JoinLaid
<1>2. PICK f : /\ SplitRun(f, s, T)
               /\ IsRead(f[Len(s)], EndedLines(lines, final), OpenLine(lines, final))
  BY <1>0, JoinedSplit
<1>3. PICK B, done, line, last : /\ B = Seq(T) /\ done = EndedLines(lines, final)
                                 /\ line = OpenLine(lines, final) /\ last = Len(lines)
  OBVIOUS
<1>4. /\ lines \in Seq(B) /\ last \in Nat /\ DOMAIN lines = 1 .. last
      /\ \A i \in 1 .. last : lines[i] \in B
      /\ lines = <<>> <=> last = 0
  BY <1>0, <1>3, SeqFacts
<1>5. f[Len(s)].done = done /\ f[Len(s)].line = line
  BY <1>2, <1>3 DEF IsRead
<1>6. Newlines(s) = Len(done)
  BY <1>0, <1>1, <1>2, <1>5, NewlinesEndLines
<1>7. SplitLines(s) = IF line = <<>> THEN done ELSE Append(done, line)
  BY <1>2, <1>5 DEF SplitRun, LinesOf
<1>8. CASE final \/ lines = <<>>
  <2>1. done = lines /\ line = <<>>
    BY <1>3, <1>8 DEF EndedLines, OpenLine
  <2>2. SplitLines(s) = lines
    BY <1>7, <2>1
  <2> QED
    BY <1>1, <1>3, <1>4, <1>6, <1>8, <2>1, <2>2 DEF NewlinesOf, HoldsLines
<1>9. CASE ~(final \/ lines = <<>>)
  <2>1. PICK m : m = last - 1
    OBVIOUS
  <2>2. m \in Nat /\ last = m + 1 /\ m \in 0 .. last
    BY <1>4, <1>9, <2>1
  <2>3. done = SubSeq(lines, 1, m) /\ line = lines[last]
    BY <1>3, <1>9, <2>1 DEF EndedLines, OpenLine
  <2>4. done \in Seq(B) /\ Len(done) = m /\ \A i \in 1 .. m : done[i] = lines[i]
    BY <1>3, <1>4, <2>2, <2>3
  <2>5. line \in B
    BY <1>4, <2>2, <2>3
  <2>6. ASSUME NEW i \in 1 .. last, lines[i] # <<>> \/ i < last
        PROVE  i \in DOMAIN SplitLines(s) /\ SplitLines(s)[i] = lines[i]
    <3>1. CASE line = <<>>
      <4>1. i \in 1 .. m
        <5>1. i # last
          <6>1. SUFFICES ASSUME i = last
                         PROVE  FALSE
            OBVIOUS
          <6>2. lines[i] = <<>>
            BY <2>3, <3>1, <6>1, Zenon
          <6>3. last \in Nat
            BY <1>4
          <6>4. ~(i < last)
            BY <6>1, <6>3
          <6> QED
            BY <2>6, <6>2, <6>4
        <5> QED
          BY <2>2, <5>1
      <4>2. SplitLines(s) = done /\ DOMAIN done = 1 .. m
        BY <1>7, <2>4, <3>1
      <4> QED
        BY <2>4, <4>1, <4>2
    <3>2. CASE line # <<>>
      <4>1. PICK all : all = Append(done, line)
        BY Zenon
      <4>2. /\ all \in Seq(B) /\ Len(all) = m + 1 /\ all[m + 1] = line
            /\ \A j \in 1 .. m : all[j] = done[j]
        BY <2>4, <2>5, <4>1, AppendFacts
      <4>3. DOMAIN all = 1 .. last
        BY <2>2, <4>2
      <4>4. all[i] = lines[i]
        <5>1. CASE i \in 1 .. m
          BY <2>4, <4>2, <5>1
        <5>2. CASE i = last
          BY <2>2, <2>3, <4>2, <5>2
        <5>3. i \in 1 .. m \/ i = last
          BY <2>2
        <5> QED
          BY <5>1, <5>2, <5>3
      <4>5. SplitLines(s) = all
        BY <1>7, <3>2, <4>1
      <4> QED
        BY <4>3, <4>4, <4>5
    <3> QED
      BY <3>1, <3>2
  <2> QED
    BY <1>1, <1>3, <1>6, <1>9, <2>1, <2>4, <2>6 DEF NewlinesOf, HoldsLines
<1> QED
  BY <1>8, <1>9

-----------------------------------------------------------------------------
(* The steps of kp.                                                        *)

\* The text of the file with the lines edited, and the number of replacements.
EditedLines(k) == EditLines(SplitLines(k.input), k.opt)

EditedText(k) ==
  LET edited == EditedLines(k)
  IN  JoinLines([i \in DOMAIN edited |-> edited[i].line], EndsWithNewline(k.input))

EditedCount(k) ==
  LET edited == EditedLines(k) IN Total([i \in DOMAIN edited |-> edited[i].count])

KpPhases(k) ==
  /\ k = [opt |-> k.opt, pc |-> k.pc, input |-> k.input, output |-> k.output,
          count |-> k.count, exit |-> k.exit, lost |-> k.lost]
  /\ k.opt \in KpOptions /\ k.input \in KpInputs
  /\ k.pc # "done" => k.exit = -1 /\ k.output = <<"old">>
  /\ k.exit = 0 => IF k.opt.count
                   THEN k.count = EditedCount(k) /\ k.output = <<"old">>
                   ELSE k.lost \/ k.output = EditedText(k)

KpInv == IF tool = "kp" THEN KpPhases(kp) ELSE kp.exit = -1

LEMMA KpInitInv == Init => KpInv
<1> SUFFICES ASSUME Init
             PROVE  KpInv
  OBVIOUS
<1>1. CASE tool = "kp"
  <2>1. PICK opt \in KpOptions, s \in KpInputs : kp = KpStart(opt, s)
    <3>1. KpInit
      BY <1>1 DEF Init
    <3> QED
      BY <3>1, SMT DEF KpInit
  <2>2. kp = [opt |-> opt, pc |-> "read", input |-> s, output |-> <<"old">>, count |-> -1,
              exit |-> -1, lost |-> FALSE]
    BY <2>1 DEF KpStart
  <2> QED
    BY <1>1, <2>1, <2>2 DEF KpInv, KpPhases
<1>2. CASE tool # "kp"
  <2>1. kp = KpIdle
    BY <1>2 DEF Init
  <2> QED
    BY <1>2, <2>1 DEF KpIdle, KpStart, KpInv
<1> QED
  BY <1>1, <1>2

LEMMA KpStepInv ==
  ASSUME KpPhases(kp), KpStep
  PROVE  KpPhases(kp')
<1>1. PICK k : k = kp
  OBVIOUS
<1>2. /\ k = [opt |-> k.opt, pc |-> k.pc, input |-> k.input, output |-> k.output,
              count |-> k.count, exit |-> k.exit, lost |-> k.lost]
      /\ k.opt \in KpOptions /\ k.input \in KpInputs
      /\ k.pc # "done" => k.exit = -1 /\ k.output = <<"old">>
  BY <1>1 DEF KpPhases
<1>3. CASE KpFails
  <2>1. PICK text : kp' = [k EXCEPT !.pc = "done", !.exit = 1, !.output = text]
    <3>1. CASE kp' = [k EXCEPT !.pc = "done", !.exit = 1]
      BY <1>2, <3>1
    <3>2. CASE \E text : kp' = [k EXCEPT !.pc = "done", !.exit = 1, !.output = text]
      BY <3>2
    <3> QED
      BY <1>1, <1>3, <3>1, <3>2 DEF KpFails
  <2>2. kp' = [opt |-> k.opt, pc |-> "done", input |-> k.input, output |-> text,
               count |-> k.count, exit |-> 1, lost |-> k.lost]
    BY <1>2, <2>1, Zenon
  <2> QED
    BY <1>2, <2>2 DEF KpPhases
<1>4. CASE KpReads
  <2>1. k.pc = "read" /\ kp' = [k EXCEPT !.pc = "edit"]
    BY <1>1, <1>4 DEF KpReads
  <2>2. kp' = [opt |-> k.opt, pc |-> "edit", input |-> k.input, output |-> <<"old">>,
               count |-> k.count, exit |-> -1, lost |-> k.lost]
    BY <1>2, <2>1
  <2> QED
    BY <1>2, <2>2 DEF KpPhases
<1>5. CASE KpEdits
  <2>1. k.pc = "edit" /\ k.output = <<"old">>
    BY <1>1, <1>2, <1>5 DEF KpEdits
  <2>2. PICK text, total : text = EditedText(k) /\ total = EditedCount(k)
    OBVIOUS
  <2>3. PICK lost, output :
          /\ lost \/ output = text
          /\ kp' = IF k.opt.count
                   THEN [k EXCEPT !.pc = "done", !.exit = 0, !.lost = lost, !.count = total]
                   ELSE [k EXCEPT !.pc = "done", !.exit = 0, !.lost = lost, !.output = output]
    <3>1. PICK lost \in BOOLEAN :
            kp' = IF k.opt.count
                  THEN [k EXCEPT !.pc = "done", !.exit = 0, !.lost = lost, !.count = total]
                  ELSE [k EXCEPT !.pc = "done", !.exit = 0, !.lost = lost,
                          !.output = IF lost THEN <<"cut">> ELSE text]
      BY <1>1, <1>5, <2>2 DEF KpEdits, EditedText, EditedCount, EditedLines, EndsWithNewline
    <3>2. PICK output : output = IF lost THEN <<"cut">> ELSE text
      OBVIOUS
    <3>3. lost \/ output = text
      BY <3>2
    <3> QED
      BY <3>1, <3>2, <3>3
  <2>4. kp'.opt = k.opt /\ kp'.input = k.input /\ kp'.pc = "done"
    BY <1>2, <2>3
  <2>5. EditedText(kp') = text /\ EditedCount(kp') = total
    BY <2>2, <2>4 DEF EditedText, EditedCount, EditedLines
  <2>6. CASE k.opt.count
    <3>1. kp' = [opt |-> k.opt, pc |-> "done", input |-> k.input, output |-> <<"old">>,
                 count |-> total, exit |-> 0, lost |-> lost]
      BY <1>2, <2>1, <2>3, <2>6, Zenon
    <3> QED
      BY <1>2, <2>5, <2>6, <3>1 DEF KpPhases
  <2>7. CASE ~k.opt.count
    <3>1. kp' = [opt |-> k.opt, pc |-> "done", input |-> k.input, output |-> output,
                 count |-> k.count, exit |-> 0, lost |-> lost]
      BY <1>2, <2>3, <2>7, Zenon
    <3> QED
      BY <1>2, <2>3, <2>5, <2>7, <3>1 DEF KpPhases
  <2> QED
    BY <2>6, <2>7
<1> QED
  BY <1>3, <1>4, <1>5 DEF KpStep

\* What a call is about.
LEMMA KpCallFacts ==
  ASSUME NEW o, NEW s, o \in KpOptions, s \in KpInputs
  PROVE  /\ KpTyped(o)
         /\ o.range.kind \in {"all", "range", "first", "last"}
         /\ o.range.from \in Nat /\ o.range.to \in Nat
         /\ s \in Seq(KpSigns \cup {"nl"})
<1>1. PICK A, C, D : A = STRING \ {"nl"} /\ C = KpSigns \cup {"nl"} /\ D = STRING
  BY Zenon
<1>2. A \subseteq KpSigns /\ D \subseteq C
  BY <1>1 DEF KpSigns
<1>3. s \in Seq(D)
  BY <1>1, KpAssumption
<1>4. s \in Seq(C)
  BY <1>2, <1>3
<1>5. o.text \in KpTexts /\ o.range \in KpRanges
  BY DEF KpOptions
<1>6. /\ o.text[1] \in Seq(A) \ {<<>>} /\ o.text[2] \in Seq(A)
      /\ o.range \in [kind : {"all", "range", "first", "last"}, from : Nat \ {0}, to : Nat]
  BY <1>1, <1>5, KpAssumption
<1>7. KpTyped(o)
  BY <1>2, <1>6 DEF KpTyped
<1> QED
  BY <1>1, <1>4, <1>6, <1>7

LEMMA KpInvReplaces == KpInv => KpReplacesText
<1> SUFFICES ASSUME KpInv
             PROVE  KpReplacesText
  OBVIOUS
<1>1. CASE kp.exit # 0
  BY <1>1 DEF KpReplacesText
<1>2. CASE kp.exit = 0
  <2>1. KpPhases(kp)
    BY <1>2 DEF KpInv
  <2>2. PICK o, s, T : o = kp.opt /\ s = kp.input /\ T = KpSigns
    OBVIOUS
  <2>3. o \in KpOptions /\ s \in KpInputs
    BY <2>1, <2>2 DEF KpPhases
  <2>4. /\ KpTyped(o)
        /\ o.range.kind \in {"all", "range", "first", "last"}
        /\ o.range.from \in Nat /\ o.range.to \in Nat
        /\ s \in Seq(T \cup {"nl"})
    BY <2>2, <2>3, KpCallFacts, Zenon
  <2>5. "nl" \notin T
    BY <2>2 DEF KpSigns
  <2>6. PICK lines, total, final :
          lines = SplitLines(s) /\ total = Len(lines) /\ final = EndsWithNewline(s)
    BY Zenon
  <2>7. /\ lines \in Seq(Seq(T))
        /\ Newlines(s) = NewlinesOf(lines, final)
    BY <2>4, <2>5, <2>6, SplitFacts, Zenon
  <2>8. total \in Nat /\ DOMAIN lines = 1 .. total /\ \A i \in 1 .. total : lines[i] \in Seq(T)
    <3>1. PICK B : B = Seq(T)
      OBVIOUS
    <3>2. lines \in Seq(B)
      BY <2>7, <3>1
    <3> QED
      BY <2>6, <3>1, <3>2, SeqFacts
  <2>9. PICK want : want = [i \in DOMAIN lines |-> IF InRange(i, total, o.range)
                                                   THEN Expected(lines[i], o)
                                                   ELSE <<lines[i], 0>>]
    BY Zenon
  <2>10. PICK edited : edited = EditLines(lines, o)
    OBVIOUS
  <2>11. ASSUME NEW i \in 1 .. total
         PROVE  /\ edited[i].line = want[i][1] /\ edited[i].count = want[i][2]
                /\ want[i][1] \in Seq(T)
    <3>1. PICK line, expr : line = lines[i] /\ expr = EscapeRegex(o.text[1])
      OBVIOUS
    <3>2. line \in Seq(T) /\ line \in Seq(KpSigns)
      BY <2>2, <2>8, <3>1
    <3>3. edited[i] = IF LineSelected(i, total, o.range) THEN EditLine(line, expr, o)
                      ELSE [line |-> line, count |-> 0]
      BY <2>6, <2>8, <2>10, <3>1 DEF EditLines
    <3>4. want[i] = IF InRange(i, total, o.range) THEN Expected(line, o) ELSE <<line, 0>>
      BY <2>8, <2>9, <3>1
    <3>5. LineSelected(i, total, o.range) <=> InRange(i, total, o.range)
      BY <2>4, <2>8, SelectionMeansRange
    <3>6. /\ EditLine(line, expr, o).line = Expected(line, o)[1]
          /\ EditLine(line, expr, o).count = Expected(line, o)[2]
          /\ Expected(line, o)[1] \in Seq(T)
      BY <2>2, <2>4, <3>1, <3>2, EditIsExpected
    <3>7. CASE InRange(i, total, o.range)
      BY <3>3, <3>4, <3>5, <3>6, <3>7
    <3>8. CASE ~InRange(i, total, o.range)
      <4>1. edited[i] = [line |-> line, count |-> 0] /\ want[i] = <<line, 0>>
        BY <3>3, <3>4, <3>5, <3>8
      <4> QED
        BY <3>2, <4>1
    <3> QED
      BY <3>7, <3>8
  <2>12. DOMAIN edited = 1 .. total
    BY <2>8, <2>10 DEF EditLines
  <2>13. [i \in DOMAIN edited |-> edited[i].count] = [i \in DOMAIN lines |-> want[i][2]]
    BY <2>8, <2>11, <2>12
  <2>14. PICK outLines : outLines = [i \in DOMAIN edited |-> edited[i].line]
    BY Zenon
  <2>15. /\ outLines \in Seq(Seq(T)) /\ Len(outLines) = total
         /\ \A i \in 1 .. total : outLines[i] = want[i][1]
    <3>1. PICK B : B = Seq(T)
      OBVIOUS
    <3>2. outLines \in [1 .. total -> B] /\ \A i \in 1 .. total : outLines[i] = want[i][1]
      BY <2>11, <2>12, <2>14, <3>1
    <3>3. outLines \in Seq(B) /\ Len(outLines) = total
      BY <2>8, <3>2, FunctionIsSeq
    <3> QED
      BY <3>1, <3>2, <3>3
  <2>16. EditedLines(kp) = edited
    BY <2>2, <2>6, <2>10 DEF EditedLines
  <2>17. CASE o.count
    <3>1. kp.count = EditedCount(kp) /\ kp.output = <<"old">>
      BY <1>2, <2>1, <2>2, <2>17 DEF KpPhases
    <3>2. kp.count = Total([i \in DOMAIN lines |-> want[i][2]])
      BY <2>13, <2>16, <3>1 DEF EditedCount
    <3> QED
      BY <2>2, <2>6, <2>9, <2>17, <3>1, <3>2 DEF KpReplacesText
  <2>18. CASE ~o.count /\ ~kp.lost
    <3>1. PICK text : text = kp.output
      OBVIOUS
    <3>2. text = JoinLines(outLines, EndsWithNewline(s))
      BY <1>2, <2>1, <2>2, <2>14, <2>16, <2>18, <3>1 DEF KpPhases, EditedText
    <3>3. text = JoinLines(outLines, final)
      BY <2>6, <3>2
    <3>4. Newlines(text) = NewlinesOf(outLines, final) /\ HoldsLines(text, outLines)
      <4>1. outLines \in Seq(Seq(T))
        BY <2>15
      <4>2. WrittenFrom(text, outLines, final, T)
        BY <2>5, <3>3, <4>1 DEF WrittenFrom
      <4> QED
        BY <4>2, JoinFacts, Zenon
    <3>5. outLines = <<>> <=> lines = <<>>
      <4>1. PICK B : B = Seq(T)
        OBVIOUS
      <4>2. outLines \in Seq(B) /\ lines \in Seq(B)
        BY <2>7, <2>15, <4>1
      <4> QED
        BY <2>6, <2>15, <4>2
    <3>6. Newlines(text) = Newlines(s)
      BY <2>6, <2>7, <2>15, <3>4, <3>5 DEF NewlinesOf
    <3>7. \A i \in DOMAIN lines :
            want[i][1] # <<>> \/ i < total =>
              i \in DOMAIN SplitLines(text) /\ SplitLines(text)[i] = want[i][1]
      BY <2>8, <2>15, <3>4 DEF HoldsLines
    <3> QED
      BY <2>2, <2>6, <2>9, <2>18, <3>1, <3>6, <3>7 DEF KpReplacesText
  <2>19. CASE ~o.count /\ kp.lost
    BY <2>2, <2>19 DEF KpReplacesText
  <2> QED
    BY <2>17, <2>18, <2>19
<1> QED
  BY <1>1, <1>2

\* What is special in OLD or NEW for a regular expression is not special for kp: OLD is
\* replaced where it stands as text, in the selected lines only, without looking again into
\* what was put there; line ends stay, the last one too; and -c counts what the same call
\* without it replaces, for files, texts and ranges of any length; but for a last buffer
\* that is lost, which the status does not tell.
THEOREM KpReplaces == Spec => []KpReplacesText
<1>1. Init => KpInv
  BY KpInitInv
<1>2. KpInv /\ [Next]_vars => KpInv'
  <2> SUFFICES ASSUME KpInv, [Next]_vars
               PROVE  KpInv'
    OBVIOUS
  <2>1. CASE RunKp
    <3>1. tool = "kp" /\ tool' = tool /\ KpStep
      BY <2>1 DEF RunKp, Rest
    <3>2. KpPhases(kp')
      BY <3>1, KpStepInv DEF KpInv
    <3> QED
      BY <3>1, <3>2 DEF KpInv
  <2>2. CASE UNCHANGED <<tool, kp>>
    BY <2>2 DEF KpInv
  <2> QED
    BY <2>1, <2>2 DEF Next, vars, files, Rest, RunBuniq, RunFill, RunExe, RunBhxx, RunBpatch,
                      RunBgrep, RunFurl, RunSplitMerge
<1> QED
  BY <1>1, <1>2, KpInvReplaces, PTL DEF Spec
=============================================================================
