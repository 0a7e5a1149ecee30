----------------------------- MODULE TextProofs -----------------------------
(***************************************************************************)
(* Proofs about bhxx and furl, as Tools runs them: for files, layouts,     *)
(* texts and parts of URLs of any kind and length.                         *)
(***************************************************************************)
EXTENDS ToolsProofs

-----------------------------------------------------------------------------
(* bhxx: a line of the dump.                                               *)

\* Quotient and remainder are what they are multiplied and added up to.
LEMMA DivModUnique ==
  ASSUME NEW n, NEW g, NEW k, NEW r, g \in Nat \ {0}, k \in Nat, r \in 0 .. g - 1,
         n = g * k + r
  PROVE  n \in Nat /\ n \div g = k /\ n % g = r
<1>1. n \in Nat
  <2>1. g * k \in Nat
    OBVIOUS
  <2> QED
    BY <2>1
<1>2. PICK q, m : q = n \div g /\ m = n % g
  OBVIOUS
<1>3. q \in Nat /\ m \in Nat /\ m < g /\ n = g * q + m
  BY <1>1, <1>2, DivMod
<1>4. g * q + m = g * k + r
  BY <1>3
<1>5. ASSUME NEW a \in Nat, NEW b \in Nat, a < b
      PROVE  g * a + g <= g * b
  <2>1. PICK c : c = b - a - 1
    OBVIOUS
  <2>2. c \in Nat /\ b = a + 1 + c
    BY <1>5, <2>1
  <2>3. g * b = g * a + g + g * c
    BY <2>2
  <2>4. g * c \in Nat /\ g * a \in Nat
    BY <2>2
  <2> QED
    BY <2>3, <2>4
<1>6. PICK x, y : x = g * q /\ y = g * k
  OBVIOUS
<1>7. x \in Nat /\ y \in Nat
  BY <1>3, <1>6
<1>8. ~(q < k)
  <2>1. q < k => x + g <= y
    BY <1>3, <1>5, <1>6
  <2> QED
    BY <1>3, <1>4, <1>6, <1>7, <2>1
<1>9. ~(k < q)
  <2>1. k < q => y + g <= x
    BY <1>3, <1>5, <1>6
  <2> QED
    BY <1>3, <1>4, <1>6, <1>7, <2>1
<1>10. q = k
  BY <1>3, <1>8, <1>9
<1>11. m = r
  BY <1>3, <1>4, <1>6, <1>7, <1>10
<1> QED
  BY <1>1, <1>2, <1>10, <1>11

\* What the fields of bhxx's options are.
LEMMA BhxxOptionFacts ==
  ASSUME NEW o, o \in BhxxOptions
  PROVE  /\ o.style \in {"hex", "bits", "plain"} /\ o.layout.cols \in Nat
         /\ o.layout.group \in Nat /\ o.seek \in Nat /\ o.len \in Nat
BY BhxxAssumption, Zenon DEF BhxxOptions

\* The groups of -e fill the line.
Fits(o) == o.layout.cols > 0 /\ (Swaps(o) => o.layout.cols % o.layout.group = 0)

\* Each byte of a group is shown in the column of the byte that is shown in its own.
LEMMA ByteOfFacts ==
  ASSUME NEW o, NEW i, o \in BhxxOptions, Fits(o), i \in 0 .. o.layout.cols - 1
  PROVE  ByteOf(o, i) \in 0 .. o.layout.cols - 1 /\ ByteOf(o, ByteOf(o, i)) = i
<1>1. PICK cols, g : cols = o.layout.cols /\ g = o.layout.group
  BY Zenon
<1>2. cols \in Nat /\ g \in Nat /\ i \in 0 .. cols - 1
  BY <1>1, BhxxOptionFacts
<1>3. CASE ~Swaps(o)
  BY <1>3 DEF ByteOf
<1>4. CASE Swaps(o)
  <2>1. g > 0 /\ cols % g = 0
    BY <1>1, <1>4 DEF Swaps, Fits
  <2>2. PICK q, r, m : q = i \div g /\ r = i % g /\ m = cols \div g
    OBVIOUS
  <2>3. q \in Nat /\ r \in Nat /\ r < g /\ i = g * q + r
    BY <1>2, <2>1, <2>2, DivMod
  <2>4. m \in Nat /\ cols = g * m
    <3>1. m \in Nat /\ cols = g * m + (cols % g)
      BY <1>2, <2>1, <2>2, DivMod
    <3> QED
      BY <1>2, <2>1, <3>1
  <2>5. PICK s : s = g - 1 - r
    OBVIOUS
  <2>6. s \in 0 .. g - 1 /\ g - 1 - s = r
    BY <1>2, <2>1, <2>3, <2>5
  <2>7. PICK j : j = g * q + s
    OBVIOUS
  <2>8. j \in Nat /\ j \div g = q /\ j % g = s
    BY <1>2, <2>1, <2>3, <2>6, <2>7, DivModUnique
  <2>9. q * g = g * q /\ g * q \in Nat
    BY <1>2, <2>3
  <2>10. ByteOf(o, i) = j
    <3>1. ByteOf(o, i) = q * g + (g - 1 - r)
      BY <1>1, <1>4, <2>2 DEF ByteOf
    <3> QED
      BY <2>5, <2>7, <2>9, <3>1
  <2>11. ByteOf(o, j) = i
    <3>1. ByteOf(o, j) = q * g + (g - 1 - s)
      BY <1>1, <1>4, <2>8 DEF ByteOf
    <3> QED
      BY <2>3, <2>6, <2>9, <3>1
  <2>12. j < cols
    <3>1. q < m
      <4>1. ASSUME m <= q
            PROVE  FALSE
        <5>1. PICK e : e = q - m
          OBVIOUS
        <5>2. e \in Nat /\ q = m + e
          BY <2>3, <2>4, <4>1, <5>1
        <5>3. g * q = g * m + g * e /\ g * e \in Nat
          BY <1>2, <2>4, <5>2
        <5> QED
          BY <1>2, <2>3, <2>4, <2>9, <5>3
      <4> QED
        BY <2>3, <2>4, <4>1
    <3>2. PICK e : e = m - q - 1
      OBVIOUS
    <3>3. e \in Nat /\ m = q + 1 + e
      BY <2>3, <2>4, <3>1, <3>2
    <3>4. g * m = g * q + g + g * e /\ g * e \in Nat
      BY <1>2, <2>3, <3>3
    <3> QED
      BY <1>2, <2>4, <2>6, <2>7, <2>9, <3>4
  <2> QED
    BY <1>1, <1>2, <2>8, <2>10, <2>11, <2>12
<1> QED
  BY <1>3, <1>4

\* Groups of g read backwards, put end to end.
Groups(cells, g, m) == [k \in 1 .. m |-> Reverse(SubSeq(cells, (k - 1) * g + 1, k * g))]

BackwardsBy(flat, cells, g, m) ==
  \A k \in 0 .. m - 1 : \A j \in 1 .. g : flat[g * k + j] = cells[g * k + (g + 1 - j)]

LEMMA GroupsReversed ==
  ASSUME NEW B, NEW cells, NEW g, NEW m, NEW flat, cells \in Seq(B), g \in Nat \ {0}, m \in Nat,
         Len(cells) = g * m, flat = FlattenSeq(Groups(cells, g, m))
  PROVE  BackwardsBy(flat, cells, g, m)
<1>1. PICK ss : ss = Groups(cells, g, m)
  OBVIOUS
<1>2. PICK n : n = Len(cells)
  OBVIOUS
<1>3. n \in Nat /\ n = g * m /\ DOMAIN cells = 1 .. n /\ \A i \in 1 .. n : cells[i] \in B
  BY <1>2, SeqFacts
<1>4. ASSUME NEW k \in 0 .. m - 1, NEW x, x = ss[k + 1]
      PROVE  /\ x \in Seq(B) /\ Len(x) = g
             /\ \A j \in 1 .. g : x[j] = cells[g * k + (g + 1 - j)]
  <2>1. PICK a : a = g * k
    OBVIOUS
  <2>2. a \in Nat /\ k * g = a /\ (k + 1) * g = a + g
    BY <2>1
  <2>3. a + g <= n
    <3>1. PICK e : e = m - k - 1
      OBVIOUS
    <3>2. e \in Nat /\ m = k + 1 + e
      BY <3>1
    <3>3. g * m = g * k + g + g * e /\ g * e \in Nat
      BY <3>2
    <3> QED
      BY <1>3, <2>1, <2>2, <3>3
  <2>4. PICK y : y = SubSeq(cells, a + 1, a + g)
    BY Zenon
  <2>5. /\ y \in Seq(B) /\ Len(y) = g
        /\ \A i \in 1 .. g : y[i] = cells[a + i]
    <3>1. PICK lo, hi : lo = a + 1 /\ hi = a + g
      OBVIOUS
    <3>2. lo \in Int /\ hi \in Int /\ lo <= hi + 1 /\ hi - lo + 1 = g
      BY <2>2, <3>1
    <3>3. \A i \in lo .. hi : cells[i] \in B
      BY <1>3, <2>2, <2>3, <3>1
    <3>4. /\ SubSeq(cells, lo, hi) \in Seq(B)
          /\ Len(SubSeq(cells, lo, hi)) = IF lo <= hi THEN hi - lo + 1 ELSE 0
          /\ \A i \in 1 .. hi - lo + 1 : SubSeq(cells, lo, hi)[i] = cells[lo + i - 1]
      BY <3>2, <3>3, SubSeqProperties
    <3>5. y = SubSeq(cells, lo, hi)
      BY <2>4, <3>1
    <3>6. Len(y) = g
      BY <3>2, <3>4, <3>5
    <3>7. \A i \in 1 .. g : y[i] = cells[lo + i - 1]
      BY <3>2, <3>4, <3>5
    <3>8. \A i \in 1 .. g : lo + i - 1 = a + i
      BY <2>2, <3>1
    <3> QED
      BY <3>4, <3>5, <3>6, <3>7, <3>8
  <2>6. x = Reverse(y)
    <3>1. k + 1 \in 1 .. m /\ (k + 1) - 1 = k
      OBVIOUS
    <3>2. ss[k + 1] = Reverse(SubSeq(cells, ((k + 1) - 1) * g + 1, (k + 1) * g))
      BY <1>1, <3>1 DEF Groups
    <3>3. ((k + 1) - 1) * g = a
      BY <2>2, <3>1
    <3> QED
      BY <1>4, <2>2, <2>4, <3>2, <3>3, Zenon
  <2>7. x = [i \in 1 .. g |-> y[(g - i) + 1]]
    BY <2>5, <2>6 DEF Reverse
  <2>8. \A i \in 1 .. g : y[i] \in B
    BY <2>5, SeqFacts
  <2>9. ASSUME NEW i \in 1 .. g
        PROVE  y[(g - i) + 1] \in B /\ y[(g - i) + 1] = cells[a + (g + 1 - i)]
    <3>1. (g - i) + 1 \in 1 .. g /\ (g - i) + 1 = g + 1 - i
      OBVIOUS
    <3> QED
      BY <2>5, <2>8, <3>1
  <2>10. x \in Seq(B) /\ Len(x) = g
    BY <2>7, <2>9
  <2> QED
    BY <2>1, <2>7, <2>9, <2>10
<1>5. ss \in Seq(Seq(B)) /\ Len(ss) = m
  <2>1. ASSUME NEW i \in 1 .. m
        PROVE  ss[i] \in Seq(B)
    <3>1. PICK k : k = i - 1
      OBVIOUS
    <3>2. k \in 0 .. m - 1 /\ i = k + 1
      BY <3>1
    <3> QED
      BY <1>4, <3>2
  <2>2. ss = [i \in 1 .. m |-> ss[i]]
    BY <1>1 DEF Groups
  <2>3. PICK S : S = Seq(B)
    OBVIOUS
  <2> QED
    BY <2>1, <2>2, <2>3, FunctionIsSeq
<1>6. PICK p : Laid(p, ss, flat)
  BY <1>1, <1>5, FlattenLaid
<1>7. ASSUME NEW k \in 0 .. m
      PROVE  p[k] = g * k
  <2> DEFINE S == {i \in Nat : p[i] = g * i}
  <2>1. PICK first : first = 0
    OBVIOUS
  <2>2. first \in S
    <3>1. g * 0 = 0 /\ p[0] = 0
      BY <1>6 DEF Laid
    <3> QED
      BY <2>1, <3>1
  <2>3. ASSUME NEW i \in first .. m - 1, i \in S
        PROVE  i + 1 \in S
    <3>1. i \in 0 .. m - 1 /\ i \in Nat /\ i + 1 \in Nat
      BY <2>1
    <3>2. Len(ss[i + 1]) = g
      BY <1>4, <3>1, Zenon
    <3>3. p[i + 1] = p[i] + g
      BY <1>5, <1>6, <3>1, <3>2 DEF Laid
    <3>4. g * (i + 1) = g * i + g
      BY <3>1
    <3> QED
      BY <2>3, <3>1, <3>3, <3>4
  <2> HIDE DEF S
  <2>4. Inductive(S, first, m)
    BY <2>1, <2>2, <2>3 DEF Inductive
  <2>5. \A i \in first .. m : i \in S
    BY <2>4, RangeInduction
  <2> QED
    BY <1>7, <2>1, <2>5 DEF S
<1>8. ASSUME NEW k \in 0 .. m - 1, NEW j \in 1 .. g
      PROVE  flat[g * k + j] = cells[g * k + (g + 1 - j)]
  <2>1. PICK x : x = ss[k + 1]
    OBVIOUS
  <2>2. Len(x) = g /\ x[j] = cells[g * k + (g + 1 - j)]
    BY <1>4, <2>1
  <2>3. flat[p[k] + j] = x[j]
    BY <1>5, <1>6, <2>1, <2>2, Zenon DEF Laid
  <2>4. p[k] = g * k
    BY <1>7
  <2> QED
    BY <2>2, <2>3, <2>4
<1> QED
  BY <1>8, Zenon DEF BackwardsBy

\* The length of the groups that change places; the bytes a line can have.
GroupOfCells(o) == IF Swaps(o) THEN o.layout.group ELSE 1

LineBytes(o) == {d \in Seq(Bytes) : Len(d) \in 1 .. o.layout.cols}

LEMMA GroupFacts ==
  ASSUME NEW o, o \in BhxxOptions, Fits(o)
  PROVE  /\ GroupOfCells(o) \in Nat \ {0}
         /\ o.layout.cols = GroupOfCells(o) * (o.layout.cols \div GroupOfCells(o))
         /\ o.layout.cols \div GroupOfCells(o) \in Nat
         /\ \A i \in 0 .. o.layout.cols - 1 :
              ByteOf(o, i) = GroupOfCells(o) * (i \div GroupOfCells(o))
                               + (GroupOfCells(o) - 1 - (i % GroupOfCells(o)))
<1>1. PICK g, cols : g = GroupOfCells(o) /\ cols = o.layout.cols
  OBVIOUS
<1>2. g \in Nat \ {0} /\ cols \in Nat /\ cols % g = 0
  <2>1. o.layout.group \in Nat /\ cols \in Nat
    BY <1>1, BhxxOptionFacts
  <2>2. cols % 1 = 0
    BY <2>1
  <2> QED
    BY <1>1, <2>1, <2>2 DEF GroupOfCells, Swaps, Fits
<1>3. cols = g * (cols \div g) /\ cols \div g \in Nat
  <2>1. PICK q, r : q = cols \div g /\ r = cols % g
    OBVIOUS
  <2>2. q \in Nat /\ r = 0 /\ cols = g * q + r
    BY <1>2, <2>1, DivMod
  <2>3. g * q \in Nat
    BY <1>2, <2>2
  <2> QED
    BY <2>1, <2>2, <2>3
<1>4. ASSUME NEW i \in 0 .. cols - 1
      PROVE  ByteOf(o, i) = g * (i \div g) + (g - 1 - (i % g))
  <2>1. CASE Swaps(o)
    <3>1. g = o.layout.group
      BY <1>1, <2>1 DEF GroupOfCells
    <3>2. PICK q : q = i \div g
      OBVIOUS
    <3>3. q \in Nat
      BY <1>2, <3>2, DivMod
    <3>4. q * g = g * q
      BY <1>2, <3>3
    <3> QED
      BY <2>1, <3>1, <3>2, <3>4 DEF ByteOf
  <2>2. CASE ~Swaps(o)
    <3>1. g = 1
      BY <1>1, <2>2 DEF GroupOfCells
    <3>2. i \div 1 = i /\ i % 1 = 0
      OBVIOUS
    <3>3. 1 * i + (1 - 1 - 0) = i
      OBVIOUS
    <3> QED
      BY <2>2, <3>1, <3>2, <3>3 DEF ByteOf
  <2> QED
    BY <2>1, <2>2
<1> QED
  BY <1>1, <1>2, <1>3, <1>4

CellBytes == Bytes \cup {NoByte}

LEMMA NoByteIsNone == NoByte \notin Bytes
BY DEF NoByte, Bytes

\* The columns of a line, in the order of the file, show its bytes.
LEMMA CellsShow ==
  ASSUME NEW o, NEW d, NEW cells, o \in BhxxOptions, Fits(o), d \in LineBytes(o),
         cells = [i \in 1 .. o.layout.cols |-> Cell(d, o, i - 1)]
  PROVE  /\ cells \in Seq(CellBytes) /\ Len(cells) = o.layout.cols
         /\ \A c \in 1 .. Len(d) : InOrder(cells, o)[c] = d[c]
<1>1. PICK g, cols, m : g = GroupOfCells(o) /\ cols = o.layout.cols /\ m = cols \div g
  OBVIOUS
<1>2. /\ g \in Nat \ {0} /\ cols = g * m /\ m \in Nat /\ cols \in Nat
      /\ \A i \in 0 .. cols - 1 : ByteOf(o, i) = g * (i \div g) + (g - 1 - (i % g))
  BY <1>1, GroupFacts, BhxxOptionFacts
<1>3. d \in Seq(Bytes) /\ Len(d) \in 1 .. cols /\ \A i \in 1 .. Len(d) : d[i] \in Bytes
  <2>1. d \in Seq(Bytes) /\ Len(d) \in 1 .. cols
    BY <1>1 DEF LineBytes
  <2> QED
    BY <2>1, SeqFacts
<1>4. ASSUME NEW i \in 0 .. cols - 1
      PROVE  /\ ByteOf(o, i) \in 0 .. cols - 1 /\ ByteOf(o, ByteOf(o, i)) = i
             /\ Cell(d, o, i) \in CellBytes
  <2>1. ByteOf(o, i) \in 0 .. cols - 1 /\ ByteOf(o, ByteOf(o, i)) = i
    BY <1>1, ByteOfFacts
  <2>2. PICK j : j = ByteOf(o, i)
    OBVIOUS
  <2>3. Cell(d, o, i) = IF j < Len(d) THEN d[j + 1] ELSE NoByte
    BY <2>2 DEF Cell
  <2>4. j < Len(d) => j + 1 \in 1 .. Len(d)
    BY <1>2, <1>3, <2>1, <2>2
  <2>5. Cell(d, o, i) \in CellBytes
    BY <1>3, <2>3, <2>4 DEF CellBytes
  <2> QED
    BY <2>1, <2>5
<1>5. cells \in Seq(CellBytes) /\ Len(cells) = cols
  <2>1. \A i \in 1 .. cols : Cell(d, o, i - 1) \in CellBytes
    <3>1. ASSUME NEW i \in 1 .. cols
          PROVE  Cell(d, o, i - 1) \in CellBytes
      <4>1. i - 1 \in 0 .. cols - 1
        BY <1>2
      <4> QED
        BY <1>4, <4>1
    <3> QED
      BY <3>1
  <2>2. cells \in [1 .. cols -> CellBytes]
    BY <1>1, <2>1
  <2> QED
    BY <1>2, <2>2, FunctionIsSeq, Zenon
<1>6. PICK flat : flat = InOrder(cells, o)
  BY Zenon
<1>7. flat = FlattenSeq(Groups(cells, g, m))
  <2>1. flat = FlattenSeq([k \in 1 .. Len(cells) \div g |->
                             Reverse(SubSeq(cells, (k - 1) * g + 1, k * g))])
    BY <1>1, <1>6 DEF InOrder, GroupOfCells
  <2> QED
    BY <1>1, <1>5, <2>1 DEF Groups
<1>8. ASSUME NEW c \in 1 .. Len(d)
      PROVE  flat[c] = d[c]
  <2>1. PICK i : i = c - 1
    OBVIOUS
  <2>2. i \in 0 .. cols - 1 /\ i < Len(d) /\ c = i + 1 /\ i \in Nat
    BY <1>2, <1>3, <2>1
  <2>3. PICK k, r : k = i \div g /\ r = i % g
    OBVIOUS
  <2>4. k \in Nat /\ r \in Nat /\ r < g /\ i = g * k + r
    BY <1>2, <2>2, <2>3, DivMod, Zenon
  <2>5. PICK a : a = g * k
    OBVIOUS
  <2>6. a \in Nat /\ i = a + r
    BY <1>2, <2>4, <2>5
  <2>7. k \in 0 .. m - 1
    <3>1. ASSUME m <= k
          PROVE  FALSE
      <4>1. PICK e : e = k - m
        OBVIOUS
      <4>2. e \in Nat /\ k = m + e
        BY <1>2, <2>4, <3>1, <4>1
      <4>3. g * k = g * m + g * e /\ g * e \in Nat
        BY <1>2, <4>2
      <4> QED
        BY <1>2, <2>2, <2>4, <2>5, <2>6, <4>3, SMTT(30)
    <3> QED
      BY <1>2, <2>4, <3>1
  <2>8. PICK j, b : j = a + (g - 1 - r) /\ b = r + 1
    OBVIOUS
  <2>9. b \in 1 .. g /\ g + 1 - b = g - r /\ a + (g - r) = j + 1 /\ a + b = c
    BY <1>2, <2>2, <2>4, <2>6, <2>8
  <2>10. flat[c] = cells[j + 1]
    <3>1. flat[g * k + b] = cells[g * k + (g + 1 - b)]
      <4>1. PICK B : B = CellBytes
        OBVIOUS
      <4>2. cells \in Seq(B) /\ Len(cells) = g * m /\ g \in Nat \ {0} /\ m \in Nat
        BY <1>2, <1>5, <4>1, Zenon
      <4>3. BackwardsBy(flat, cells, g, m)
        BY <1>7, <4>2, GroupsReversed, Zenon
      <4> QED
        BY <2>7, <2>9, <4>3 DEF BackwardsBy
    <3> QED
      BY <2>5, <2>9, <3>1
  <2>11. ByteOf(o, i) = j
    BY <1>2, <2>2, <2>3, <2>5, <2>8, Zenon
  <2>12. j \in 0 .. cols - 1 /\ ByteOf(o, j) = i
    BY <1>4, <2>2, <2>11
  <2>13. cells[j + 1] = Cell(d, o, j)
    <3>1. j + 1 \in 1 .. cols /\ (j + 1) - 1 = j
      BY <1>2, <2>12
    <3> QED
      BY <1>1, <3>1
  <2>14. Cell(d, o, j) = d[c]
    BY <2>2, <2>12 DEF Cell
  <2> QED
    BY <2>10, <2>13, <2>14
<1> QED
  BY <1>1, <1>5, <1>6, <1>8, Zenon

\* As many columns show a byte as there are bytes.
LEMMA CellsCounted ==
  ASSUME NEW o, NEW d, NEW cells, o \in BhxxOptions, Fits(o), d \in LineBytes(o),
         cells = [i \in 1 .. o.layout.cols |-> Cell(d, o, i - 1)]
  PROVE  Cardinality({j \in DOMAIN cells : cells[j] # NoByte}) = Len(d)
<1>1. PICK cols, n : cols = o.layout.cols /\ n = Len(d)
  BY Zenon
<1>2. /\ cols \in Nat /\ n \in Nat /\ n <= cols /\ \A i \in 1 .. n : d[i] \in Bytes
  <2>1. d \in Seq(Bytes) /\ Len(d) \in 1 .. cols /\ cols \in Nat
    BY <1>1, BhxxOptionFacts DEF LineBytes
  <2> QED
    BY <1>1, <2>1, SeqFacts
<1>3. \A i \in 0 .. cols - 1 : ByteOf(o, i) \in 0 .. cols - 1 /\ ByteOf(o, ByteOf(o, i)) = i
  BY <1>1, ByteOfFacts
<1>4. PICK f : f = [i \in 1 .. n |-> ByteOf(o, i - 1) + 1]
  BY Zenon
<1>5. PICK A : A = {j \in DOMAIN cells : cells[j] # NoByte}
  BY Zenon
<1>6. ASSUME NEW j \in 1 .. cols
      PROVE  cells[j] # NoByte <=> ByteOf(o, j - 1) < n
  <2>1. j - 1 \in 0 .. cols - 1
    BY <1>2
  <2>2. PICK i : i = ByteOf(o, j - 1)
    OBVIOUS
  <2>3. i \in 0 .. cols - 1
    BY <1>3, <2>1, <2>2
  <2>4. cells[j] = IF i < n THEN d[i + 1] ELSE NoByte
    BY <1>1, <2>2 DEF Cell
  <2>5. i < n => d[i + 1] \in Bytes
    BY <1>2, <2>3
  <2> QED
    BY <2>2, <2>4, <2>5, NoByteIsNone
<1>7. ASSUME NEW i \in 1 .. n
      PROVE  f[i] \in 1 .. cols /\ ByteOf(o, f[i] - 1) = i - 1
  <2>1. i - 1 \in 0 .. cols - 1
    BY <1>2
  <2>2. PICK x : x = ByteOf(o, i - 1)
    OBVIOUS
  <2>3. x \in 0 .. cols - 1 /\ ByteOf(o, x) = i - 1
    BY <1>3, <2>1, <2>2
  <2>4. f[i] = x + 1 /\ (x + 1) - 1 = x
    BY <1>4, <2>2, <2>3
  <2> QED
    BY <1>2, <2>3, <2>4
<1>8. \A i, j \in 1 .. n : f[i] = f[j] => i = j
  <2>1. ASSUME NEW i \in 1 .. n, NEW j \in 1 .. n, f[i] = f[j]
        PROVE  i = j
    <3>1. i - 1 = j - 1
      BY <1>7, <2>1
    <3> QED
      BY <3>1
  <2> QED
    BY <2>1
<1>9. \A i \in 1 .. n : f[i] \in A
  <2>1. ASSUME NEW i \in 1 .. n
        PROVE  f[i] \in A
    <3>1. PICK x : x = f[i]
      OBVIOUS
    <3>2. x \in 1 .. cols /\ ByteOf(o, x - 1) = i - 1 /\ i - 1 < n
      BY <1>2, <1>7, <3>1
    <3>3. x \in DOMAIN cells /\ cells[x] # NoByte
      BY <1>1, <1>6, <3>2, Zenon
    <3> QED
      BY <1>5, <3>1, <3>3
  <2> QED
    BY <2>1
<1>10. \A j \in A : \E i \in 1 .. n : f[i] = j
  <2>1. ASSUME NEW j \in A
        PROVE  \E i \in 1 .. n : f[i] = j
    <3>1. j \in 1 .. cols /\ cells[j] # NoByte
      BY <1>1, <1>5
    <3>2. PICK x : x = ByteOf(o, j - 1)
      OBVIOUS
    <3>3. j - 1 \in 0 .. cols - 1
      BY <1>2, <3>1
    <3>4. x \in 0 .. cols - 1 /\ ByteOf(o, x) = j - 1 /\ x < n
      BY <1>3, <1>6, <3>1, <3>2, <3>3
    <3>5. x + 1 \in 1 .. n /\ (x + 1) - 1 = x
      BY <1>2, <3>4
    <3>6. f[x + 1] = j
      <4>1. f[x + 1] = ByteOf(o, x) + 1
        BY <1>4, <3>5
      <4> QED
        BY <3>1, <3>4, <4>1, <1>2
    <3> QED
      BY <3>5, <3>6
  <2> QED
    BY <2>1
<1>11. A = {f[i] : i \in 1 .. n}
  BY <1>9, <1>10
<1>12. OneToOne(f, n, A)
  BY <1>2, <1>8, <1>11 DEF OneToOne
<1>13. Cardinality(A) = n
  BY <1>12, CountOneToOne
<1> QED
  BY <1>1, <1>5, <1>13

\* What a line of a dump that is not plain shows.
ShowsLine(line, o, d, offset) ==
  /\ line.shown /\ line.offset = offset
  /\ Len(line.sidebar) = Len(d)
  /\ \A c \in 1 .. Len(d) : InOrder(line.cells, o)[c] = d[c]
  /\ \A c \in 1 .. Len(d) : line.sidebar[c] = Printed(d[c])
  /\ Cardinality({j \in DOMAIN line.cells : line.cells[j] # NoByte}) = Len(line.sidebar)

LEMMA LineFacts ==
  ASSUME NEW o, NEW d, NEW offset, NEW line, o \in BhxxOptions, Fits(o), d \in LineBytes(o),
         o.style # "plain", line = Line(d, o, offset)
  PROVE  ShowsLine(line, o, d, offset)
<1>1. PICK cells, sidebar : /\ cells = [i \in 1 .. o.layout.cols |-> Cell(d, o, i - 1)]
                            /\ sidebar = [i \in DOMAIN d |-> Printed(d[i])]
  BY Zenon
<1>2. line = [shown |-> TRUE, offset |-> offset, cells |-> cells, sidebar |-> sidebar]
  BY <1>1 DEF Line
<1>3. line.shown /\ line.offset = offset /\ line.cells = cells /\ line.sidebar = sidebar
  BY <1>2
<1>4. Len(d) \in Nat /\ DOMAIN d = 1 .. Len(d)
  BY SeqFacts DEF LineBytes
<1>5. Len(sidebar) = Len(d) /\ \A c \in 1 .. Len(d) : sidebar[c] = Printed(d[c])
  BY <1>1, <1>4
<1>6. \A c \in 1 .. Len(d) : InOrder(cells, o)[c] = d[c]
  BY <1>1, CellsShow
<1>7. Cardinality({j \in DOMAIN cells : cells[j] # NoByte}) = Len(d)
  BY <1>1, CellsCounted, Zenon
<1> HIDE DEF InOrder
<1> QED
  BY <1>3, <1>5, <1>6, <1>7 DEF ShowsLine

-----------------------------------------------------------------------------
(* bhxx: where the dump shows a byte.                                      *)

DumpLines(o) == {Line(d, o, k) : d \in LineBytes(o), k \in Nat} \cup {Star}

\* Line n of the dump is the one that the byte at offset k is read off.
ReadOff(dump, o, k, n) ==
  /\ n \in DOMAIN dump /\ dump[n].shown /\ dump[n].offset \in Nat /\ dump[n].offset <= k
  /\ \A j \in DOMAIN dump : j > n /\ dump[j].shown => dump[j].offset > k
  /\ k - dump[n].offset >= o.layout.cols => n + 1 \in DOMAIN dump /\ ~dump[n + 1].shown

\* It shows that byte.
ShowsByte(line, o, byte, k) ==
  LET column == ((k - line.offset) % o.layout.cols) + 1
  IN  /\ column <= Len(line.sidebar)
      /\ InOrder(line.cells, o)[column] = byte
      /\ line.sidebar[column] = Printed(byte)

FoundIn(dump, o, wanted, k) ==
  \E n \in DOMAIN dump :
    ReadOff(dump, o, k, n) /\ ShowsByte(dump[n], o, wanted[k - o.seek + 1], k)

\* A line is not looked for behind a later offset, nor at a "*".
LEMMA FoundStays ==
  ASSUME NEW dump, NEW S, NEW o, NEW wanted, NEW k, NEW x, NEW longer,
         dump \in Seq(S), x \in S, k \in Nat, longer = Append(dump, x),
         x.shown => x.offset > k, FoundIn(dump, o, wanted, k)
  PROVE  FoundIn(longer, o, wanted, k)
<1>1. PICK n \in DOMAIN dump :
         ReadOff(dump, o, k, n) /\ ShowsByte(dump[n], o, wanted[k - o.seek + 1], k)
  BY DEF FoundIn
<1>2. PICK l : l = Len(dump)
  OBVIOUS
<1>3. /\ l \in Nat /\ DOMAIN dump = 1 .. l /\ Len(longer) = l + 1 /\ DOMAIN longer = 1 .. l + 1
      /\ \A i \in 1 .. l : longer[i] = dump[i]
      /\ longer[l + 1] = x
  BY <1>2, AppendFacts, SeqFacts
<1>4. n \in 1 .. l /\ n \in 1 .. l + 1 /\ longer[n] = dump[n]
  BY <1>3
<1>5. ASSUME NEW j \in 1 .. l + 1, j > n, longer[j].shown
      PROVE  longer[j].offset > k
  <2>1. CASE j = l + 1
    BY <1>3, <1>5, <2>1
  <2>2. CASE j \in 1 .. l
    BY <1>1, <1>3, <1>5, <2>2 DEF ReadOff
  <2> QED
    BY <1>3, <2>1, <2>2
<1>6. k - dump[n].offset >= o.layout.cols => n + 1 \in 1 .. l + 1 /\ ~longer[n + 1].shown
  <2> SUFFICES ASSUME k - dump[n].offset >= o.layout.cols
               PROVE  n + 1 \in 1 .. l + 1 /\ ~longer[n + 1].shown
    OBVIOUS
  <2>1. n + 1 \in 1 .. l /\ ~dump[n + 1].shown
    BY <1>1, <1>3 DEF ReadOff
  <2> QED
    BY <1>3, <2>1
<1>7. ReadOff(longer, o, k, n)
  BY <1>1, <1>3, <1>4, <1>5, <1>6 DEF ReadOff
<1> QED
  BY <1>1, <1>3, <1>4, <1>7 DEF FoundIn

\* The bytes of d follow the first total of those wanted.
ComesNext(d, wanted, total) ==
  total \in Nat /\ \A c \in 1 .. Len(d) : wanted[total + c] = d[c]

\* A line shows its bytes, at the offsets that begin with its own and again
\* a number of columns further on.
LEMMA LineShows ==
  ASSUME NEW o, NEW d, NEW offset, NEW line, NEW wanted, NEW total, NEW turns, NEW k,
         o \in BhxxOptions, Fits(o), d \in LineBytes(o), o.style # "plain",
         offset \in Nat, turns \in Nat, line = Line(d, o, offset), ComesNext(d, wanted, total),
         offset + o.layout.cols * turns = o.seek + total,
         k \in o.seek + total .. o.seek + total + Len(d) - 1
  PROVE  /\ ShowsByte(line, o, wanted[k - o.seek + 1], k)
         /\ offset <= k /\ k \in Nat
         /\ turns = 0 => k - offset < o.layout.cols
<1>1. PICK cols, seek, len : cols = o.layout.cols /\ seek = o.seek /\ len = Len(d)
  BY Zenon
<1>2. cols \in Nat /\ cols > 0 /\ seek \in Nat /\ len \in 1 .. cols /\ total \in Nat
  BY <1>1, BhxxOptionFacts DEF Fits, LineBytes, ComesNext
<1>3. PICK r, a : r = k - (seek + total) /\ a = cols * turns
  OBVIOUS
<1>4. /\ r \in 0 .. len - 1 /\ k \in Nat /\ a \in Nat /\ offset + a = seek + total
      /\ k - offset = a + r /\ k - seek + 1 = total + (r + 1)
  <2>1. k \in seek + total .. seek + total + len - 1 /\ offset + a = seek + total
    BY <1>1, <1>3
  <2>2. a \in Nat
    BY <1>2, <1>3
  <2> QED
    BY <1>2, <1>3, <2>1, <2>2
<1>5. (k - offset) % cols = r
  <2>1. r \in 0 .. cols - 1 /\ cols \in Nat \ {0} /\ k - offset = cols * turns + r
    BY <1>2, <1>3, <1>4
  <2> QED
    BY <2>1, DivModUnique
<1>6. PICK c : c = r + 1
  OBVIOUS
<1>7. c \in 1 .. len /\ wanted[k - seek + 1] = d[c]
  <2>1. c \in 1 .. len
    BY <1>2, <1>4, <1>6
  <2>2. k - seek + 1 = total + c
    BY <1>4, <1>6
  <2>3. \A x \in 1 .. len : wanted[total + x] = d[x]
    BY <1>1 DEF ComesNext
  <2> QED
    BY <2>1, <2>2, <2>3
<1>8. /\ line.offset = offset /\ Len(line.sidebar) = len
      /\ InOrder(line.cells, o)[c] = d[c] /\ line.sidebar[c] = Printed(d[c])
  <2>1. ShowsLine(line, o, d, offset)
    BY LineFacts
  <2> QED
    BY <1>1, <1>7, <2>1 DEF ShowsLine
<1>9. ShowsByte(line, o, wanted[k - seek + 1], k)
  <2>1. ((k - line.offset) % o.layout.cols) + 1 = c
    BY <1>1, <1>5, <1>6, <1>8
  <2> QED
    BY <1>2, <1>7, <1>8, <2>1 DEF ShowsByte
<1>10. offset <= k
  BY <1>2, <1>4
<1>11. turns = 0 => k - offset < cols
  <2>1. turns = 0 => a = 0
    BY <1>2, <1>3
  <2> QED
    BY <1>2, <1>4, <2>1
<1> QED
  BY <1>1, <1>4, <1>9, <1>10, <1>11

\* The bytes of a new line are found in it.
LEMMA FoundInLine ==
  ASSUME NEW dump, NEW S, NEW o, NEW d, NEW offset, NEW line, NEW wanted, NEW total, NEW k,
         NEW longer, dump \in Seq(S), line \in S, longer = Append(dump, line),
         o \in BhxxOptions, Fits(o), d \in LineBytes(o), o.style # "plain",
         offset = o.seek + total, line = Line(d, o, offset), ComesNext(d, wanted, total),
         k \in offset .. offset + Len(d) - 1
  PROVE  FoundIn(longer, o, wanted, k)
<1>1. PICK l : l = Len(dump) + 1
  OBVIOUS
<1>2. /\ l \in Nat \ {0} /\ DOMAIN longer = 1 .. l /\ longer[l] = line
  BY <1>1, AppendFacts, SeqFacts
<1>3. offset \in Nat /\ o.layout.cols \in Nat /\ total \in Nat
  BY BhxxOptionFacts DEF ComesNext
<1>4. PICK turns : turns = 0
  OBVIOUS
<1>5. offset + o.layout.cols * turns = o.seek + total /\ turns \in Nat
  BY <1>3, <1>4
<1>6. /\ ShowsByte(line, o, wanted[k - o.seek + 1], k)
      /\ offset <= k /\ k \in Nat
      /\ k - offset < o.layout.cols
  BY <1>3, <1>4, <1>5, LineShows, Zenon
<1>7. line.shown /\ line.offset = offset
  <2>1. ShowsLine(line, o, d, offset)
    BY LineFacts
  <2> QED
    BY <2>1 DEF ShowsLine
<1>8. ReadOff(longer, o, k, l)
  <2>1. ~(k - offset >= o.layout.cols)
    BY <1>3, <1>6
  <2>2. \A j \in 1 .. l : ~(j > l)
    BY <1>2
  <2>3. l \in 1 .. l
    BY <1>2
  <2> QED
    BY <1>2, <1>3, <1>6, <1>7, <2>1, <2>2, <2>3, Zenon DEF ReadOff
<1>9. l \in DOMAIN longer
  BY <1>2
<1> QED
  BY <1>2, <1>6, <1>8, <1>9 DEF FoundIn

\* The last line shown, and the "*" behind it if lines have been skipped since.
LastShown(dump, o, prev, skipping, offset) ==
  \/ dump = <<>> /\ prev = <<>> /\ ~skipping
  \/ \E n \in DOMAIN dump, k \in Nat, turns \in Nat \ {0} :
       /\ prev \in LineBytes(o) /\ dump[n] = Line(prev, o, k)
       /\ Len(dump) = IF skipping THEN n + 1 ELSE n
       /\ skipping => dump[n + 1] = Star
       /\ Len(prev) = o.layout.cols => offset = k + o.layout.cols * turns

\* The bytes of a line that is skipped are found in the last one shown.
LEMMA FoundInLast ==
  ASSUME NEW dump, NEW S, NEW o, NEW prev, NEW offset, NEW wanted, NEW total, NEW k,
         dump \in Seq(S), o \in BhxxOptions, Fits(o), o.style # "plain",
         offset = o.seek + total, ComesNext(prev, wanted, total),
         LastShown(dump, o, prev, TRUE, offset), Len(prev) = o.layout.cols,
         k \in offset .. offset + Len(prev) - 1
  PROVE  FoundIn(dump, o, wanted, k)
<1>1. PICK n \in DOMAIN dump, b \in Nat, turns \in Nat \ {0} :
        /\ prev \in LineBytes(o) /\ dump[n] = Line(prev, o, b)
        /\ Len(dump) = n + 1 /\ dump[n + 1] = Star
        /\ offset = b + o.layout.cols * turns
  BY Zenon DEF LastShown
<1>2. n \in Nat /\ DOMAIN dump = 1 .. n + 1 /\ n >= 1
  BY <1>1, SeqFacts
<1>3. /\ ShowsByte(dump[n], o, wanted[k - o.seek + 1], k)
      /\ b <= k /\ k \in Nat
  <2>1. b + o.layout.cols * turns = o.seek + total /\ turns \in Nat
    BY <1>1, Zenon
  <2>2. k \in o.seek + total .. o.seek + total + Len(prev) - 1
    OBVIOUS
  <2>3. PICK line : line = dump[n]
    OBVIOUS
  <2> QED
    BY <1>1, <2>1, <2>2, <2>3, LineShows, Zenon
<1>4. dump[n].shown /\ dump[n].offset = b
  <2>1. PICK line : line = dump[n]
    OBVIOUS
  <2>2. ShowsLine(line, o, prev, b)
    BY <1>1, <2>1, LineFacts, Zenon
  <2> QED
    BY <2>1, <2>2 DEF ShowsLine
<1>5. ~dump[n + 1].shown
  BY <1>1 DEF Star
<1>6. ReadOff(dump, o, k, n)
  <2>1. \A j \in 1 .. n + 1 : j > n => j = n + 1
    BY <1>2
  <2>2. n + 1 \in 1 .. n + 1 /\ n \in 1 .. n + 1
    BY <1>2
  <2> QED
    BY <1>1, <1>2, <1>3, <1>4, <1>5, <2>1, <2>2 DEF ReadOff
<1> QED
  BY <1>3, <1>6 DEF FoundIn

\* A line that is shown is the last one, and the offset goes on behind it.
LEMMA LastIsNew ==
  ASSUME NEW dump, NEW S, NEW o, NEW d, NEW offset, NEW line, NEW longer, NEW next,
         dump \in Seq(S), line \in S, longer = Append(dump, line), o \in BhxxOptions,
         d \in LineBytes(o), offset \in Nat, line = Line(d, o, offset), next = offset + Len(d)
  PROVE  LastShown(longer, o, d, FALSE, next)
<1>1. PICK l : l = Len(dump) + 1
  OBVIOUS
<1>2. /\ l \in Nat \ {0} /\ DOMAIN longer = 1 .. l /\ longer[l] = line /\ Len(longer) = l
  BY <1>1, AppendFacts, SeqFacts
<1>3. l \in DOMAIN longer
  BY <1>2
<1>4. PICK turns : turns = 1
  OBVIOUS
<1>5. Len(d) = o.layout.cols => next = offset + o.layout.cols * turns
  <2>1. o.layout.cols \in Nat
    BY BhxxOptionFacts
  <2> QED
    BY <1>4, <2>1
<1>6. turns \in Nat \ {0}
  BY <1>4
<1> QED
  BY <1>2, <1>3, <1>5, <1>6 DEF LastShown

\* A skipped line leaves the last one what it was, and a "*" behind it.
LEMMA LastIsStarred ==
  ASSUME NEW dump, NEW o, NEW prev, NEW skipping, NEW offset, NEW longer,
         dump \in Seq(DumpLines(o)), prev # <<>>, skipping \in BOOLEAN,
         longer = IF skipping THEN dump ELSE Append(dump, Star),
         LastShown(dump, o, prev, skipping, offset)
  PROVE  LastShown(longer, o, prev, TRUE, offset)
<1>1. PICK n \in DOMAIN dump, k \in Nat, turns \in Nat \ {0} :
        /\ prev \in LineBytes(o) /\ dump[n] = Line(prev, o, k)
        /\ Len(dump) = IF skipping THEN n + 1 ELSE n
        /\ skipping => dump[n + 1] = Star
        /\ Len(prev) = o.layout.cols => offset = k + o.layout.cols * turns
  BY Zenon DEF LastShown
<1>2. PICK S : S = DumpLines(o)
  OBVIOUS
<1>3. dump \in Seq(S) /\ Star \in S
  BY <1>2 DEF DumpLines
<1>4. n \in DOMAIN longer /\ longer[n] = dump[n] /\ Len(longer) = n + 1 /\ longer[n + 1] = Star
  <2>1. CASE skipping
    BY <1>1, <2>1
  <2>2. CASE ~skipping
    <3>1. longer = Append(dump, Star) /\ Len(dump) = n
      BY <1>1, <2>2
    <3>2. n \in 1 .. n /\ n \in Nat
      BY <1>3, <3>1, SeqFacts
    <3>3. /\ longer \in Seq(S) /\ Len(longer) = n + 1 /\ longer[n + 1] = Star
          /\ \A i \in 1 .. n : longer[i] = dump[i]
      BY <1>3, <3>1, AppendFacts
    <3>4. DOMAIN longer = 1 .. n + 1
      BY <3>3, SeqFacts
    <3>5. n \in 1 .. n + 1
      BY <3>2
    <3> QED
      BY <3>2, <3>3, <3>4, <3>5
  <2> QED
    BY <2>1, <2>2
<1> QED
  BY <1>1, <1>4 DEF LastShown

\* The offset goes on behind a line that is skipped.
LEMMA LastGoesOn ==
  ASSUME NEW dump, NEW o, NEW prev, NEW offset, NEW next, o \in BhxxOptions, prev # <<>>,
         Len(prev) = o.layout.cols, next = offset + o.layout.cols,
         LastShown(dump, o, prev, TRUE, offset)
  PROVE  LastShown(dump, o, prev, TRUE, next)
<1>1. PICK n \in DOMAIN dump, k \in Nat, turns \in Nat \ {0} :
        /\ prev \in LineBytes(o) /\ dump[n] = Line(prev, o, k)
        /\ Len(dump) = n + 1 /\ dump[n + 1] = Star
        /\ offset = k + o.layout.cols * turns
  BY DEF LastShown
<1>2. PICK more : more = turns + 1
  OBVIOUS
<1>3. more \in Nat \ {0} /\ next = k + o.layout.cols * more
  <2>1. PICK cols : cols = o.layout.cols
    OBVIOUS
  <2>2. cols \in Nat
    BY <2>1, BhxxOptionFacts
  <2>3. PICK a : a = cols * turns
    OBVIOUS
  <2>4. a \in Nat /\ cols * more = a + cols
    BY <1>2, <2>2, <2>3
  <2>5. offset = k + a /\ next = offset + cols
    BY <1>1, <2>1, <2>3
  <2>6. next = k + (a + cols)
    <3>1. \A x, y, z \in Nat : (x + y) + z = x + (y + z)
      OBVIOUS
    <3>2. (k + a) + cols = k + (a + cols)
      BY <2>2, <2>4, <3>1
    <3>3. next = (k + a) + cols
      BY <2>5
    <3> QED
      BY <3>2, <3>3
  <2> QED
    BY <1>2, <2>1, <2>4, <2>6
<1> QED
  BY <1>1, <1>3, Zenon DEF LastShown

-----------------------------------------------------------------------------
(* bhxx: what is read of a line.                                           *)

DumpChars == {"0", "1", "2", "6", "7", "a", " ", "z", "."}

Takings == [hex : Seq(DumpChars), stop : BOOLEAN]

NoneTaken == [hex |-> <<>>, stop |-> FALSE]

\* The digits h have been taken, and it goes on.
IsTaken(acc, h) == acc = [hex |-> h, stop |-> FALSE]

LEMMA TakeCharType ==
  ASSUME NEW acc, NEW c, NEW colon, acc \in Takings, c \in DumpChars
  PROVE  TakeChar(acc, c, colon) \in Takings
<1>1. PICK goesOn : goesOn = (colon /\ Len(acc.hex) >= 32)
  OBVIOUS
<1>2. goesOn \in BOOLEAN
  BY <1>1
<1>3. [acc EXCEPT !.stop = goesOn] \in Takings
  BY <1>2 DEF Takings
<1>4. [acc EXCEPT !.hex = Append(acc.hex, c)] \in Takings
  <2>1. acc.hex \in Seq(DumpChars)
    BY DEF Takings
  <2>2. Append(acc.hex, c) \in Seq(DumpChars)
    BY <2>1, AppendFacts
  <2> QED
    BY <2>2 DEF Takings
<1>5. \/ TakeChar(acc, c, colon) = acc
      \/ TakeChar(acc, c, colon) = [acc EXCEPT !.hex = Append(acc.hex, c)]
      \/ TakeChar(acc, c, colon) = [acc EXCEPT !.stop = goesOn]
  <2> DEFINE passed == acc.stop \/ (c = " " /\ Len(acc.hex) % 2 = 0)
             taken == ~acc.stop /\ c \in HexDigits
  <2>1. CASE taken
    <3>1. c # " "
      BY <2>1 DEF HexDigits
    <3> QED
      BY <2>1, <3>1, Zenon DEF TakeChar
  <2>2. CASE passed /\ ~taken
    BY <2>2, Zenon DEF TakeChar
  <2>3. CASE ~passed /\ ~taken
    BY <1>1, <2>3, Zenon DEF TakeChar
  <2> QED
    BY <2>1, <2>2, <2>3
<1> QED
  BY <1>3, <1>4, <1>5

\* A digit is taken; a blank between bytes is passed over; what is no digit adds none.
LEMMA TakeCharFacts ==
  ASSUME NEW acc, NEW h, NEW c, NEW colon, IsTaken(acc, h)
  PROVE  /\ c \in HexDigits => IsTaken(TakeChar(acc, c, colon), Append(h, c))
         /\ c = " " /\ Len(h) % 2 = 0 => IsTaken(TakeChar(acc, c, colon), h)
<1>1. acc.hex = h /\ ~acc.stop /\ acc = [hex |-> h, stop |-> FALSE]
  BY DEF IsTaken
<1>2. CASE c \in HexDigits
  <2>1. c # " "
    BY <1>2 DEF HexDigits
  <2>2. TakeChar(acc, c, colon) = [acc EXCEPT !.hex = Append(h, c)]
    BY <1>1, <1>2, <2>1, Zenon DEF TakeChar
  <2>3. [acc EXCEPT !.hex = Append(h, c)] = [hex |-> Append(h, c), stop |-> FALSE]
    <3>1. ASSUME NEW u, NEW v, NEW w
          PROVE  [[hex |-> u, stop |-> w] EXCEPT !.hex = v] = [hex |-> v, stop |-> w]
      OBVIOUS
    <3>2. [[hex |-> h, stop |-> FALSE] EXCEPT !.hex = Append(h, c)]
            = [hex |-> Append(h, c), stop |-> FALSE]
      BY <3>1, Zenon
    <3> QED
      BY <1>1, <3>2, Zenon
  <2> QED
    BY <2>1, <2>2, <2>3 DEF IsTaken
<1>3. CASE c \notin HexDigits
  <2>1. ASSUME c = " ", Len(h) % 2 = 0
        PROVE  TakeChar(acc, c, colon) = acc
    <3>1. Len(acc.hex) % 2 = 0
      BY <1>1, <2>1
    <3> QED
      BY <1>1, <1>3, <2>1, <3>1, Zenon DEF TakeChar
  <2> QED
    BY <1>3, <2>1
<1> QED
  BY <1>2, <1>3

LEMMA TakeCharOther ==
  ASSUME NEW acc, NEW c, NEW colon, acc \in Takings, c \notin HexDigits
  PROVE  TakeChar(acc, c, colon).hex = acc.hex
<1>1. PICK goesOn : goesOn = (colon /\ Len(acc.hex) >= 32)
  OBVIOUS
<1>2. \/ TakeChar(acc, c, colon) = acc
      \/ TakeChar(acc, c, colon) = [acc EXCEPT !.stop = goesOn]
  BY <1>1, Zenon DEF TakeChar
<1>3. [acc EXCEPT !.stop = goesOn].hex = acc.hex
  BY DEF Takings
<1> QED
  BY <1>2, <1>3, Zenon

TakenRun(f, acc, text, colon) ==
  /\ TakeAll(acc, text, colon) = f[Len(text)]
  /\ f[0] = acc
  /\ \A n \in 0 .. Len(text) : f[n] \in Takings
  /\ \A n \in 0 .. Len(text) - 1 : f[n + 1] = TakeChar(f[n], text[n + 1], colon)

LEMMA TakenFunction ==
  ASSUME NEW acc, NEW text, NEW colon, acc \in Takings, text \in Seq(DumpChars)
  PROVE  \E f : TakenRun(f, acc, text, colon)
<1> DEFINE last == Len(text)
           Body(f, i) == IF i = 0 THEN acc ELSE TakeChar(f[i - 1], text[i], colon)
           upTo == CHOOSE f : f = [i \in 0 .. last |-> Body(f, i)]
           step == [p \in (0 .. last) \X Takings |->
                      IF p[1] < last THEN TakeChar(p[2], text[p[1] + 1], colon) ELSE p[2]]
<1>1. last \in Nat /\ \A i \in 1 .. last : text[i] \in DumpChars
  BY SeqFacts
<1>2. ASSUME NEW n \in 0 .. last, NEW a \in Takings
      PROVE  /\ step[<<n, a>>] \in Takings
             /\ n < last => step[<<n, a>>] = TakeChar(a, text[n + 1], colon)
  <2>1. <<n, a>> \in (0 .. last) \X Takings
    OBVIOUS
  <2>2. step[<<n, a>>] = IF n < last THEN TakeChar(a, text[n + 1], colon) ELSE a
    BY <2>1
  <2>3. n < last => n + 1 \in 1 .. last /\ n + 1 \in Nat
    BY <1>1
  <2>4. n < last => TakeChar(a, text[n + 1], colon) \in Takings
    BY <1>1, <2>3, TakeCharType
  <2> HIDE DEF step
  <2> QED
    BY <2>2, <2>4
<1>3. Steps(Takings, acc, step, 0, last)
  <2> HIDE DEF step
  <2>1. 0 \in Nat /\ last \in Nat /\ 0 <= last
    BY <1>1
  <2>2. \A n \in 0 .. last : \A a \in Takings : step[<<n, a>>] \in Takings
    BY <1>2
  <2> QED
    BY <2>1, <2>2, Zenon DEF Steps
<1>4. PICK g : Follows(g, Takings, acc, step, 0, last)
  <2> HIDE DEF step, last
  <2> QED
    BY <1>3, Recursion, Zenon
<1>5. /\ g \in [0 .. last -> Takings] /\ g[0] = acc
      /\ \A n \in 0 .. last - 1 : g[n + 1] = TakeChar(g[n], text[n + 1], colon)
  <2> HIDE DEF step
  <2>1. g \in [0 .. last -> Takings] /\ g[0] = acc
    BY <1>4 DEF Follows
  <2>2. ASSUME NEW n \in 0 .. last - 1
        PROVE  g[n + 1] = TakeChar(g[n], text[n + 1], colon)
    <3>1. g[n + 1] = step[<<n, g[n]>>]
      BY <1>4, <2>2 DEF Follows
    <3>2. n \in 0 .. last /\ n < last /\ g[n] \in Takings
      BY <1>1, <2>1
    <3> QED
      BY <3>1, <3>2, <1>2
  <2> QED
    BY <2>1, <2>2
<1>6. g = [i \in 0 .. last |-> Body(g, i)]
  <2>1. ASSUME NEW i \in 0 .. last
        PROVE  g[i] = Body(g, i)
    <3>1. CASE i = 0
      BY <3>1, <1>5
    <3>2. CASE i # 0
      <4>1. PICK n : n = i - 1
        OBVIOUS
      <4>2. n \in 0 .. last - 1 /\ i = n + 1
        BY <3>2, <4>1, <1>1
      <4>3. g[n + 1] = TakeChar(g[n], text[n + 1], colon)
        BY <4>2, <1>5
      <4> QED
        BY <3>2, <4>1, <4>2, <4>3
    <3> QED
      BY <3>1, <3>2
  <2> HIDE DEF Body
  <2> QED
    BY <2>1, <1>5
<1>7. upTo = [i \in 0 .. last |-> Body(upTo, i)]
  BY <1>6, Zenon
<1>8. TakeAll(acc, text, colon) = upTo[last]
  BY DEF TakeAll
<1> HIDE DEF upTo
<1>9. upTo[0] = acc
  BY <1>1, <1>7
<1>10. ASSUME NEW n \in 0 .. last - 1
       PROVE  upTo[n + 1] = TakeChar(upTo[n], text[n + 1], colon)
  <2>1. n + 1 \in 0 .. last /\ n + 1 # 0 /\ (n + 1) - 1 = n
    BY <1>1
  <2>2. upTo[n + 1] = Body(upTo, n + 1)
    BY <1>7, <2>1
  <2> QED
    BY <2>1, <2>2
<1>11. PICK first : first = 0
  OBVIOUS
<1>12. Agree(upTo, g, first, last)
  BY <1>1, <1>5, <1>9, <1>10, <1>11 DEF Agree
<1>13. \A n \in first .. last : upTo[n] = g[n]
  BY <1>12, SameRecursion
<1>14. \A n \in 0 .. last : upTo[n] \in Takings
  BY <1>5, <1>11, <1>13
<1>15. TakenRun(upTo, acc, text, colon)
  BY <1>8, <1>9, <1>10, <1>14 DEF TakenRun
<1> QED
  BY <1>15

LEMMA TakeAllType ==
  ASSUME NEW acc, NEW text, NEW colon, acc \in Takings, text \in Seq(DumpChars)
  PROVE  TakeAll(acc, text, colon) \in Takings
<1>1. PICK f : TakenRun(f, acc, text, colon)
  BY TakenFunction, Zenon
<1>2. Len(text) \in 0 .. Len(text)
  BY SeqFacts
<1> QED
  BY <1>1, <1>2 DEF TakenRun

\* A text is read one part after the other.
LEMMA TakeConcat ==
  ASSUME NEW acc, NEW a, NEW b, NEW colon, acc \in Takings,
         a \in Seq(DumpChars), b \in Seq(DumpChars)
  PROVE  TakeAll(acc, a \o b, colon) = TakeAll(TakeAll(acc, a, colon), b, colon)
<1>1. PICK text, m, n, mid : /\ text = a \o b /\ m = Len(a) /\ n = Len(b)
                             /\ mid = TakeAll(acc, a, colon)
  BY Zenon
<1>2. /\ m \in Nat /\ n \in Nat /\ text \in Seq(DumpChars) /\ Len(text) = m + n
      /\ \A i \in 1 .. m : text[i] = a[i]
      /\ \A i \in 1 .. n : text[m + i] = b[i]
  BY <1>1, ConcatFacts
<1>3. PICK f : TakenRun(f, acc, text, colon)
  BY <1>2, TakenFunction, Zenon
<1>4. PICK g : TakenRun(g, acc, a, colon)
  BY TakenFunction, Zenon
<1>5. mid \in Takings
  BY <1>1, TakeAllType
<1>6. PICK h : TakenRun(h, mid, b, colon)
  BY <1>5, TakenFunction, Zenon
<1>7. PICK first : first = 0
  OBVIOUS
<1>8. Agree(f, g, first, m)
  <2>1. f[0] = g[0]
    BY <1>3, <1>4 DEF TakenRun
  <2>2. ASSUME NEW i \in 0 .. m - 1, f[i] = g[i]
        PROVE  f[i + 1] = g[i + 1]
    <3>1. i \in 0 .. Len(text) - 1 /\ i + 1 \in 1 .. m
      BY <1>2
    <3>2. f[i + 1] = TakeChar(f[i], text[i + 1], colon)
      BY <1>3, <3>1 DEF TakenRun
    <3>3. g[i + 1] = TakeChar(g[i], a[i + 1], colon)
      BY <1>1, <1>4 DEF TakenRun
    <3> QED
      BY <1>2, <2>2, <3>1, <3>2, <3>3
  <2> QED
    BY <1>2, <1>7, <2>1, <2>2 DEF Agree
<1>9. f[m] = mid
  <2>1. \A i \in first .. m : f[i] = g[i]
    BY <1>8, SameRecursion
  <2>2. m \in first .. m
    BY <1>2, <1>7
  <2>3. g[m] = mid
    BY <1>1, <1>4 DEF TakenRun
  <2> QED
    BY <2>1, <2>2, <2>3
<1>10. PICK e : e = [i \in 0 .. n |-> f[m + i]]
  BY Zenon
<1>11. Agree(e, h, first, n)
  <2>1. e[0] = h[0]
    <3>1. e[0] = f[m]
      BY <1>2, <1>10
    <3>2. h[0] = mid
      BY <1>6 DEF TakenRun
    <3> QED
      BY <1>9, <3>1, <3>2
  <2>2. ASSUME NEW i \in 0 .. n - 1, e[i] = h[i]
        PROVE  e[i + 1] = h[i + 1]
    <3>1. PICK k : k = m + i
      OBVIOUS
    <3>2. k \in 0 .. Len(text) - 1 /\ i + 1 \in 1 .. n /\ k + 1 = m + (i + 1)
      BY <1>2, <3>1
    <3>3. f[k + 1] = TakeChar(f[k], text[k + 1], colon)
      BY <1>3, <3>2 DEF TakenRun
    <3>4. h[i + 1] = TakeChar(h[i], b[i + 1], colon)
      BY <1>1, <1>6 DEF TakenRun
    <3>5. e[i] = f[k] /\ e[i + 1] = f[k + 1]
      BY <1>2, <1>10, <3>1, <3>2
    <3>6. text[k + 1] = b[i + 1]
      BY <1>2, <3>2
    <3> QED
      BY <2>2, <3>3, <3>4, <3>5, <3>6
  <2> QED
    BY <1>2, <1>7, <2>1, <2>2 DEF Agree
<1>12. e[n] = h[n]
  <2>1. \A i \in first .. n : e[i] = h[i]
    BY <1>11, SameRecursion
  <2>2. n \in first .. n
    BY <1>2, <1>7
  <2> QED
    BY <2>1, <2>2
<1>13. f[m + n] = h[n]
  BY <1>2, <1>10, <1>12
<1>14. TakeAll(acc, text, colon) = TakeAll(mid, b, colon)
  BY <1>1, <1>2, <1>3, <1>6, <1>13 DEF TakenRun
<1> QED
  BY <1>1, <1>14

LEMMA TakeOne ==
  ASSUME NEW acc, NEW c, NEW colon, acc \in Takings, c \in DumpChars
  PROVE  TakeAll(acc, <<c>>, colon) = TakeChar(acc, c, colon)
<1>1. PICK text : text = <<c>>
  BY Zenon
<1>2. text \in Seq(DumpChars) /\ Len(text) = 1 /\ text[1] = c
  BY <1>1
<1>3. PICK f : TakenRun(f, acc, text, colon)
  BY <1>2, TakenFunction, Zenon
<1>4. 0 \in 0 .. Len(text) - 1 /\ 0 + 1 = 1
  BY <1>2
<1>5. f[1] = TakeChar(f[0], text[1], colon)
  BY <1>3, <1>4 DEF TakenRun
<1>6. f[0] = acc /\ TakeAll(acc, text, colon) = f[1]
  BY <1>2, <1>3 DEF TakenRun
<1> QED
  BY <1>1, <1>2, <1>5, <1>6

LEMMA TakeNone ==
  ASSUME NEW acc, NEW colon, acc \in Takings
  PROVE  TakeAll(acc, <<>>, colon) = acc
<1>1. PICK text : text = <<>>
  OBVIOUS
<1>2. text \in Seq(DumpChars) /\ Len(text) = 0
  BY <1>1
<1>3. PICK f : TakenRun(f, acc, text, colon)
  BY <1>2, TakenFunction, Zenon
<1> QED
  BY <1>1, <1>2, <1>3 DEF TakenRun

\* A text without digits adds none.
LEMMA TakeOthers ==
  ASSUME NEW acc, NEW text, NEW colon, acc \in Takings, text \in Seq(DumpChars),
         \A i \in 1 .. Len(text) : text[i] \notin HexDigits
  PROVE  TakeAll(acc, text, colon).hex = acc.hex
<1>1. PICK f : TakenRun(f, acc, text, colon)
  BY TakenFunction
<1>2. PICK last, first : last = Len(text) /\ first = 0
  OBVIOUS
<1>3. last \in Nat
  BY <1>2, SeqFacts
<1> DEFINE G == {n \in Nat : f[n].hex = acc.hex}
<1>4. 0 \in G
  BY <1>1 DEF TakenRun
<1>5. ASSUME NEW n \in 0 .. last - 1, n \in G
      PROVE  n + 1 \in G
  <2>1. n \in 0 .. last /\ n + 1 \in 1 .. last /\ n + 1 \in Nat
    BY <1>3
  <2>2. f[n + 1] = TakeChar(f[n], text[n + 1], colon) /\ f[n] \in Takings
    BY <1>1, <1>2, <2>1 DEF TakenRun
  <2>3. text[n + 1] \notin HexDigits
    BY <1>2, <2>1
  <2>4. f[n + 1].hex = f[n].hex
    BY <2>2, <2>3, TakeCharOther
  <2> QED
    BY <1>5, <2>1, <2>4
<1> HIDE DEF G
<1>6. Inductive(G, first, last)
  BY <1>2, <1>3, <1>4, <1>5 DEF Inductive
<1>7. \A n \in first .. last : n \in G
  BY <1>6, RangeInduction
<1>8. f[last].hex = acc.hex
  BY <1>2, <1>3, <1>7 DEF G
<1> QED
  BY <1>1, <1>2, <1>8 DEF TakenRun

\* The digits of the first n bytes of d.
DigitsOf(h, d, n) ==
  /\ h \in Seq(DumpChars) /\ n \in Nat /\ Len(h) = 2 * n
  /\ \A i \in 1 .. n : h[2 * i - 1] = d[i][1] /\ h[2 * i] = d[i][2]

TakenTo(acc, d, n) == \E h : IsTaken(acc, h) /\ DigitsOf(h, d, n)

LEMMA BytesAreDigits ==
  ASSUME NEW b, b \in Bytes
  PROVE  /\ b = <<b[1], b[2]>> /\ b[1] \in HexDigits /\ b[2] \in HexDigits
         /\ b[1] \in DumpChars /\ b[2] \in DumpChars
         /\ b \in Seq(DumpChars) /\ Len(b) = 2
<1>1. \E x, y \in HexDigits : b = <<x, y>>
  BY DEF Bytes, HexDigits
<1>2. PICK x \in HexDigits, y \in HexDigits : b = <<x, y>>
  BY <1>1
<1>3. HexDigits \subseteq DumpChars
  BY DEF HexDigits, DumpChars
<1>4. x \in DumpChars /\ y \in DumpChars
  BY <1>3
<1> HIDE DEF DumpChars, HexDigits
<1>5. b[1] = x /\ b[2] = y /\ Len(b) = 2
  BY <1>2
<1>6. <<x, y>> \in Seq(DumpChars)
  BY <1>4
<1> QED
  BY <1>2, <1>4, <1>5, <1>6

LEMMA BlankFacts == <<" ">> \in Seq(DumpChars) /\ <<" ", " ">> \in Seq(DumpChars)
<1>1. PICK blank : blank = " "
  OBVIOUS
<1>2. blank \in DumpChars
  BY <1>1 DEF DumpChars
<1>3. <<blank>> \in Seq(DumpChars) /\ <<blank, blank>> \in Seq(DumpChars)
  BY <1>2
<1> QED
  BY <1>1, <1>3

LEMMA TakeTwo ==
  ASSUME NEW acc, NEW b, NEW colon, acc \in Takings, b \in Seq(DumpChars), Len(b) = 2
  PROVE  TakeAll(acc, b, colon) = TakeChar(TakeChar(acc, b[1], colon), b[2], colon)
<1>1. PICK f : TakenRun(f, acc, b, colon)
  BY TakenFunction, Zenon
<1>2. 0 \in 0 .. Len(b) - 1 /\ 1 \in 0 .. Len(b) - 1 /\ 0 + 1 = 1 /\ 1 + 1 = 2
  OBVIOUS
<1>3. f[1] = TakeChar(f[0], b[1], colon)
  BY <1>1, <1>2 DEF TakenRun
<1>4. f[2] = TakeChar(f[1], b[2], colon)
  BY <1>1, <1>2 DEF TakenRun
<1>5. f[0] = acc /\ TakeAll(acc, b, colon) = f[2]
  BY <1>1 DEF TakenRun
<1> QED
  BY <1>3, <1>4, <1>5

LEMMA TakingsHold ==
  ASSUME NEW acc, NEW h, IsTaken(acc, h), h \in Seq(DumpChars)
  PROVE  acc \in Takings /\ acc.hex = h
BY DEF IsTaken, Takings

\* A byte is taken,
LEMMA TakeByte ==
  ASSUME NEW acc, NEW d, NEW n, NEW b, NEW colon, TakenTo(acc, d, n), b \in Bytes, d[n + 1] = b
  PROVE  TakenTo(TakeAll(acc, b, colon), d, n + 1)
<1>1. PICK h : IsTaken(acc, h) /\ DigitsOf(h, d, n)
  BY DEF TakenTo
<1>2. PICK x, y : x = b[1] /\ y = b[2]
  OBVIOUS
<1>3. /\ b = <<x, y>> /\ x \in HexDigits /\ y \in HexDigits
      /\ x \in DumpChars /\ y \in DumpChars
  BY <1>2, BytesAreDigits
<1>4. h \in Seq(DumpChars) /\ n \in Nat /\ Len(h) = 2 * n
  BY <1>1 DEF DigitsOf
<1>5. PICK h1, h2 : h1 = Append(h, x) /\ h2 = Append(h1, y)
  BY Zenon
<1>6. /\ h1 \in Seq(DumpChars) /\ Len(h1) = 2 * n + 1 /\ h1[2 * n + 1] = x
      /\ \A i \in 1 .. 2 * n : h1[i] = h[i]
  BY <1>3, <1>4, <1>5, AppendFacts
<1>7. /\ h2 \in Seq(DumpChars) /\ Len(h2) = 2 * n + 2 /\ h2[2 * n + 2] = y
      /\ \A i \in 1 .. 2 * n + 1 : h2[i] = h1[i]
  <2>1. PICK m : m = 2 * n + 1
    OBVIOUS
  <2>2. Len(h1) = m /\ m + 1 = 2 * n + 2
    BY <1>4, <1>6, <2>1
  <2>3. /\ h2 \in Seq(DumpChars) /\ Len(h2) = m + 1 /\ h2[m + 1] = y
        /\ \A i \in 1 .. m : h2[i] = h1[i]
    BY <1>3, <1>5, <1>6, <2>2, AppendFacts
  <2> QED
    BY <2>1, <2>2, <2>3
<1>8. PICK acc1, acc2 : acc1 = TakeChar(acc, x, colon) /\ acc2 = TakeChar(acc1, y, colon)
  OBVIOUS
<1>9. IsTaken(acc1, h1) /\ IsTaken(acc2, h2)
  <2>1. IsTaken(acc1, h1)
    BY <1>1, <1>3, <1>5, <1>8, TakeCharFacts
  <2> QED
    BY <1>3, <1>5, <1>8, <2>1, TakeCharFacts
<1>10. TakeAll(acc, b, colon) = acc2
  <2>1. acc \in Takings /\ acc1 \in Takings
    BY <1>1, <1>4, <1>6, <1>9, TakingsHold
  <2>2. b \in Seq(DumpChars) /\ Len(b) = 2
    BY BytesAreDigits
  <2> QED
    BY <1>2, <1>8, <2>1, <2>2, TakeTwo
<1>11. DigitsOf(h2, d, n + 1)
  <2>1. ASSUME NEW i \in 1 .. n + 1
        PROVE  h2[2 * i - 1] = d[i][1] /\ h2[2 * i] = d[i][2]
    <3>1. CASE i \in 1 .. n
      <4>1. 2 * i - 1 \in 1 .. 2 * n /\ 2 * i \in 1 .. 2 * n
        BY <1>4, <3>1
      <4>2. \A j \in 1 .. 2 * n : h2[j] = h[j]
        BY <1>4, <1>6, <1>7
      <4> QED
        BY <1>1, <3>1, <4>1, <4>2 DEF DigitsOf
    <3>2. CASE i = n + 1
      <4>1. 2 * i - 1 = 2 * n + 1 /\ 2 * i = 2 * n + 2 /\ 2 * n + 1 \in 1 .. 2 * n + 1
        BY <1>4, <3>2
      <4>2. h2[2 * n + 1] = x
        BY <1>6, <1>7, <4>1
      <4>3. h2[2 * i - 1] = x /\ h2[2 * i] = y
        BY <1>7, <4>1, <4>2
      <4> QED
        BY <1>2, <3>2, <4>3
    <3> QED
      BY <1>4, <3>1, <3>2
  <2>2. n + 1 \in Nat /\ Len(h2) = 2 * (n + 1)
    BY <1>4, <1>7
  <2> QED
    BY <1>7, <2>1, <2>2 DEF DigitsOf
<1> QED
  BY <1>9, <1>10, <1>11 DEF TakenTo

\* and blanks between bytes are passed over.
LEMMA TakeSpace ==
  ASSUME NEW acc, NEW d, NEW n, NEW colon, TakenTo(acc, d, n)
  PROVE  /\ TakenTo(TakeAll(acc, <<" ">>, colon), d, n)
         /\ TakenTo(TakeAll(acc, <<" ", " ">>, colon), d, n)
<1>1. PICK h : IsTaken(acc, h) /\ DigitsOf(h, d, n)
  BY DEF TakenTo
<1>2. h \in Seq(DumpChars) /\ Len(h) % 2 = 0
  <2>1. n \in Nat /\ Len(h) = 2 * n /\ h \in Seq(DumpChars)
    BY <1>1 DEF DigitsOf
  <2>2. (2 * n) % 2 = 0
    BY <2>1
  <2> QED
    BY <2>1, <2>2
<1>3. acc \in Takings
  BY <1>1, <1>2, TakingsHold
<1>4. PICK blank : blank = " "
  OBVIOUS
<1>5. blank \in DumpChars
  BY <1>4 DEF DumpChars
<1>6. PICK next : next = TakeChar(acc, blank, colon)
  OBVIOUS
<1>7. IsTaken(next, h)
  BY <1>1, <1>2, <1>4, <1>6, TakeCharFacts
<1>8. next = acc
  BY <1>1, <1>7 DEF IsTaken
<1>9. PICK s : s = <<blank>>
  BY Zenon
<1>10. s \in Seq(DumpChars) /\ <<blank, blank>> = s \o s
  BY <1>5, <1>9
<1>11. TakeAll(acc, s, colon) = acc
  BY <1>3, <1>5, <1>6, <1>8, <1>9, TakeOne, Zenon
<1>12. TakeAll(acc, s \o s, colon) = acc
  BY <1>3, <1>10, <1>11, TakeConcat
<1> QED
  BY <1>4, <1>9, <1>10, <1>11, <1>12

\* One column: a byte, or two blanks behind the last byte; a blank may follow it.
ColumnIs(piece, d, i) ==
  \E cell : /\ IF i <= Len(d) THEN cell = d[i] ELSE cell = NoByte
            /\ piece = cell \/ piece = cell \o <<" ">>

TakenUpTo(d, i) == IF i <= Len(d) THEN i ELSE Len(d)

LEMMA TakeColumn ==
  ASSUME NEW acc, NEW d, NEW n, NEW piece, NEW colon, d \in Seq(Bytes), n \in Nat,
         TakenTo(acc, d, TakenUpTo(d, n)), ColumnIs(piece, d, n + 1)
  PROVE  /\ piece \in Seq(DumpChars)
         /\ TakenTo(TakeAll(acc, piece, colon), d, TakenUpTo(d, n + 1))
<1>1. PICK cell : /\ IF n + 1 <= Len(d) THEN cell = d[n + 1] ELSE cell = NoByte
                  /\ piece = cell \/ piece = cell \o <<" ">>
  BY DEF ColumnIs
<1>2. Len(d) \in Nat
  BY SeqFacts
<1>3. acc \in Takings
  BY TakingsHold DEF TakenTo, DigitsOf
<1>4. PICK next : next = TakeAll(acc, cell, colon)
  OBVIOUS
<1>5. cell \in Seq(DumpChars) /\ TakenTo(next, d, TakenUpTo(d, n + 1))
  <2>1. CASE n + 1 <= Len(d)
    <3>1. TakenUpTo(d, n) = n /\ TakenUpTo(d, n + 1) = n + 1 /\ n + 1 \in 1 .. Len(d)
      BY <1>2, <2>1 DEF TakenUpTo
    <3>2. cell = d[n + 1] /\ cell \in Bytes
      <4>1. cell = d[n + 1]
        BY <1>1, <2>1
      <4>2. d[n + 1] \in Bytes
        BY <3>1, SeqFacts
      <4> QED
        BY <4>1, <4>2
    <3> QED
      BY <1>4, <3>1, <3>2, TakeByte, BytesAreDigits, Zenon
  <2>2. CASE ~(n + 1 <= Len(d))
    <3>1. TakenUpTo(d, n) = TakenUpTo(d, n + 1)
      BY <1>2, <2>2 DEF TakenUpTo
    <3>2. cell = <<" ", " ">>
      BY <1>1, <2>2 DEF NoByte
    <3>3. <<" ", " ">> \in Seq(DumpChars)
      BY BlankFacts
    <3> QED
      BY <1>4, <3>1, <3>2, <3>3, TakeSpace
  <2> QED
    BY <2>1, <2>2
<1>6. CASE piece = cell
  BY <1>4, <1>5, <1>6
<1>7. CASE piece = cell \o <<" ">>
  <2>1. PICK s : s = <<" ">>
    OBVIOUS
  <2>2. s \in Seq(DumpChars)
    BY <2>1, BlankFacts
  <2>3. piece \in Seq(DumpChars)
    BY <1>5, <1>7, <2>1, <2>2, ConcatFacts
  <2>4. TakeAll(acc, piece, colon) = TakeAll(next, s, colon)
    <3>1. TakeAll(acc, cell \o s, colon) = TakeAll(TakeAll(acc, cell, colon), s, colon)
      BY <1>3, <1>5, <2>2, TakeConcat
    <3> QED
      BY <1>4, <1>7, <2>1, <3>1
  <2>5. TakenTo(TakeAll(next, s, colon), d, TakenUpTo(d, n + 1))
    BY <1>5, <2>1, TakeSpace
  <2> QED
    BY <2>3, <2>4, <2>5
<1> QED
  BY <1>1, <1>6, <1>7

\* A sequence of columns.
ColumnsAre(ss, d) == \A i \in 1 .. Len(ss) : ColumnIs(ss[i], d, i)

LEMMA ColumnType ==
  ASSUME NEW d, NEW i, NEW piece, d \in Seq(Bytes), i \in Nat \ {0}, ColumnIs(piece, d, i)
  PROVE  piece \in Seq(DumpChars)
<1>1. PICK cell : /\ IF i <= Len(d) THEN cell = d[i] ELSE cell = NoByte
                  /\ piece = cell \/ piece = cell \o <<" ">>
  BY DEF ColumnIs
<1>2. cell \in Seq(DumpChars)
  <2>1. CASE i <= Len(d)
    <3>1. i \in 1 .. Len(d)
      BY <2>1, SeqFacts
    <3>2. d[i] \in Bytes
      BY <3>1, SeqFacts
    <3>3. cell = d[i]
      BY <1>1, <2>1
    <3> QED
      BY <3>2, <3>3, BytesAreDigits
  <2>2. CASE ~(i <= Len(d))
    <3>1. cell = <<" ", " ">>
      BY <1>1, <2>2 DEF NoByte
    <3> QED
      BY <3>1, BlankFacts
  <2> QED
    BY <2>1, <2>2
<1>3. PICK s : s = <<" ">>
  OBVIOUS
<1>4. s \in Seq(DumpChars)
  BY <1>3, BlankFacts
<1>5. cell \o s \in Seq(DumpChars)
  BY <1>2, <1>4, ConcatFacts
<1> QED
  BY <1>1, <1>2, <1>3, <1>5

LEMMA TakeColumns ==
  ASSUME NEW acc, NEW ss, NEW d, NEW colon, NEW m, d \in Seq(Bytes), m \in Nat,
         ss \in Seq(Seq(DumpChars)), Len(ss) = m, m >= Len(d), ColumnsAre(ss, d),
         TakenTo(acc, d, 0)
  PROVE  TakenTo(TakeAll(acc, FlattenSeq(ss), colon), d, Len(d))
<1>1. PICK B : B = Seq(DumpChars)
  OBVIOUS
<1>2. ss \in Seq(B) /\ Len(d) \in Nat
  BY <1>1, SeqFacts
<1>3. acc \in Takings
  BY TakingsHold, Zenon DEF TakenTo, DigitsOf
<1> DEFINE first(n) == SubSeq(ss, 1, n)
           G == {n \in Nat : TakenTo(TakeAll(acc, FlattenSeq(first(n)), colon), d,
                                     TakenUpTo(d, n))}
<1>4. 0 \in G
  <2>1. first(0) = <<>>
    BY <1>2
  <2>2. TakeAll(acc, FlattenSeq(first(0)), colon) = acc
    BY <1>3, <2>1, FlattenEmpty, TakeNone, Zenon
  <2>3. TakenUpTo(d, 0) = 0
    BY <1>2 DEF TakenUpTo
  <2> QED
    BY <2>2, <2>3
<1>5. ASSUME NEW n \in 0 .. m - 1, n \in G
      PROVE  n + 1 \in G
  <2>1. PICK s, t, piece : s = first(n) /\ t = first(n + 1) /\ piece = ss[n + 1]
    BY Zenon
  <2>2. n \in 0 .. Len(ss) - 1 /\ n \in Nat /\ n + 1 \in Nat /\ n + 1 \in 1 .. Len(ss)
    OBVIOUS
  <2>3. s \in Seq(B) /\ t = Append(s, piece)
    BY <1>2, <2>1, <2>2, PrefixFacts
  <2>4. piece \in Seq(DumpChars)
    BY <1>1, <1>2, <2>1, <2>2, SeqFacts
  <2>5. FlattenSeq(t) = FlattenSeq(s) \o piece /\ FlattenSeq(s) \in Seq(DumpChars)
    BY <1>1, <2>3, <2>4, FlattenAppend, FlattenType, Zenon
  <2>6. PICK mid : mid = TakeAll(acc, FlattenSeq(s), colon)
    OBVIOUS
  <2>7. TakeAll(acc, FlattenSeq(t), colon) = TakeAll(mid, piece, colon)
    BY <1>3, <2>4, <2>5, <2>6, TakeConcat
  <2>8. TakenTo(mid, d, TakenUpTo(d, n))
    BY <1>5, <2>1, <2>6
  <2>9. ColumnIs(piece, d, n + 1)
    BY <2>1, <2>2 DEF ColumnsAre
  <2>10. TakenTo(TakeAll(mid, piece, colon), d, TakenUpTo(d, n + 1))
    BY <2>2, <2>8, <2>9, TakeColumn, Zenon
  <2> QED
    BY <2>1, <2>2, <2>7, <2>10
<1>6. PICK begin : begin = 0
  OBVIOUS
<1> HIDE DEF G
<1>7. Inductive(G, begin, m)
  BY <1>4, <1>5, <1>6 DEF Inductive
<1>8. \A n \in begin .. m : n \in G
  BY <1>7, RangeInduction
<1>9. m \in G
  BY <1>6, <1>8
<1>10. first(m) = ss
  BY <1>2
<1>11. TakenUpTo(d, m) = Len(d)
  BY <1>2 DEF TakenUpTo
<1> QED
  BY <1>9, <1>10, <1>11, Zenon DEF G

\* A line is converted back if it is plain, or if its bytes are in order and no character of
\* its sidebar is a hex digit.
ReversibleLine(o, d) ==
  \/ o.style = "plain"
  \/ /\ o.style = "hex" /\ ~o.little
     /\ \A i \in 1 .. Len(d) : Printed(d[i]) \notin HexDigits

LEMMA PrintedChars ==
  ASSUME NEW b
  PROVE  Printed(b) \in DumpChars
<1>1. Printed(b) \in {"a", "z", " ", "."}
  BY DEF Printed
<1> QED
  BY <1>1 DEF DumpChars

LEMMA PlainTaken ==
  ASSUME NEW acc, NEW d, NEW colon, d \in Seq(Bytes), TakenTo(acc, d, 0)
  PROVE  TakenTo(TakeAll(acc, FlattenSeq(d), colon), d, Len(d))
<1>1. PICK B : B = Seq(DumpChars)
  OBVIOUS
<1>2. Len(d) \in Nat /\ DOMAIN d = 1 .. Len(d) /\ \A i \in 1 .. Len(d) : d[i] \in Bytes
  BY SeqFacts
<1>3. \A i \in 1 .. Len(d) : d[i] \in B
  BY <1>1, <1>2, BytesAreDigits
<1>4. d \in [1 .. Len(d) -> B]
  BY <1>2, <1>3
<1>5. d \in Seq(B)
  BY <1>2, <1>4, FunctionIsSeq
<1>6. ColumnsAre(d, d)
  <2> SUFFICES ASSUME NEW i \in 1 .. Len(d)
               PROVE  ColumnIs(d[i], d, i)
    BY DEF ColumnsAre
  <2>1. i <= Len(d)
    BY <1>2
  <2> QED
    BY <2>1 DEF ColumnIs
<1>7. PICK m : m = Len(d)
  OBVIOUS
<1>8. m \in Nat /\ m >= Len(d)
  BY <1>2, <1>7
<1>9. d \in Seq(Seq(DumpChars))
  BY <1>1, <1>5
<1> QED
  BY <1>6, <1>7, <1>8, <1>9, TakeColumns, Zenon

\* The cells of a line with its gaps.
Spaced(cells, o) ==
  [i \in DOMAIN cells |->
     cells[i] \o (IF o.layout.group > 0 /\ i % o.layout.group = 0 /\ i < o.layout.cols
                  THEN <<" ">> ELSE <<>>)]

LEMMA SpacedColumns ==
  ASSUME NEW o, NEW d, NEW cells, NEW ss, o \in BhxxOptions, Fits(o), d \in LineBytes(o), ~o.little,
         cells = [i \in 1 .. o.layout.cols |-> Cell(d, o, i - 1)], ss = Spaced(cells, o)
  PROVE  /\ ss \in Seq(Seq(DumpChars)) /\ Len(ss) = o.layout.cols
         /\ ColumnsAre(ss, d)
<1>1. PICK B, m : B = Seq(DumpChars) /\ m = o.layout.cols
  OBVIOUS
<1>2. m \in Nat /\ d \in Seq(Bytes) /\ Len(d) \in Nat /\ Len(d) <= m
  <2>1. d \in Seq(Bytes) /\ Len(d) \in 1 .. m
    BY <1>1 DEF LineBytes
  <2> QED
    BY <1>1, <2>1, BhxxOptionFacts
<1>3. ASSUME NEW i \in 1 .. m
      PROVE  ColumnIs(ss[i], d, i) /\ ss[i] \in B
  <2>1. PICK cell : cell = cells[i]
    BY Zenon
  <2>2. cell = Cell(d, o, i - 1)
    BY <1>1, <2>1
  <2>3. ByteOf(o, i - 1) = i - 1
    BY DEF ByteOf, Swaps
  <2>4. IF i <= Len(d) THEN cell = d[i] ELSE cell = NoByte
    BY <1>2, <2>2, <2>3 DEF Cell
  <2>5. cell \in Seq(DumpChars)
    <3>1. CASE i <= Len(d)
      <4>1. i \in 1 .. Len(d)
        BY <1>2, <3>1
      <4>2. d[i] \in Bytes /\ cell = d[i]
        BY <1>2, <2>4, <3>1, <4>1, SeqFacts
      <4> QED
        BY <4>2, BytesAreDigits
    <3>2. CASE ~(i <= Len(d))
      <4>1. cell = <<" ", " ">>
        BY <2>4, <3>2 DEF NoByte
      <4> QED
        BY <4>1, BlankFacts
    <3> QED
      BY <3>1, <3>2
  <2>6. cell \o <<>> = cell
    BY <2>5, ConcatFacts
  <2>7. ss[i] = cell \/ ss[i] = cell \o <<" ">>
    <3>1. ss[i] = cell \o (IF o.layout.group > 0 /\ i % o.layout.group = 0 /\ i < o.layout.cols
                           THEN <<" ">> ELSE <<>>)
      BY <1>1, <2>1 DEF Spaced
    <3> QED
      BY <2>6, <3>1
  <2>8. ColumnIs(ss[i], d, i)
    BY <2>4, <2>7 DEF ColumnIs
  <2> QED
    BY <1>1, <1>2, <2>8, ColumnType, SMTT(30)
<1>4. DOMAIN ss = 1 .. m
  BY <1>1 DEF Spaced
<1>5. ss \in [1 .. m -> B]
  <2>1. ss = [i \in 1 .. m |-> ss[i]]
    BY <1>1 DEF Spaced
  <2> QED
    BY <1>3, <2>1
<1>6. ss \in Seq(B) /\ Len(ss) = m
  BY <1>2, <1>5, FunctionIsSeq
<1> QED
  BY <1>1, <1>3, <1>6, Zenon DEF ColumnsAre

\* The bytes of d have been taken, whatever has been skipped since.
TakenAll(acc, d) == \E h : DigitsOf(h, d, Len(d)) /\ acc.hex = h

\* What stands behind the colon.
IsHexText(text, ss, sidebar) ==
  text = <<" ">> \o FlattenSeq(ss) \o <<" ", " ">> \o sidebar

\* Whatever follows, the bytes of the line have been taken.
LEMMA HexTaken ==
  ASSUME NEW acc, NEW o, NEW d, NEW colon, NEW cells, NEW ss, NEW sidebar,
         NEW text, o \in BhxxOptions, Fits(o), d \in LineBytes(o), ~o.little,
         cells = [i \in 1 .. o.layout.cols |-> Cell(d, o, i - 1)], ss = Spaced(cells, o),
         sidebar \in Seq(DumpChars), \A i \in 1 .. Len(sidebar) : sidebar[i] \notin HexDigits,
         IsHexText(text, ss, sidebar), TakenTo(acc, d, 0)
  PROVE  TakenAll(TakeAll(acc, text, colon), d)
<1>1. PICK b1, b2, flat, m : /\ b1 = <<" ">> /\ b2 = <<" ", " ">>
                             /\ flat = FlattenSeq(ss) /\ m = Len(ss)
  OBVIOUS
<1>2. /\ ss \in Seq(Seq(DumpChars)) /\ m = o.layout.cols /\ ColumnsAre(ss, d)
      /\ d \in Seq(Bytes) /\ m \in Nat /\ m >= Len(d) /\ Len(d) \in Nat
  <2>1. d \in Seq(Bytes) /\ Len(d) \in 1 .. o.layout.cols
    BY DEF LineBytes
  <2>2. ss \in Seq(Seq(DumpChars)) /\ Len(ss) = o.layout.cols /\ ColumnsAre(ss, d)
    BY SpacedColumns, Zenon
  <2>3. m \in Nat /\ m >= Len(d) /\ Len(d) \in Nat /\ m = o.layout.cols
    <3>1. o.layout.cols \in Nat /\ m = o.layout.cols
      BY <1>1, <2>2, BhxxOptionFacts
    <3> QED
      BY <2>1, <3>1
  <2> QED
    BY <2>1, <2>2, <2>3, Zenon
<1>3. b1 \in Seq(DumpChars) /\ b2 \in Seq(DumpChars) /\ flat \in Seq(DumpChars)
  BY <1>1, <1>2, BlankFacts, FlattenType
<1>4. PICK a1 : a1 = TakeAll(acc, b1, colon)
  OBVIOUS
<1>5. PICK a2 : a2 = TakeAll(a1, flat, colon)
  OBVIOUS
<1>6. PICK a3 : a3 = TakeAll(a2, b2, colon)
  OBVIOUS
<1>7. TakenTo(a1, d, 0)
  BY <1>1, <1>4, TakeSpace
<1>8. TakenTo(a2, d, Len(d))
  BY <1>1, <1>2, <1>5, <1>7, TakeColumns
<1>9. TakenTo(a3, d, Len(d))
  BY <1>1, <1>6, <1>8, TakeSpace
<1>10. acc \in Takings /\ a1 \in Takings /\ a2 \in Takings /\ a3 \in Takings
  BY <1>7, <1>8, <1>9, TakingsHold, Zenon DEF TakenTo, DigitsOf
<1>11. PICK h : IsTaken(a3, h) /\ DigitsOf(h, d, Len(d))
  BY <1>9 DEF TakenTo
<1>12. a3.hex = h
  BY <1>11 DEF IsTaken
<1>13. TakeAll(a3, sidebar, colon).hex = h
  BY <1>10, <1>12, TakeOthers
<1>14. PICK t1 : t1 = b1 \o flat
  BY Zenon
<1>15. t1 \in Seq(DumpChars)
  BY <1>3, <1>14, ConcatFacts
<1>16. TakeAll(acc, t1, colon) = a2
  BY <1>3, <1>4, <1>5, <1>10, <1>14, TakeConcat
<1>17. PICK t2 : t2 = t1 \o b2
  OBVIOUS
<1>18. t2 \in Seq(DumpChars)
  BY <1>3, <1>15, <1>17, ConcatFacts
<1>19. TakeAll(acc, t2, colon) = a3
  BY <1>3, <1>6, <1>10, <1>15, <1>16, <1>17, TakeConcat
<1>20. PICK t3 : t3 = t2 \o sidebar
  BY Zenon
<1>21. TakeAll(acc, t3, colon) = TakeAll(a3, sidebar, colon)
  BY <1>10, <1>18, <1>19, <1>20, TakeConcat
<1>22. text = t3
  BY <1>1, <1>14, <1>17, <1>20 DEF IsHexText
<1> QED
  BY <1>11, <1>13, <1>21, <1>22 DEF TakenAll

\* The bytes of whose digits h is made.
LEMMA BytesOfDigits ==
  ASSUME NEW h, NEW d, d \in Seq(Bytes), DigitsOf(h, d, Len(d))
  PROVE  [i \in 1 .. Len(h) \div 2 |-> <<h[2 * i - 1], h[2 * i]>>] = d
<1>1. PICK n : n = Len(d)
  OBVIOUS
<1>2. n \in Nat /\ DOMAIN d = 1 .. n /\ \A i \in 1 .. n : d[i] \in Bytes
  BY <1>1, SeqFacts
<1>3. /\ Len(h) = 2 * n
      /\ \A i \in 1 .. n : h[2 * i - 1] = d[i][1] /\ h[2 * i] = d[i][2]
  BY <1>1 DEF DigitsOf
<1>4. Len(h) \div 2 = n
  BY <1>2, <1>3
<1>5. \A i \in 1 .. n : <<h[2 * i - 1], h[2 * i]>> = d[i]
  <2> TAKE i \in 1 .. n
  <2>1. d[i] = <<d[i][1], d[i][2]>>
    BY <1>2, BytesAreDigits
  <2> QED
    BY <1>3, <2>1
<1>6. d = [i \in 1 .. n |-> d[i]]
  <2>1. d \in [1 .. n -> Bytes]
    BY <1>1, <1>2
  <2> QED
    BY <2>1
<1>7. [i \in 1 .. n |-> <<h[2 * i - 1], h[2 * i]>>] = [i \in 1 .. n |-> d[i]]
  BY <1>5
<1> QED
  BY <1>4, <1>6, <1>7

LEMMA LineReversed ==
  ASSUME NEW o, NEW d, NEW offset, NEW line, o \in BhxxOptions, Fits(o), d \in LineBytes(o),
         ReversibleLine(o, d), line = Line(d, o, offset)
  PROVE  ReverseLine(line, o) = d
<1>1. d \in Seq(Bytes) /\ line.shown
  BY DEF LineBytes, Line
<1>2. PICK none, colon : none = NoneTaken /\ colon = (o.style # "plain")
  OBVIOUS
<1>3. TakenTo(none, d, 0)
  <2>1. IsTaken(none, <<>>)
    BY <1>2 DEF IsTaken, NoneTaken
  <2>2. DigitsOf(<<>>, d, 0)
    BY DEF DigitsOf
  <2> QED
    BY <2>1, <2>2 DEF TakenTo
<1>4. PICK text : text = HexPart(line, o)
  OBVIOUS
<1>5. TakenAll(TakeAll(none, text, colon), d)
  <2>1. CASE o.style = "plain"
    <3>1. text = FlattenSeq(d)
      BY <1>4, <2>1 DEF HexPart, Line
    <3>2. TakenTo(TakeAll(none, text, colon), d, Len(d))
      BY <1>1, <1>3, <3>1, PlainTaken
    <3> QED
      BY <3>2 DEF TakenAll, TakenTo, IsTaken
  <2>2. CASE o.style # "plain"
    <3>1. PICK cells : cells = [i \in 1 .. o.layout.cols |-> Cell(d, o, i - 1)]
      BY Zenon
    <3>2. PICK ss, sidebar : ss = Spaced(cells, o) /\ sidebar = [i \in DOMAIN d |-> Printed(d[i])]
      BY Zenon
    <3>3. line.cells = cells /\ line.sidebar = sidebar
      BY <2>2, <3>1, <3>2, SMTT(30) DEF Line
    <3>4. text = <<" ">> \o FlattenSeq(ss) \o <<" ", " ">> \o sidebar
      BY <1>4, <2>2, <3>2, <3>3 DEF HexPart, Spaced
    <3>5. ~o.little /\ \A i \in 1 .. Len(d) : Printed(d[i]) \notin HexDigits
      BY <2>2 DEF ReversibleLine
    <3>6. /\ sidebar \in Seq(DumpChars)
          /\ \A i \in 1 .. Len(sidebar) : sidebar[i] \notin HexDigits
      <4>1. PICK n : n = Len(d)
        BY Zenon
      <4>2. n \in Nat /\ DOMAIN d = 1 .. n
        BY <1>1, <4>1, SeqFacts
      <4>3. sidebar \in [1 .. n -> DumpChars]
        BY <3>2, <4>2, PrintedChars
      <4>4. sidebar \in Seq(DumpChars) /\ Len(sidebar) = n
        BY <4>2, <4>3, FunctionIsSeq
      <4> QED
        BY <3>2, <3>5, <4>1, <4>2, <4>4
    <3>7. ~o.little
      BY <3>5
    <3>8. IsHexText(text, ss, sidebar)
      BY <3>4 DEF IsHexText
    <3> QED
      BY <1>3, <3>1, <3>2, <3>6, <3>7, <3>8, HexTaken
  <2> QED
    BY <2>1, <2>2
<1>6. PICK h : DigitsOf(h, d, Len(d)) /\ TakeAll(none, text, colon).hex = h
  BY <1>5 DEF TakenAll
<1>7. CleanHex(HexPart(line, o), o.style # "plain") = h
  BY <1>2, <1>4, <1>6 DEF CleanHex, NoneTaken
<1>8. ReverseLine(line, o) = [i \in 1 .. Len(h) \div 2 |-> <<h[2 * i - 1], h[2 * i]>>]
  BY <1>1, <1>7 DEF ReverseLine
<1> QED
  BY <1>1, <1>6, <1>8, BytesOfDigits

-----------------------------------------------------------------------------
(* bhxx: from line to line.                                                *)

\* What a call asks for, and what it can read.
ToRead(o, input) == SubSeq(input, o.seek + 1, Len(input))
WantedBy(o, input) ==
  IF o.len = 0 THEN ToRead(o, input)
  ELSE SubSeq(ToRead(o, input), 1, Lesser(o.len, Len(ToRead(o, input))))

\* The bytes of a line after a total.
NextOf(o, left, total) ==
  LET wanted == IF o.len = 0 THEN o.layout.cols ELSE Lesser(o.layout.cols, o.len - total)
  IN  SubSeq(left, 1, Lesser(wanted, Len(left)))

BeginsWith(long, short) ==
  Len(short) <= Len(long) /\ \A i \in 1 .. Len(short) : long[i] = short[i]

LEMMA WantedFacts ==
  ASSUME NEW o, NEW input, NEW rest, NEW wanted, o \in BhxxOptions, input \in Seq(Bytes),
         rest = ToRead(o, input), wanted = WantedBy(o, input)
  PROVE  /\ rest \in Seq(Bytes) /\ wanted \in Seq(Bytes)
         /\ BeginsWith(rest, wanted)
         /\ o.len = 0 => Len(wanted) = Len(rest)
         /\ o.len # 0 => Len(wanted) = Lesser(o.len, Len(rest))
<1>1. o.seek \in Nat /\ o.len \in Nat
  BY BhxxOptionFacts
<1>2. rest \in Seq(Bytes)
  <2>1. Len(input) \in Nat
    BY SeqFacts
  <2>2. PICK m, n : m = o.seek + 1 /\ n = Len(input)
    OBVIOUS
  <2>3. m \in Nat /\ n \in Nat /\ m >= 1 /\ n <= Len(input)
    BY <1>1, <2>1, <2>2
  <2>4. SubSeq(input, m, n) \in Seq(Bytes)
    <3>1. \A i \in m .. n : input[i] \in Bytes
      BY <2>2, <2>3, SeqFacts
    <3> QED
      BY <2>3, <3>1
  <2> QED
    BY <2>2, <2>4 DEF ToRead
<1>3. Len(rest) \in Nat
  BY <1>2, SeqFacts
<1>4. CASE o.len = 0
  <2>1. wanted = rest
    BY <1>4 DEF WantedBy
  <2> QED
    BY <1>2, <1>3, <1>4, <2>1 DEF BeginsWith
<1>5. CASE o.len # 0
  <2>1. PICK a : a = Lesser(o.len, Len(rest))
    OBVIOUS
  <2>2. a \in Nat /\ a <= Len(rest)
    BY <1>1, <1>3, <2>1 DEF Lesser
  <2>3. wanted = SubSeq(rest, 1, a)
    BY <1>5, <2>1, Zenon DEF WantedBy
  <2>4. PICK n, k : n = Len(rest) /\ k = n - a
    OBVIOUS
  <2>5. /\ wanted \in Seq(Bytes) /\ Len(wanted) = a
        /\ \A i \in 1 .. a : wanted[i] = rest[i]
    BY <1>2, <2>2, <2>3, <2>4, Parts
  <2> QED
    BY <1>2, <1>5, <2>1, <2>2, <2>5 DEF BeginsWith
<1> QED
  BY <1>4, <1>5

\* How far the input is read.
LeftOf(left, rest, total) ==
  /\ left \in Seq(Bytes) /\ total \in Nat /\ total <= Len(rest)
  /\ left = SubSeq(rest, total + 1, Len(rest))

LEMMA LeftFacts ==
  ASSUME NEW left, NEW rest, NEW total, rest \in Seq(Bytes), LeftOf(left, rest, total)
  PROVE  /\ Len(left) = Len(rest) - total
         /\ \A i \in 1 .. Len(left) : left[i] = rest[total + i]
<1>1. PICK n, k : n = Len(rest) /\ k = n - total
  OBVIOUS
<1>2. total \in Nat /\ total <= n /\ left = SubSeq(rest, total + 1, n)
  BY <1>1 DEF LeftOf
<1>3. Len(left) = k /\ \A i \in 1 .. k : left[i] = rest[total + i]
  BY <1>1, <1>2, Parts
<1> QED
  BY <1>1, <1>3

LEMMA LeftMore ==
  ASSUME NEW left, NEW rest, NEW total, NEW m, NEW more, rest \in Seq(Bytes),
         LeftOf(left, rest, total), m \in Nat, m <= Len(left),
         more = SubSeq(left, m + 1, Len(left))
  PROVE  LeftOf(more, rest, total + m)
<1>1. PICK n, k : n = Len(rest) /\ k = Len(left)
  BY Zenon
<1>2. total \in Nat /\ total <= n /\ left \in Seq(Bytes) /\ n \in Nat /\ k \in Nat
  BY <1>1, SeqFacts DEF LeftOf
<1>3. k = n - total /\ \A i \in 1 .. k : left[i] = rest[total + i]
  BY <1>1, LeftFacts
<1>4. PICK x, y : x = k - m /\ y = total + m
  OBVIOUS
<1>5. x \in Nat /\ y \in Nat /\ y <= n /\ x = n - y
  BY <1>1, <1>2, <1>3, <1>4
<1>6. more \in Seq(Bytes) /\ Len(more) = x /\ \A i \in 1 .. x : more[i] = left[m + i]
  BY <1>1, <1>2, <1>4, Parts
<1>7. PICK other : other = SubSeq(rest, y + 1, n)
  BY Zenon
<1>8. other \in Seq(Bytes) /\ Len(other) = x /\ \A i \in 1 .. x : other[i] = rest[y + i]
  BY <1>1, <1>5, <1>7, Parts
<1>9. \A i \in 1 .. x : more[i] = other[i]
  <2> TAKE i \in 1 .. x
  <2>1. m + i \in 1 .. k /\ total + (m + i) = y + i
    BY <1>2, <1>4, <1>5
  <2>2. left[m + i] = rest[total + (m + i)]
    BY <1>3, <2>1, Zenon
  <2> QED
    BY <1>6, <1>8, <2>1, <2>2, Zenon
<1>10. more = other
  <2>1. DOMAIN more = 1 .. x /\ DOMAIN other = 1 .. x
    BY <1>5, <1>6, <1>8
  <2>2. more = [i \in 1 .. x |-> more[i]] /\ other = [i \in 1 .. x |-> other[i]]
    BY <1>6, <1>8, <2>1
  <2> QED
    BY <1>9, <2>2, Zenon
<1> QED
  BY <1>1, <1>4, <1>5, <1>6, <1>7, <1>10, Zenon DEF LeftOf

\* The bytes of the next line: none are left, or they come next.
IsNext(next, o, left, wanted, total) ==
  /\ next = <<>> => total = Len(wanted)
  /\ next # <<>> => /\ next \in LineBytes(o) /\ ComesNext(next, wanted, total)
                    /\ Len(next) <= Len(left) /\ total + Len(next) <= Len(wanted)
                    /\ SubSeq(wanted, 1, total) \o next = SubSeq(wanted, 1, total + Len(next))

LEMMA NextFacts ==
  ASSUME NEW o, NEW input, NEW rest, NEW wanted, NEW left, NEW total, NEW next,
         o \in BhxxOptions, o.layout.cols > 0, input \in Seq(Bytes), rest = ToRead(o, input),
         wanted = WantedBy(o, input), LeftOf(left, rest, total), total <= Len(wanted),
         next = NextOf(o, left, total)
  PROVE  IsNext(next, o, left, wanted, total)
<1>1. PICK W, R, cols, L : W = Len(wanted) /\ R = Len(rest) /\ cols = o.layout.cols /\ L = Len(left)
  BY Zenon
<1>2. /\ rest \in Seq(Bytes) /\ wanted \in Seq(Bytes) /\ BeginsWith(rest, wanted)
      /\ o.len = 0 => W = R
      /\ o.len # 0 => W = Lesser(o.len, R)
  BY <1>1, WantedFacts
<1>3. /\ left \in Seq(Bytes) /\ total \in Nat /\ total <= R /\ L = R - total
      /\ \A i \in 1 .. L : left[i] = rest[total + i]
  BY <1>1, <1>2, LeftFacts DEF LeftOf
<1>4. /\ W \in Nat /\ R \in Nat /\ L \in Nat /\ cols \in Nat /\ cols > 0 /\ o.len \in Nat
      /\ W <= R /\ total <= W
      /\ \A i \in 1 .. W : wanted[i] = rest[i]
  <2>1. W <= R /\ \A i \in 1 .. W : wanted[i] = rest[i]
    BY <1>1, <1>2 DEF BeginsWith
  <2> QED
    BY <1>1, <1>2, <1>3, <2>1, SeqFacts, BhxxOptionFacts
<1>5. PICK m : m = Lesser(IF o.len = 0 THEN cols ELSE Lesser(cols, o.len - total), L)
  OBVIOUS
<1>6. next = SubSeq(left, 1, m)
  BY <1>1, <1>5 DEF NextOf
<1>7. m = Lesser(cols, W - total)
  <2>1. CASE o.len = 0
    BY <1>2, <1>3, <1>4, <1>5, <2>1 DEF Lesser
  <2>2. CASE o.len # 0
    <3>1. PICK w, len : w = Lesser(cols, len - total) /\ len = o.len
      OBVIOUS
    <3>2. m = Lesser(w, L) /\ W = Lesser(len, R) /\ len \in Nat
      BY <1>2, <1>4, <1>5, <2>2, <3>1
    <3> QED
      BY <1>3, <1>4, <3>1, <3>2, SMTT(30) DEF Lesser
  <2> QED
    BY <2>1, <2>2
<1>8. m \in Nat /\ m <= cols /\ m <= L /\ total + m <= W /\ (m = 0 => total = W)
  BY <1>3, <1>4, <1>7, SMTT(30) DEF Lesser
<1>9. PICK k : k = L - m
  OBVIOUS
<1>10. next \in Seq(Bytes) /\ Len(next) = m /\ \A i \in 1 .. m : next[i] = left[i]
  <2>1. left \in Seq(Bytes) /\ m \in Nat /\ Len(left) = L /\ m <= L /\ k = L - m
    BY <1>1, <1>3, <1>8, <1>9
  <2> QED
    BY <1>6, <2>1, Parts
<1>11. \A c \in 1 .. m : next[c] = wanted[total + c]
  <2> TAKE c \in 1 .. m
  <2>1. c \in 1 .. L /\ total + c \in 1 .. W
    BY <1>3, <1>4, <1>8
  <2> QED
    BY <1>3, <1>4, <1>10, <2>1, Zenon
<1>12. CASE next = <<>>
  BY <1>1, <1>8, <1>10, <1>12 DEF IsNext
<1>13. CASE next # <<>>
  <2>1. m >= 1
    BY <1>8, <1>10, <1>13
  <2>2. next \in LineBytes(o)
    BY <1>1, <1>4, <1>8, <1>10, <2>1 DEF LineBytes
  <2>3. ComesNext(next, wanted, total)
    BY <1>3, <1>10, <1>11 DEF ComesNext
  <2>4. PICK a, b, y : a = SubSeq(wanted, 1, total) /\ b = SubSeq(wanted, 1, y) /\ y = total + m
    BY Zenon
  <2>5. y \in Nat /\ y <= W
    BY <1>3, <1>8, <2>4
  <2>6. PICK u, v : u = W - total /\ v = W - y
    OBVIOUS
  <2>7. a \in Seq(Bytes) /\ Len(a) = total /\ \A i \in 1 .. total : a[i] = wanted[i]
    BY <1>1, <1>2, <1>3, <1>4, <2>4, <2>6, Parts
  <2>8. b \in Seq(Bytes) /\ Len(b) = y /\ \A i \in 1 .. y : b[i] = wanted[i]
    <3>1. b = SubSeq(wanted, 1, y)
      BY <2>4
    <3>2. wanted \in Seq(Bytes) /\ y \in Nat /\ Len(wanted) = W /\ y <= W /\ v = W - y
      BY <1>1, <1>2, <2>5, <2>6
    <3> QED
      BY <3>1, <3>2, Parts
  <2>9. PICK ab : ab = a \o next
    BY Zenon
  <2>10. /\ ab \in Seq(Bytes) /\ Len(ab) = total + m
         /\ \A i \in 1 .. total : ab[i] = a[i]
         /\ \A i \in 1 .. m : ab[total + i] = next[i]
    <3>1. a \in Seq(Bytes) /\ next \in Seq(Bytes) /\ Len(a) = total /\ Len(next) = m
      BY <1>10, <2>7
    <3> QED
      BY <2>9, <3>1, ConcatFacts, SMTT(30)
  <2>11. \A i \in 1 .. y : ab[i] = b[i]
    <3> TAKE i \in 1 .. y
    <3>1. CASE i <= total
      <4>1. i \in 1 .. total
        BY <1>3, <3>1
      <4> QED
        BY <2>7, <2>8, <2>10, <4>1, Zenon
    <3>2. CASE ~(i <= total)
      <4>1. PICK j : j = i - total
        OBVIOUS
      <4>2. j \in 1 .. m /\ i = total + j
        BY <1>3, <1>8, <2>4, <3>2, <4>1
      <4> QED
        BY <1>11, <2>8, <2>10, <4>2
    <3> QED
      BY <3>1, <3>2
  <2>12. ab = b
    <3>1. /\ ab \in Seq(Bytes) /\ Len(ab) = y /\ b \in Seq(Bytes) /\ Len(b) = y
          /\ \A i \in 1 .. y : ab[i] = b[i]
      BY <2>4, <2>8, <2>10, <2>11
    <3> QED
      BY <3>1
  <2> QED
    BY <1>1, <1>8, <1>10, <1>13, <2>2, <2>3, <2>4, <2>9, <2>12, Zenon DEF IsNext
<1> QED
  BY <1>12, <1>13

\* What the lines of a dump are converted back to.
Backs(dump, o) == [i \in DOMAIN dump |-> ReverseLine(dump[i], o)]

DumpRestored(dump, o, bytes) ==
  Backs(dump, o) \in Seq(Seq(Bytes)) /\ FlattenSeq(Backs(dump, o)) = bytes

LEMMA RestoredEmpty ==
  ASSUME NEW o
  PROVE  DumpRestored(<<>>, o, <<>>)
<1>1. Backs(<<>>, o) = <<>>
  BY DEF Backs
<1>2. PICK B : B = Seq(Bytes)
  OBVIOUS
<1>3. <<>> \in Seq(B)
  OBVIOUS
<1> QED
  BY <1>1, <1>2, <1>3, FlattenEmpty, Zenon DEF DumpRestored

LEMMA RestoredAppend ==
  ASSUME NEW dump, NEW S, NEW o, NEW line, NEW longer, NEW bytes, NEW d, NEW more,
         dump \in Seq(S), line \in S, longer = Append(dump, line), d \in Seq(Bytes),
         ReverseLine(line, o) = d, DumpRestored(dump, o, bytes), more = bytes \o d
  PROVE  DumpRestored(longer, o, more)
<1>1. PICK bs, all, B : bs = Backs(dump, o) /\ all = Backs(longer, o) /\ B = Seq(Bytes)
  OBVIOUS
<1>2. bs \in Seq(B) /\ FlattenSeq(bs) = bytes
  BY <1>1 DEF DumpRestored
<1>3. PICK n : n = Len(dump)
  BY Zenon
<1>4. /\ n \in Nat /\ DOMAIN dump = 1 .. n /\ longer \in Seq(S) /\ Len(longer) = n + 1
      /\ \A i \in 1 .. n : longer[i] = dump[i]
      /\ longer[n + 1] = line
  BY <1>3, SeqFacts, AppendFacts
<1>5. DOMAIN longer = 1 .. n + 1
  BY <1>4, SeqFacts
<1>6. bs = [i \in 1 .. n |-> ReverseLine(dump[i], o)]
  BY <1>1, <1>4 DEF Backs
<1>7. all = [i \in 1 .. n + 1 |-> ReverseLine(longer[i], o)]
  BY <1>1, <1>5 DEF Backs
<1>8. Len(bs) = n
  <2>1. DOMAIN bs = 1 .. n
    BY <1>6
  <2>2. DOMAIN bs = 1 .. Len(bs) /\ Len(bs) \in Nat
    BY <1>2, SeqFacts
  <2> QED
    BY <1>4, <2>1, <2>2
<1>9. all = Append(bs, d)
  <2>1. PICK app : app = Append(bs, d)
    BY Zenon
  <2>2. d \in B
    BY <1>1
  <2>3. /\ app \in Seq(B) /\ Len(app) = n + 1
        /\ \A i \in 1 .. n : app[i] = bs[i]
        /\ app[n + 1] = d
    <3>1. /\ app \in Seq(B) /\ Len(app) = Len(bs) + 1
          /\ \A i \in 1 .. Len(bs) : app[i] = bs[i]
          /\ app[Len(bs) + 1] = d
      BY <1>2, <2>1, <2>2, AppendFacts
    <3> QED
      BY <1>8, <3>1
  <2>4. DOMAIN app = 1 .. n + 1
    BY <2>3, SeqFacts
  <2>5. \A i \in 1 .. n : all[i] = app[i]
    <3> TAKE i \in 1 .. n
    <3>1. i \in 1 .. n + 1
      BY <1>4
    <3> QED
      BY <1>4, <1>6, <1>7, <2>3, <3>1
  <2>6. all[n + 1] = app[n + 1]
    <3>1. n + 1 \in 1 .. n + 1
      BY <1>4
    <3> QED
      BY <1>4, <1>7, <2>3, <3>1
  <2>7. \A i \in 1 .. n + 1 : all[i] = app[i]
    BY <1>4, <2>5, <2>6
  <2>8. app = [i \in 1 .. n + 1 |-> app[i]]
    <3>1. app \in [1 .. n + 1 -> B]
      BY <2>3, <2>4, SeqFacts
    <3> QED
      BY <3>1
  <2>9. all = [i \in 1 .. n + 1 |-> all[i]]
    BY <1>7, Zenon
  <2> QED
    BY <2>1, <2>7, <2>8, <2>9, Zenon
<1>10. all \in Seq(B)
  BY <1>1, <1>2, <1>9, AppendFacts
<1>11. FlattenSeq(all) = FlattenSeq(bs) \o d
  BY <1>1, <1>2, <1>9, FlattenAppend, Zenon
<1> QED
  BY <1>1, <1>2, <1>10, <1>11 DEF DumpRestored

\* A dump that converting back restores.
Reversible(o, wanted) ==
  /\ ~o.autoskip
  /\ \/ o.style = "plain"
     \/ /\ o.style = "hex" /\ ~o.little
        /\ \A i \in DOMAIN wanted : Printed(wanted[i]) \notin HexDigits

\* What holds between two lines of a dump: so much is read, every byte of it is found in the
\* dump, and the lines so far are converted back to it.
Dumped(o, input, left, total, offset, prev, skipping, dump) ==
  LET wanted == WantedBy(o, input)
  IN  /\ LeftOf(left, ToRead(o, input), total) /\ total <= Len(wanted)
      /\ offset = o.seek + total /\ skipping \in BOOLEAN
      /\ dump \in Seq(DumpLines(o)) /\ LastShown(dump, o, prev, skipping, offset)
      /\ o.style # "plain" => \A k \in o.seek .. offset - 1 : FoundIn(dump, o, wanted, k)
      /\ Reversible(o, wanted) => DumpRestored(dump, o, SubSeq(wanted, 1, total))

\* What is left to read after a line, and the dump with a "*" for the lines skipped last.
MovesOn(left, more, m) == more = SubSeq(left, m + 1, Len(left))
IsStarred(dump, skipping, longer) == longer = IF skipping THEN dump ELSE Append(dump, Star)

LEMMA DumpedSkip ==
  ASSUME NEW o, NEW input, NEW left, NEW total, NEW offset, NEW prev, NEW skipping, NEW dump,
         NEW next, NEW m, NEW more, NEW longer, NEW total1, NEW offset1,
         o \in BhxxOptions, Fits(o), input \in Seq(Bytes),
         Dumped(o, input, left, total, offset, prev, skipping, dump),
         next = NextOf(o, left, total), next # <<>>, o.autoskip, m = Len(next),
         m = o.layout.cols, next = prev, MovesOn(left, more, m), IsStarred(dump, skipping, longer),
         total1 = total + m, offset1 = offset + m
  PROVE  Dumped(o, input, more, total1, offset1, prev, TRUE, longer)
<1>1. PICK wanted, rest : wanted = WantedBy(o, input) /\ rest = ToRead(o, input)
  OBVIOUS
<1>2. /\ LeftOf(left, rest, total) /\ total <= Len(wanted)
      /\ offset = o.seek + total /\ skipping \in BOOLEAN
      /\ dump \in Seq(DumpLines(o)) /\ LastShown(dump, o, prev, skipping, offset)
      /\ o.style # "plain" => \A k \in o.seek .. offset - 1 : FoundIn(dump, o, wanted, k)
  BY <1>1 DEF Dumped
<1>3. rest \in Seq(Bytes) /\ wanted \in Seq(Bytes)
  BY <1>1, WantedFacts
<1>4. IsNext(next, o, left, wanted, total)
  BY <1>1, <1>2, NextFacts, Zenon DEF Fits
<1>5. /\ next \in LineBytes(o) /\ ComesNext(next, wanted, total)
      /\ m <= Len(left) /\ total + m <= Len(wanted)
  BY <1>4 DEF IsNext
<1>6. /\ m \in Nat /\ m > 0 /\ total \in Nat
      /\ o.seek \in Nat /\ offset \in Nat /\ o.layout.cols \in Nat
  <2>1. m \in 1 .. o.layout.cols
    BY <1>5, Zenon DEF LineBytes
  <2>2. total \in Nat /\ o.seek \in Nat /\ o.layout.cols \in Nat
    BY <1>2, BhxxOptionFacts DEF LeftOf
  <2>3. offset = o.seek + total
    BY <1>2
  <2>4. \A x \in Nat : m \in 1 .. x => m \in Nat /\ m > 0
    OBVIOUS
  <2>5. \A x, y \in Nat : x + y \in Nat
    OBVIOUS
  <2>6. m \in Nat /\ m > 0
    BY <2>1, <2>2, <2>4
  <2>7. offset \in Nat
    BY <2>2, <2>3, <2>5
  <2> QED
    BY <2>2, <2>6, <2>7
<1>7. LeftOf(more, rest, total1)
  BY <1>2, <1>3, <1>5, <1>6, LeftMore, Zenon DEF MovesOn
<1>8. offset1 = o.seek + total1 /\ total1 <= Len(wanted)
  <2>1. offset = o.seek + total /\ total + m <= Len(wanted)
    BY <1>2, <1>5
  <2>2. \A x, y, z \in Nat : (x + y) + z = x + (y + z)
    OBVIOUS
  <2>3. (o.seek + total) + m = o.seek + (total + m)
    BY <1>6, <2>2
  <2> QED
    BY <2>1, <2>3
<1>9. LastShown(longer, o, prev, TRUE, offset)
  <2>1. longer = IF skipping THEN dump ELSE Append(dump, Star)
    BY DEF IsStarred
  <2> QED
    BY <1>2, <2>1, LastIsStarred, Zenon
<1>10. LastShown(longer, o, prev, TRUE, offset1)
  <2>1. offset1 = offset + o.layout.cols
    OBVIOUS
  <2> QED
    BY <1>9, <2>1, LastGoesOn, Zenon
<1>11. PICK S : S = DumpLines(o)
  OBVIOUS
<1>12. Star \in S
  BY <1>11 DEF DumpLines
<1>13. longer \in Seq(S)
  BY <1>2, <1>11, <1>12, AppendFacts DEF IsStarred
<1>14. ASSUME o.style # "plain", NEW k \in o.seek .. offset1 - 1
       PROVE  FoundIn(longer, o, wanted, k)
  <2>1. CASE k <= offset - 1
    <3>1. k \in o.seek .. offset - 1 /\ k \in Nat
      BY <1>6, <2>1
    <3>2. FoundIn(dump, o, wanted, k)
      BY <1>2, <1>14, <3>1
    <3>3. CASE skipping
      BY <3>2, <3>3 DEF IsStarred
    <3>4. CASE ~skipping
      <4>1. PICK x : x = Star
        OBVIOUS
      <4>2. ~x.shown /\ longer = Append(dump, x) /\ x \in S
        BY <1>12, <3>4, <4>1 DEF Star, IsStarred
      <4>3. x.shown => x.offset > k
        BY <4>2
      <4> QED
        BY <1>2, <1>11, <3>1, <3>2, <4>2, <4>3, FoundStays, Zenon
    <3> QED
      BY <3>3, <3>4
  <2>2. CASE ~(k <= offset - 1)
    <3>1. k \in offset1 - m .. offset1 - 1
      BY <1>6, <2>2
    <3>2. k \in offset .. offset + Len(prev) - 1
      <4>1. \A x, y \in Nat : (x + y) - y = x
        OBVIOUS
      <4>2. offset1 - m = offset
        BY <1>6, <4>1, Zenon
      <4>3. offset + Len(prev) - 1 = offset1 - 1
        <5>1. m = Len(prev) /\ offset1 = offset + m
          BY Zenon
        <5> QED
          BY <1>6, <5>1, SMT
      <4> QED
        BY <3>1, <4>2, <4>3, Zenon
    <3> QED
      BY <1>2, <1>5, <1>9, <1>13, <1>14, <3>2, FoundInLast, Zenon
  <2> QED
    BY <2>1, <2>2
<1>15. ~Reversible(o, wanted)
  BY DEF Reversible
<1> QED
  BY <1>1, <1>7, <1>8, <1>11, <1>13, <1>14, <1>15, <1>10, Zenon DEF Dumped

LEMMA DumpedStart ==
  ASSUME NEW o, NEW input, NEW left, NEW seek, NEW total, o \in BhxxOptions, input \in Seq(Bytes),
         left = ToRead(o, input), seek = o.seek, total = 0
  PROVE  Dumped(o, input, left, total, seek, <<>>, FALSE, <<>>)
<1>1. PICK wanted : wanted = WantedBy(o, input)
  OBVIOUS
<1>2. left \in Seq(Bytes) /\ wanted \in Seq(Bytes)
  BY <1>1, WantedFacts
<1>3. Len(left) \in Nat /\ Len(wanted) \in Nat /\ seek \in Nat
  BY <1>2, SeqFacts, BhxxOptionFacts
<1>4. LeftOf(left, left, total)
  <2>1. SubSeq(left, 0 + 1, Len(left)) = left
    BY <1>2
  <2> QED
    BY <1>2, <1>3, <2>1 DEF LeftOf
<1>5. total <= Len(wanted) /\ seek = o.seek + total
  BY <1>3
<1>6. LastShown(<<>>, o, <<>>, FALSE, seek)
  BY DEF LastShown
<1>7. PICK S : S = DumpLines(o)
  OBVIOUS
<1>8. <<>> \in Seq(S)
  OBVIOUS
<1>9. \A k \in o.seek .. seek - 1 : FoundIn(<<>>, o, wanted, k)
  BY <1>3
<1>10. SubSeq(wanted, 1, total) = <<>>
  BY <1>2
<1>11. DumpRestored(<<>>, o, SubSeq(wanted, 1, total))
  BY <1>10, RestoredEmpty, Zenon
<1> QED
  BY <1>1, <1>4, <1>5, <1>6, <1>7, <1>8, <1>9, <1>11, Zenon DEF Dumped

\* Whatever the last line is.
DumpedSoFar(o, input, left, total, offset, dump) ==
  \E prev, skipping : Dumped(o, input, left, total, offset, prev, skipping, dump)

\* The dump with a line more.
WithLine(dump, next, o, offset, longer) == longer = Append(dump, Line(next, o, offset))

LEMMA DumpedShow ==
  ASSUME NEW o, NEW input, NEW left, NEW total, NEW offset, NEW dump, NEW next, NEW m,
         NEW more, NEW longer, NEW total1, NEW offset1,
         o \in BhxxOptions, Fits(o), input \in Seq(Bytes),
         DumpedSoFar(o, input, left, total, offset, dump),
         next = NextOf(o, left, total), next # <<>>, m = Len(next), MovesOn(left, more, m),
         WithLine(dump, next, o, offset, longer),
         total1 = total + m, offset1 = offset + m
  PROVE  Dumped(o, input, more, total1, offset1, next, FALSE, longer)
<1>1. PICK wanted, rest : wanted = WantedBy(o, input) /\ rest = ToRead(o, input)
  OBVIOUS
<1>2. /\ LeftOf(left, rest, total) /\ total <= Len(wanted)
      /\ offset = o.seek + total /\ dump \in Seq(DumpLines(o))
      /\ o.style # "plain" => \A k \in o.seek .. offset - 1 : FoundIn(dump, o, wanted, k)
      /\ Reversible(o, wanted) => DumpRestored(dump, o, SubSeq(wanted, 1, total))
  BY <1>1 DEF DumpedSoFar, Dumped
<1>3. rest \in Seq(Bytes) /\ wanted \in Seq(Bytes)
  BY <1>1, WantedFacts
<1>4. IsNext(next, o, left, wanted, total)
  BY <1>1, <1>2, NextFacts DEF Fits
<1>5. /\ next \in LineBytes(o) /\ ComesNext(next, wanted, total)
      /\ m <= Len(left) /\ total + m <= Len(wanted)
      /\ SubSeq(wanted, 1, total) \o next = SubSeq(wanted, 1, total + m)
  BY <1>4, Zenon DEF IsNext
<1>6. /\ m \in Nat /\ m > 0 /\ total \in Nat
      /\ o.seek \in Nat /\ offset \in Nat /\ o.layout.cols \in Nat
  <2>1. m \in 1 .. o.layout.cols
    BY <1>5 DEF LineBytes
  <2>2. total \in Nat /\ o.seek \in Nat /\ o.layout.cols \in Nat
    BY <1>2, BhxxOptionFacts DEF LeftOf
  <2>3. offset = o.seek + total
    BY <1>2
  <2>4. \A x \in Nat : m \in 1 .. x => m \in Nat /\ m > 0
    OBVIOUS
  <2>5. \A x, y \in Nat : x + y \in Nat
    OBVIOUS
  <2>6. m \in Nat /\ m > 0
    BY <2>1, <2>2, <2>4
  <2>7. offset \in Nat
    BY <2>2, <2>3, <2>5, Zenon
  <2> QED
    BY <2>2, <2>6, <2>7
<1>7. LeftOf(more, rest, total1)
  BY <1>2, <1>3, <1>5, <1>6, LeftMore, Zenon DEF MovesOn
<1>8. offset1 = o.seek + total1 /\ total1 <= Len(wanted)
  <2>1. offset = o.seek + total /\ total + m <= Len(wanted)
    BY <1>2, <1>5
  <2>2. \A x, y, z \in Nat : (x + y) + z = x + (y + z)
    OBVIOUS
  <2>3. (o.seek + total) + m = o.seek + (total + m)
    BY <1>6, <2>2
  <2> QED
    BY <2>1, <2>3
<1>9. PICK S, line : S = DumpLines(o) /\ line = Line(next, o, offset)
  OBVIOUS
<1>10. longer = Append(dump, line)
  BY <1>9 DEF WithLine
<1>11. line \in S
  BY <1>5, <1>6, <1>9 DEF DumpLines
<1>12. longer \in Seq(S)
  BY <1>2, <1>9, <1>11, <1>10, AppendFacts
<1>13. LastShown(longer, o, next, FALSE, offset1)
  BY <1>2, <1>10, <1>5, <1>6, <1>9, <1>11, LastIsNew, Zenon
<1>14. ASSUME o.style # "plain", NEW k \in o.seek .. offset1 - 1
       PROVE  FoundIn(longer, o, wanted, k)
  <2>1. CASE k <= offset - 1
    <3>1. k \in o.seek .. offset - 1 /\ k \in Nat
      BY <1>6, <2>1
    <3>2. FoundIn(dump, o, wanted, k)
      BY <1>2, <1>14, <3>1
    <3>3. line.offset > k
      BY <1>6, <1>9, <2>1, <3>1 DEF Line
    <3>4. line.shown => line.offset > k
      BY <3>3
    <3>5. dump \in Seq(S) /\ line \in S /\ k \in Nat /\ longer = Append(dump, line)
      BY <1>2, <1>9, <1>11, <1>10, <3>1
    <3> QED
      BY <3>2, <3>4, <3>5, FoundStays, Zenon
  <2>2. CASE ~(k <= offset - 1)
    <3>1. k \in offset .. offset1 - 1
      BY <1>6, <2>2
    <3>2. offset + Len(next) - 1 = offset1 - 1
      BY <1>6
    <3>3. k \in offset .. offset + Len(next) - 1
      BY <3>1, <3>2, Zenon
    <3> QED
      BY <1>2, <1>5, <1>9, <1>11, <1>14, <1>10, <3>3, FoundInLine, Zenon
  <2> QED
    BY <2>1, <2>2
<1>15. ASSUME Reversible(o, wanted)
       PROVE  DumpRestored(longer, o, SubSeq(wanted, 1, total1))
  <2>1. ReversibleLine(o, next)
    <3>1. CASE o.style = "plain"
      BY <3>1 DEF ReversibleLine
    <3>2. CASE o.style # "plain"
      <4>1. /\ o.style = "hex" /\ ~o.little
            /\ \A i \in DOMAIN wanted : Printed(wanted[i]) \notin HexDigits
        BY <1>15, <3>2 DEF Reversible
      <4>2. ASSUME NEW i \in 1 .. Len(next)
            PROVE  Printed(next[i]) \notin HexDigits
        <5>1. wanted[total + i] = next[i]
          BY <1>5 DEF ComesNext
        <5>2. total + i \in 1 .. Len(wanted)
          BY <1>3, <1>5, <1>6, SeqFacts
        <5>3. total + i \in DOMAIN wanted
          BY <1>3, <5>2, SeqFacts
        <5> QED
          BY <4>1, <5>1, <5>3
      <4> QED
        BY <4>1, <4>2 DEF ReversibleLine
    <3> QED
      BY <3>1, <3>2
  <2>2. ReverseLine(line, o) = next
    BY <1>5, <1>9, <2>1, LineReversed
  <2>3. PICK bytes, both : bytes = SubSeq(wanted, 1, total) /\ both = SubSeq(wanted, 1, total1)
    BY Zenon
  <2>4. DumpRestored(dump, o, bytes) /\ both = bytes \o next /\ next \in Seq(Bytes)
    BY <1>2, <1>5, <1>15, <2>3, Zenon DEF LineBytes
  <2>5. dump \in Seq(S) /\ line \in S /\ longer = Append(dump, line)
    BY <1>2, <1>9, <1>11, <1>10
  <2>6. DumpRestored(longer, o, both)
    BY <2>2, <2>4, <2>5, RestoredAppend, Zenon
  <2> QED
    BY <2>3, <2>6
<1> QED
  BY <1>1, <1>7, <1>8, <1>9, <1>12, <1>13, <1>14, <1>15, Zenon DEF Dumped

\* A dump ends when everything asked for has been read.
LEMMA DumpedToTheEnd ==
  ASSUME NEW o, NEW input, NEW left, NEW total, NEW offset, NEW prev, NEW skipping, NEW dump,
         o \in BhxxOptions, Fits(o), input \in Seq(Bytes),
         Dumped(o, input, left, total, offset, prev, skipping, dump),
         NextOf(o, left, total) = <<>>
  PROVE  total = Len(WantedBy(o, input))
<1>1. PICK wanted, rest, next : /\ wanted = WantedBy(o, input) /\ rest = ToRead(o, input)
                                /\ next = NextOf(o, left, total)
  OBVIOUS
<1>2. LeftOf(left, rest, total) /\ total <= Len(wanted)
  BY <1>1 DEF Dumped
<1>3. IsNext(next, o, left, wanted, total)
  BY <1>1, <1>2, NextFacts DEF Fits
<1> QED
  BY <1>1, <1>3 DEF IsNext

\* Every line of a dump has as many bytes in its cells as in its sidebar.
LEMMA LinesCounted ==
  ASSUME NEW dump, NEW o, NEW i, o \in BhxxOptions, Fits(o), o.style # "plain",
         dump \in Seq(DumpLines(o)), i \in DOMAIN dump
  PROVE  Cardinality({j \in DOMAIN dump[i].cells : dump[i].cells[j] # NoByte})
           = Len(dump[i].sidebar)
<1>1. PICK S : S = DumpLines(o)
  OBVIOUS
<1>2. dump[i] \in S
  BY <1>1, SeqFacts
<1>3. PICK line : line = dump[i]
  OBVIOUS
<1>4. (\E d \in LineBytes(o), k \in Nat : line = Line(d, o, k)) \/ line = Star
  BY <1>1, <1>2, <1>3 DEF DumpLines
<1>5. CASE \E d \in LineBytes(o), k \in Nat : line = Line(d, o, k)
  <2>1. PICK d \in LineBytes(o), k \in Nat : line = Line(d, o, k)
    BY <1>5
  <2>2. ShowsLine(line, o, d, k)
    BY <2>1, LineFacts
  <2> QED
    BY <1>3, <2>2 DEF ShowsLine
<1>6. CASE line = Star
  <2>1. line.cells = <<>> /\ line.sidebar = <<>>
    BY <1>6 DEF Star
  <2>2. {j \in DOMAIN line.cells : line.cells[j] # NoByte} = {}
    BY <2>1
  <2>3. Cardinality({j \in DOMAIN line.cells : line.cells[j] # NoByte}) = 0
    BY <2>2, FS_EmptySet, Zenon
  <2> QED
    BY <1>3, <2>1, <2>3
<1> QED
  BY <1>4, <1>5, <1>6

\* A call that means what it says.
SensibleCall(o) == ~o.sameFile /\ (o.stdin => o.seek = 0) /\ Fits(o)

BhxxFields(b) ==
  b = [opt |-> b.opt, pc |-> b.pc, input |-> b.input, left |-> b.left, total |-> b.total,
       offset |-> b.offset, prev |-> b.prev, skipping |-> b.skipping, dump |-> b.dump,
       back |-> b.back, exit |-> b.exit]

DumpedBy(b) ==
  Dumped(b.opt, b.input, b.left, b.total, b.offset, b.prev, b.skipping, b.dump)

\* What holds of bhxx at each of its steps.
BhxxPhases(b) ==
  /\ BhxxFields(b) /\ b.opt \in BhxxOptions /\ b.input \in BhxxInputs
  /\ b.pc \in {"open", "dump", "reverse", "done"}
  /\ b.pc = "open" => /\ b.total = 0 /\ b.offset = b.opt.seek /\ b.prev = <<>>
                      /\ b.skipping = FALSE /\ b.dump = <<>>
  /\ b.pc \in {"open", "dump"} => b.exit = -1
  /\ SensibleCall(b.opt) =>
       /\ b.pc \in {"dump", "reverse"} \/ b.exit = 0 => DumpedBy(b)
       /\ b.pc = "reverse" \/ b.exit = 0 => b.total = Len(WantedBy(b.opt, b.input))
       /\ b.pc = "done" /\ b.exit = 0 /\ b.opt.style # "bits" =>
            b.back = FlattenSeq(Backs(b.dump, b.opt))

BhxxInv == IF tool = "bhxx" THEN BhxxPhases(bhxx) ELSE bhxx.exit = -1

LEMMA BhxxInitInv == Init => BhxxInv
<1> SUFFICES ASSUME Init
             PROVE  BhxxInv
  OBVIOUS
<1>1. CASE tool = "bhxx"
  <2>1. PICK o \in BhxxOptions, input \in BhxxInputs : bhxx = BhxxStart(o, input)
    BY <1>1 DEF Init, BhxxInit
  <2> QED
    BY <1>1, <2>1 DEF BhxxInv, BhxxStart, BhxxPhases, BhxxFields
<1>2. CASE tool # "bhxx"
  BY <1>2 DEF Init, BhxxInv, BhxxIdle, BhxxStart
<1> QED
  BY <1>1, <1>2

LEMMA BhxxOpenInv == BhxxPhases(bhxx) /\ BhxxOpen => BhxxPhases(bhxx')
<1> SUFFICES ASSUME BhxxPhases(bhxx), BhxxOpen
             PROVE  BhxxPhases(bhxx')
  OBVIOUS
<1>1. PICK b, c : b = bhxx /\ c = bhxx'
  OBVIOUS
<1>2. PICK o, input : o = b.opt /\ input = b.input
  OBVIOUS
<1>3. /\ BhxxFields(b) /\ o \in BhxxOptions /\ input \in BhxxInputs
      /\ b.total = 0 /\ b.offset = o.seek /\ b.prev = <<>> /\ b.skipping = FALSE
      /\ b.dump = <<>> /\ b.exit = -1
  BY <1>1, <1>2 DEF BhxxPhases, BhxxOpen
<1>4. PICK left : left = CASE o.sameFile -> <<>>
                           [] o.stdin -> input
                           [] OTHER -> SubSeq(input, o.seek + 1, Len(input))
  BY Zenon
<1>5. c = [b EXCEPT !.pc = "done", !.exit = 1] \/ c = [b EXCEPT !.pc = "dump", !.left = left]
  BY <1>1, <1>2, <1>4 DEF BhxxOpen
<1>6. CASE c = [b EXCEPT !.pc = "done", !.exit = 1]
  <2>1. BhxxFields(c) /\ c.opt = o /\ c.input = input /\ c.pc = "done" /\ c.exit = 1
    BY <1>2, <1>3, <1>6, Zenon DEF BhxxFields
  <2> QED
    BY <1>1, <1>3, <2>1 DEF BhxxPhases
<1>7. CASE c = [b EXCEPT !.pc = "dump", !.left = left]
  <2>1. /\ BhxxFields(c) /\ c.opt = o /\ c.input = input /\ c.pc = "dump" /\ c.exit = -1
        /\ c.left = left /\ c.total = 0 /\ c.offset = o.seek /\ c.prev = <<>>
        /\ c.skipping = FALSE /\ c.dump = <<>>
    BY <1>2, <1>3, <1>7, Zenon DEF BhxxFields
  <2>2. ASSUME SensibleCall(o)
        PROVE  DumpedBy(c)
    <3>1. input \in Seq(Bytes)
      BY <1>3, BhxxAssumption
    <3>2. left = ToRead(o, input)
      <4>1. CASE o.stdin
        <5>1. left = input /\ o.seek = 0
          BY <1>4, <2>2, <4>1 DEF SensibleCall
        <5>2. SubSeq(input, 0 + 1, Len(input)) = input
          BY <3>1
        <5> QED
          BY <5>1, <5>2 DEF ToRead
      <4>2. CASE ~o.stdin
        BY <1>4, <2>2, <4>2, Zenon DEF SensibleCall, ToRead
      <4> QED
        BY <4>1, <4>2
    <3>3. PICK seek, total : seek = o.seek /\ total = 0
      OBVIOUS
    <3>4. Dumped(o, input, left, total, seek, <<>>, FALSE, <<>>)
      BY <1>3, <3>1, <3>2, <3>3, DumpedStart, Zenon
    <3> QED
      BY <2>1, <3>3, <3>4, Zenon DEF DumpedBy
  <2> QED
    BY <1>1, <1>3, <2>1, <2>2 DEF BhxxPhases
<1> QED
  BY <1>5, <1>6, <1>7

LEMMA SkipLineInv == BhxxPhases(bhxx) /\ SkipLine => BhxxPhases(bhxx')
<1> SUFFICES ASSUME BhxxPhases(bhxx), SkipLine
             PROVE  BhxxPhases(bhxx')
  OBVIOUS
<1>1. PICK b, c, next : b = bhxx /\ c = bhxx' /\ next = NextBytes
  OBVIOUS
<1>2. PICK o, input, m : o = b.opt /\ input = b.input /\ m = Len(next)
  BY Zenon
<1>3. /\ BhxxFields(b) /\ o \in BhxxOptions /\ input \in BhxxInputs /\ b.exit = -1
      /\ SensibleCall(o) => DumpedBy(b)
      /\ next # <<>> /\ o.autoskip /\ m = o.layout.cols /\ next = b.prev
  BY <1>1, <1>2 DEF BhxxPhases, SkipLine
<1>4. next = NextOf(o, b.left, b.total)
  BY <1>1, <1>2 DEF NextBytes, NextOf
<1>5. PICK more, longer : /\ more = SubSeq(b.left, m + 1, Len(b.left))
                          /\ longer = IF b.skipping THEN b.dump ELSE Append(b.dump, Star)
  BY Zenon
<1>6. /\ BhxxFields(c) /\ c.opt = o /\ c.input = input /\ c.pc = "dump" /\ c.exit = -1
      /\ c.left = more /\ c.total = b.total + m /\ c.offset = b.offset + m /\ c.prev = b.prev
      /\ c.skipping = TRUE /\ c.dump = longer
  <2>1. c = [[b EXCEPT !.total = b.total + m, !.left = more, !.offset = b.offset + m]
               EXCEPT !.skipping = TRUE, !.dump = longer]
    BY <1>1, <1>2, <1>5 DEF SkipLine, Advance
  <2>2. b.pc = "dump"
    BY <1>1 DEF SkipLine
  <2> QED
    BY <1>2, <1>3, <2>1, <2>2, Zenon DEF BhxxFields
<1>7. ASSUME SensibleCall(o)
      PROVE  DumpedBy(c)
  <2>1. Dumped(o, input, b.left, b.total, b.offset, b.prev, b.skipping, b.dump)
    BY <1>2, <1>3, <1>7 DEF DumpedBy
  <2>2. Fits(o) /\ input \in Seq(Bytes)
    BY <1>3, <1>7, BhxxAssumption DEF SensibleCall
  <2>3. MovesOn(b.left, more, m) /\ IsStarred(b.dump, b.skipping, longer)
    BY <1>5 DEF MovesOn, IsStarred
  <2>4. PICK total1, offset1 : total1 = b.total + m /\ offset1 = b.offset + m
    OBVIOUS
  <2>5. Dumped(o, input, more, total1, offset1, b.prev, TRUE, longer)
    BY <1>2, <1>3, <1>4, <2>1, <2>2, <2>3, <2>4, DumpedSkip, ZenonT(40)
  <2> QED
    BY <1>6, <2>4, <2>5, Zenon DEF DumpedBy
<1> QED
  BY <1>1, <1>3, <1>6, <1>7 DEF BhxxPhases

LEMMA ShowLineInv == BhxxPhases(bhxx) /\ ShowLine => BhxxPhases(bhxx')
<1> SUFFICES ASSUME BhxxPhases(bhxx), ShowLine
             PROVE  BhxxPhases(bhxx')
  OBVIOUS
<1>1. PICK b, c, next : b = bhxx /\ c = bhxx' /\ next = NextBytes
  OBVIOUS
<1>2. PICK o, input, m : o = b.opt /\ input = b.input /\ m = Len(next)
  OBVIOUS
<1>3. /\ BhxxFields(b) /\ o \in BhxxOptions /\ input \in BhxxInputs /\ b.exit = -1
      /\ SensibleCall(o) => DumpedBy(b)
      /\ next # <<>>
  BY <1>1, <1>2 DEF BhxxPhases, ShowLine
<1>4. next = NextOf(o, b.left, b.total)
  BY <1>1, <1>2 DEF NextBytes, NextOf
<1>5. PICK more, longer : /\ more = SubSeq(b.left, m + 1, Len(b.left))
                          /\ longer = Append(b.dump, Line(next, o, b.offset))
  BY Zenon
<1>6. /\ BhxxFields(c) /\ c.opt = o /\ c.input = input /\ c.pc = "dump" /\ c.exit = -1
      /\ c.left = more /\ c.total = b.total + m /\ c.offset = b.offset + m /\ c.prev = next
      /\ c.skipping = FALSE /\ c.dump = longer
  <2>1. c = [[b EXCEPT !.total = b.total + m, !.left = more, !.offset = b.offset + m]
               EXCEPT !.skipping = FALSE, !.prev = next, !.dump = longer]
    BY <1>1, <1>2, <1>5 DEF ShowLine, Advance
  <2>2. b.pc = "dump"
    BY <1>1 DEF ShowLine
  <2> QED
    BY <1>2, <1>3, <2>1, <2>2, Zenon DEF BhxxFields
<1>7. ASSUME SensibleCall(o)
      PROVE  DumpedBy(c)
  <2>1. Dumped(o, input, b.left, b.total, b.offset, b.prev, b.skipping, b.dump)
    BY <1>2, <1>3, <1>7 DEF DumpedBy
  <2>2. Fits(o) /\ input \in Seq(Bytes)
    BY <1>3, <1>7, BhxxAssumption DEF SensibleCall
  <2>3. MovesOn(b.left, more, m)
    BY <1>5 DEF MovesOn
  <2>4. PICK total1, offset1 : total1 = b.total + m /\ offset1 = b.offset + m
    OBVIOUS
  <2>5. Dumped(o, input, more, total1, offset1, next, FALSE, longer)
    <3>1. WithLine(b.dump, next, o, b.offset, longer)
      BY <1>5 DEF WithLine
    <3>2. DumpedSoFar(o, input, b.left, b.total, b.offset, b.dump)
      BY <2>1 DEF DumpedSoFar
    <3> QED
      BY <1>2, <1>3, <1>4, <2>2, <2>3, <2>4, <3>1, <3>2, DumpedShow, Zenon
  <2> QED
    BY <1>6, <2>4, <2>5, Zenon DEF DumpedBy
<1> QED
  BY <1>1, <1>3, <1>6, <1>7 DEF BhxxPhases

LEMMA DumpEndsInv == BhxxPhases(bhxx) /\ DumpEnds => BhxxPhases(bhxx')
<1> SUFFICES ASSUME BhxxPhases(bhxx), DumpEnds
             PROVE  BhxxPhases(bhxx')
  OBVIOUS
<1>1. PICK b, c, to : /\ b = bhxx /\ c = bhxx'
                      /\ to = IF b.opt.style = "bits" THEN "done" ELSE "reverse"
  OBVIOUS
<1>2. PICK o, input : o = b.opt /\ input = b.input
  OBVIOUS
<1>3. /\ BhxxFields(b) /\ o \in BhxxOptions /\ input \in BhxxInputs
      /\ SensibleCall(o) => DumpedBy(b)
      /\ NextOf(o, b.left, b.total) = <<>>
  BY <1>1, <1>2 DEF BhxxPhases, DumpEnds, NextBytes, NextOf
<1>4. /\ BhxxFields(c) /\ c.opt = o /\ c.input = input /\ c.pc = to /\ c.exit = 0
      /\ c.left = b.left /\ c.total = b.total /\ c.offset = b.offset /\ c.prev = b.prev
      /\ c.skipping = b.skipping /\ c.dump = b.dump
  <2>1. c = [b EXCEPT !.pc = to, !.exit = 0]
    BY <1>1 DEF DumpEnds
  <2> QED
    BY <1>2, <1>3, <2>1, Zenon DEF BhxxFields
<1>5. ASSUME SensibleCall(o)
      PROVE  DumpedBy(c) /\ c.total = Len(WantedBy(o, input))
  <2>1. Dumped(o, input, b.left, b.total, b.offset, b.prev, b.skipping, b.dump)
    BY <1>2, <1>3, <1>5 DEF DumpedBy
  <2>2. Fits(o) /\ input \in Seq(Bytes)
    BY <1>3, <1>5, BhxxAssumption DEF SensibleCall
  <2>3. b.total = Len(WantedBy(o, input))
    BY <1>3, <2>1, <2>2, DumpedToTheEnd
  <2> QED
    BY <1>4, <2>1, <2>3 DEF DumpedBy
<1>6. to \in {"done", "reverse"} /\ (to = "done" => o.style = "bits")
  BY <1>1, <1>2
<1> QED
  BY <1>1, <1>3, <1>4, <1>5, <1>6 DEF BhxxPhases

LEMMA ReverseDumpInv == BhxxPhases(bhxx) /\ ReverseDump => BhxxPhases(bhxx')
<1> SUFFICES ASSUME BhxxPhases(bhxx), ReverseDump
             PROVE  BhxxPhases(bhxx')
  OBVIOUS
<1>1. PICK b, c : b = bhxx /\ c = bhxx'
  OBVIOUS
<1>2. PICK o, input, back : o = b.opt /\ input = b.input /\ back = FlattenSeq(Backs(b.dump, o))
  OBVIOUS
<1>3. /\ BhxxFields(b) /\ o \in BhxxOptions /\ input \in BhxxInputs
      /\ SensibleCall(o) => DumpedBy(b) /\ b.total = Len(WantedBy(o, input))
  BY <1>1, <1>2 DEF BhxxPhases, ReverseDump
<1>4. /\ BhxxFields(c) /\ c.opt = o /\ c.input = input /\ c.pc = "done"
      /\ c.left = b.left /\ c.total = b.total /\ c.offset = b.offset /\ c.prev = b.prev
      /\ c.skipping = b.skipping /\ c.dump = b.dump /\ c.back = back
  <2>1. c = [b EXCEPT !.pc = "done", !.back = back]
    BY <1>1, <1>2 DEF ReverseDump, Backs
  <2> QED
    BY <1>2, <1>3, <2>1, Zenon DEF BhxxFields
<1>5. ASSUME SensibleCall(o)
      PROVE  DumpedBy(c) /\ c.total = Len(WantedBy(o, input))
  BY <1>2, <1>3, <1>4, <1>5, SMTT(30) DEF DumpedBy
<1> QED
  BY <1>1, <1>2, <1>3, <1>4, <1>5 DEF BhxxPhases

\* A byte that is found in the dump is the one read off the last line that starts at or
\* before it.
LEMMA FoundIsShown ==
  ASSUME NEW k, NEW wanted, k \in Nat, wanted = Wanted, Len(bhxx.dump) \in Nat,
         DOMAIN bhxx.dump = 1 .. Len(bhxx.dump), bhxx.opt.seek \in Nat,
         \A i \in DOMAIN bhxx.dump : bhxx.dump[i].shown => bhxx.dump[i].offset \in Nat,
         FoundIn(bhxx.dump, bhxx.opt, wanted, k)
  PROVE  ShownAt(k)
<1>1. PICK o, dump, last : o = bhxx.opt /\ dump = bhxx.dump /\ last = Len(dump)
  OBVIOUS
<1>2. PICK n \in DOMAIN dump :
        ReadOff(dump, o, k, n) /\ ShowsByte(dump[n], o, wanted[k - o.seek + 1], k)
  BY <1>1 DEF FoundIn
<1>3. PICK D : D = {i \in DOMAIN dump : dump[i].shown /\ dump[i].offset <= k}
  BY Zenon
<1>4. /\ DOMAIN dump = 1 .. last /\ last \in Nat
      /\ \A i \in DOMAIN dump : dump[i].shown => dump[i].offset \in Nat
  BY <1>1
<1>5. n \in D /\ \A j \in D : j <= n
  <2>1. /\ dump[n].shown /\ dump[n].offset <= k
        /\ \A j \in DOMAIN dump : j > n /\ dump[j].shown => dump[j].offset > k
    BY <1>2 DEF ReadOff
  <2>2. ASSUME NEW j \in D
        PROVE  j <= n
    <3>1. j \in DOMAIN dump /\ dump[j].shown /\ dump[j].offset <= k /\ dump[j].offset \in Nat
      BY <1>3, <1>4, <2>2
    <3>2. ~(dump[j].offset > k)
      <4>1. \A x, y \in Nat : x <= y => ~(x > y)
        OBVIOUS
      <4> QED
        BY <3>1, <4>1
    <3>3. ~(j > n)
      BY <2>1, <3>1, <3>2
    <3> QED
      BY <1>4, <3>1, <3>3
  <2> QED
    BY <1>2, <1>3, <2>1, <2>2
<1>6. n = Max(D)
  <2>1. D \subseteq Nat
    BY <1>3, <1>4
  <2>2. \A x \in D : (\A y \in D : x >= y) => x = n
    BY <1>5, <2>1
  <2>3. \A y \in D : n >= y
    BY <1>5, <2>1
  <2>4. \E x \in D : \A y \in D : x >= y
    BY <1>5, <2>3
  <2> QED
    BY <2>2, <2>4 DEF Max
<1>7. PICK line, column : line = dump[n] /\ column = ((k - line.offset) % o.layout.cols) + 1
  OBVIOUS
<1>8. k - line.offset >= o.layout.cols => n < Len(dump) /\ ~dump[n + 1].shown
  <2>1. k - line.offset >= o.layout.cols => n + 1 \in DOMAIN dump /\ ~dump[n + 1].shown
    BY <1>2, <1>7 DEF ReadOff
  <2>2. n + 1 \in DOMAIN dump => n < last
    BY <1>2, <1>4
  <2> QED
    BY <1>1, <2>1, <2>2
<1>9. /\ column <= Len(line.sidebar)
      /\ InOrder(line.cells, o)[column] = Wanted[k - o.seek + 1]
      /\ line.sidebar[column] = Printed(Wanted[k - o.seek + 1])
  BY <1>2, <1>7 DEF ShowsByte
<1> QED
  BY <1>1, <1>3, <1>6, <1>7, <1>8, <1>9 DEF ShownAt

LEMMA BhxxInvFaithful == BhxxInv => DumpIsFaithful
<1> SUFFICES ASSUME BhxxInv, bhxx.exit = 0, Sensible
             PROVE  DumpIsFaithful
  BY Zenon DEF DumpIsFaithful, DumpShows, ReverseRestores
<1>1. BhxxPhases(bhxx)
  BY DEF BhxxInv
<1>2. PICK o, input, wanted : o = bhxx.opt /\ input = bhxx.input /\ wanted = WantedBy(o, input)
  OBVIOUS
<1>3. wanted = Wanted
  BY <1>2 DEF Wanted, WantedBy, ToRead
<1>4. SensibleCall(o) /\ Fits(o) /\ o \in BhxxOptions /\ input \in Seq(Bytes)
  <2>1. SensibleCall(o)
    BY <1>2 DEF Sensible, SensibleCall, Fits
  <2>2. o \in BhxxOptions /\ input \in BhxxInputs
    BY <1>1, <1>2 DEF BhxxPhases
  <2> QED
    BY <2>1, <2>2, BhxxAssumption DEF SensibleCall
<1>5. /\ DumpedBy(bhxx) /\ bhxx.total = Len(wanted)
      /\ bhxx.pc = "done" /\ o.style # "bits" => bhxx.back = FlattenSeq(Backs(bhxx.dump, o))
  BY <1>1, <1>2, <1>4 DEF BhxxPhases
<1>6. PICK dump, total, offset : dump = bhxx.dump /\ total = bhxx.total /\ offset = bhxx.offset
  OBVIOUS
<1>7. /\ total = Len(wanted) /\ offset = o.seek + total
      /\ dump \in Seq(DumpLines(o))
      /\ o.style # "plain" => \A k \in o.seek .. offset - 1 : FoundIn(dump, o, wanted, k)
      /\ Reversible(o, wanted) => DumpRestored(dump, o, SubSeq(wanted, 1, total))
  BY <1>2, <1>5, <1>6 DEF DumpedBy, Dumped
<1>8. wanted \in Seq(Bytes) /\ Len(wanted) \in Nat /\ o.seek \in Nat
  BY <1>2, <1>4, WantedFacts, SeqFacts, BhxxOptionFacts
<1>9. DumpShows
  <2> SUFFICES ASSUME o.style # "plain"
               PROVE  /\ \A k \in o.seek .. o.seek + Len(wanted) - 1 : ShownAt(k)
                      /\ \A i \in DOMAIN dump :
                           Cardinality({j \in DOMAIN dump[i].cells : dump[i].cells[j] # NoByte})
                             = Len(dump[i].sidebar)
    BY <1>2, <1>3, <1>6, <1>7, Zenon DEF DumpShows
  <2>1. ASSUME NEW i \in DOMAIN dump, dump[i].shown
        PROVE  dump[i].offset \in Nat
    <3>1. PICK S : S = DumpLines(o)
      OBVIOUS
    <3>2. dump[i] \in S
      BY <1>7, <3>1, SeqFacts
    <3>3. dump[i] # Star
      BY <2>1 DEF Star
    <3>4. \E d \in LineBytes(o), k \in Nat : dump[i] = Line(d, o, k)
      BY <3>1, <3>2, <3>3 DEF DumpLines
    <3> QED
      BY <3>4 DEF Line
  <2>2. ASSUME NEW k \in o.seek .. o.seek + Len(wanted) - 1
        PROVE  ShownAt(k)
    <3>1. k \in o.seek .. offset - 1
      <4>1. o.seek + Len(wanted) - 1 = offset - 1
        <5>1. offset = o.seek + total /\ total = Len(wanted)
          BY <1>7
        <5> QED
          BY <1>8, <5>1
      <4> QED
        BY <4>1, Zenon
    <3>2. FoundIn(dump, o, wanted, k)
      BY <1>7, <3>1
    <3>3. k \in Nat
      BY <1>8
    <3>4. Len(dump) \in Nat /\ DOMAIN dump = 1 .. Len(dump)
      <4>1. PICK S : S = DumpLines(o)
        OBVIOUS
      <4> QED
        BY <1>7, <4>1, SeqFacts
    <3> QED
      BY <1>2, <1>3, <1>6, <1>8, <2>1, <3>2, <3>3, <3>4, FoundIsShown
  <2>3. ASSUME NEW i \in DOMAIN dump
        PROVE  Cardinality({j \in DOMAIN dump[i].cells : dump[i].cells[j] # NoByte})
                 = Len(dump[i].sidebar)
    BY <1>4, <1>7, LinesCounted, Zenon
  <2> QED
    BY <2>2, <2>3
<1>10. ReverseRestores
  <2> SUFFICES ASSUME bhxx.pc = "done", ~o.autoskip,
                      \/ o.style = "plain"
                      \/ /\ o.style = "hex" /\ ~o.little
                         /\ \A i \in DOMAIN wanted : Printed(wanted[i]) \notin HexDigits
               PROVE  bhxx.back = wanted
    BY <1>2, <1>3 DEF ReverseRestores
  <2>1. Reversible(o, wanted)
    BY DEF Reversible
  <2>2. DumpRestored(dump, o, SubSeq(wanted, 1, total))
    BY <1>7, <2>1
  <2>3. SubSeq(wanted, 1, total) = wanted
    BY <1>7, <1>8
  <2>4. bhxx.back = FlattenSeq(Backs(dump, o))
    BY <1>5, <1>6
  <2> QED
    BY <2>2, <2>3, <2>4 DEF DumpRestored
<1> QED
  BY <1>9, <1>10 DEF DumpIsFaithful

\* A complete dump shows every byte of the file that was asked for, at its offset, in the
\* cells as in the sidebar, and no other; and converting it back gives the bytes that were
\* dumped, where no character of the sidebar stands in the way: for files of any length, lines
\* of any number of columns and groups, and any -s and -l.
THEOREM BhxxFaithful == Spec => []DumpIsFaithful
<1>1. Init => BhxxInv
  BY BhxxInitInv
<1>2. BhxxInv /\ [Next]_vars => BhxxInv'
  <2> SUFFICES ASSUME BhxxInv, [Next]_vars
               PROVE  BhxxInv'
    OBVIOUS
  <2>1. CASE RunBhxx
    <3>1. tool = "bhxx" /\ tool' = tool /\ BhxxStep
      BY <2>1 DEF RunBhxx, Rest
    <3>2. BhxxPhases(bhxx)
      BY <3>1 DEF BhxxInv
    <3>3. BhxxPhases(bhxx')
      BY <3>1, <3>2, BhxxOpenInv, SkipLineInv, ShowLineInv, DumpEndsInv, ReverseDumpInv
         DEF BhxxStep
    <3> QED
      BY <3>1, <3>3 DEF BhxxInv
  <2>2. CASE UNCHANGED <<tool, bhxx>>
    BY <2>2 DEF BhxxInv
  <2> QED
    BY <2>1, <2>2 DEF Next, vars, files, Rest, RunBuniq, RunFill, RunKp, RunExe, RunBpatch,
                      RunBgrep, RunFurl, RunSplitMerge
<1> QED
  BY <1>1, <1>2, BhxxInvFaithful, PTL DEF Spec

-----------------------------------------------------------------------------
(* Loops over a sequence.                                                  *)

\* A step takes a state and an element to a state.
StepOf(step, A, B) == \A a \in A : \A x \in B : step[<<a, x>>] \in A

Walked(f, step, start, s, A) ==
  /\ Through(step, start, s) = f[Len(s)]
  /\ f[0] = start
  /\ \A n \in 0 .. Len(s) : f[n] \in A
  /\ \A n \in 0 .. Len(s) - 1 : f[n + 1] = step[<<f[n], s[n + 1]>>]

LEMMA WalkedFunction ==
  ASSUME NEW step, NEW A, NEW B, NEW start, NEW s, StepOf(step, A, B), start \in A, s \in Seq(B)
  PROVE  \E f : Walked(f, step, start, s, A)
<1> DEFINE last == Len(s)
           Body(f, i) == IF i = 0 THEN start ELSE step[<<f[i - 1], s[i]>>]
           upTo == CHOOSE f : f = [i \in 0 .. last |-> Body(f, i)]
           turn == [p \in (0 .. last) \X A |->
                      IF p[1] < last THEN step[<<p[2], s[p[1] + 1]>>] ELSE p[2]]
<1>1. last \in Nat /\ \A i \in 1 .. last : s[i] \in B
  BY SeqFacts
<1>2. ASSUME NEW n \in 0 .. last, NEW a \in A
      PROVE  /\ turn[<<n, a>>] \in A
             /\ n < last => turn[<<n, a>>] = step[<<a, s[n + 1]>>]
  <2>1. <<n, a>> \in (0 .. last) \X A
    OBVIOUS
  <2>2. turn[<<n, a>>] = IF n < last THEN step[<<a, s[n + 1]>>] ELSE a
    BY <2>1
  <2>3. n < last => n + 1 \in 1 .. last /\ n + 1 \in Nat
    BY <1>1
  <2>4. n < last => step[<<a, s[n + 1]>>] \in A
    BY <1>1, <2>3 DEF StepOf
  <2> HIDE DEF turn
  <2> QED
    BY <2>2, <2>4
<1>3. Steps(A, start, turn, 0, last)
  <2> HIDE DEF turn
  <2>1. 0 \in Nat /\ last \in Nat /\ 0 <= last
    BY <1>1
  <2>2. \A n \in 0 .. last : \A a \in A : turn[<<n, a>>] \in A
    BY <1>2
  <2> QED
    BY <2>1, <2>2, Zenon DEF Steps
<1>4. PICK g : Follows(g, A, start, turn, 0, last)
  <2> HIDE DEF turn, last
  <2> QED
    BY <1>3, Recursion, Zenon
<1>5. /\ g \in [0 .. last -> A] /\ g[0] = start
      /\ \A n \in 0 .. last - 1 : g[n + 1] = step[<<g[n], s[n + 1]>>]
  <2> HIDE DEF turn
  <2>1. g \in [0 .. last -> A] /\ g[0] = start
    BY <1>4 DEF Follows
  <2>2. ASSUME NEW n \in 0 .. last - 1
        PROVE  g[n + 1] = step[<<g[n], s[n + 1]>>]
    <3>1. g[n + 1] = turn[<<n, g[n]>>]
      BY <1>4, <2>2 DEF Follows
    <3>2. n \in 0 .. last /\ n < last /\ g[n] \in A
      BY <1>1, <2>1
    <3> QED
      BY <3>1, <3>2, <1>2
  <2> QED
    BY <2>1, <2>2
<1>6. g = [i \in 0 .. last |-> Body(g, i)]
  <2>1. ASSUME NEW i \in 0 .. last
        PROVE  g[i] = Body(g, i)
    <3>1. CASE i = 0
      BY <3>1, <1>5
    <3>2. CASE i # 0
      <4>1. PICK n : n = i - 1
        OBVIOUS
      <4>2. n \in 0 .. last - 1 /\ i = n + 1
        BY <3>2, <4>1, <1>1
      <4>3. g[n + 1] = step[<<g[n], s[n + 1]>>]
        BY <4>2, <1>5
      <4> QED
        BY <3>2, <4>1, <4>2, <4>3
    <3> QED
      BY <3>1, <3>2
  <2> HIDE DEF Body
  <2> QED
    BY <2>1, <1>5
<1>7. upTo = [i \in 0 .. last |-> Body(upTo, i)]
  BY <1>6, Zenon
<1>8. Through(step, start, s) = upTo[last]
  BY Zenon DEF Through
<1> HIDE DEF upTo
<1>9. upTo[0] = start
  BY <1>1, <1>7
<1>10. ASSUME NEW n \in 0 .. last - 1
       PROVE  upTo[n + 1] = step[<<upTo[n], s[n + 1]>>]
  <2>1. n + 1 \in 0 .. last /\ n + 1 # 0 /\ (n + 1) - 1 = n
    BY <1>1
  <2>2. upTo[n + 1] = Body(upTo, n + 1)
    BY <1>7, <2>1
  <2> QED
    BY <2>1, <2>2
<1>11. PICK first : first = 0
  OBVIOUS
<1>12. Agree(upTo, g, first, last)
  BY <1>1, <1>5, <1>9, <1>10, <1>11 DEF Agree
<1>13. \A n \in first .. last : upTo[n] = g[n]
  BY <1>12, SameRecursion
<1>14. \A n \in 0 .. last : upTo[n] \in A
  BY <1>5, <1>11, <1>13
<1>15. Walked(upTo, step, start, s, A)
  BY <1>8, <1>9, <1>10, <1>14 DEF Walked
<1> QED
  BY <1>15

LEMMA ThroughType ==
  ASSUME NEW step, NEW A, NEW B, NEW start, NEW s, StepOf(step, A, B), start \in A, s \in Seq(B)
  PROVE  Through(step, start, s) \in A
<1>1. PICK f : Walked(f, step, start, s, A)
  BY WalkedFunction, Zenon
<1>2. Len(s) \in 0 .. Len(s)
  BY SeqFacts
<1> QED
  BY <1>1, <1>2 DEF Walked

LEMMA ThroughNone ==
  ASSUME NEW step, NEW A, NEW B, NEW start, StepOf(step, A, B), start \in A
  PROVE  Through(step, start, <<>>) = start
<1>1. PICK s : s = <<>>
  OBVIOUS
<1>2. s \in Seq(B) /\ Len(s) = 0
  BY <1>1
<1>3. PICK f : Walked(f, step, start, s, A)
  BY <1>2, WalkedFunction, Zenon
<1> QED
  BY <1>1, <1>2, <1>3 DEF Walked

\* One element more.
LEMMA ThroughAppend ==
  ASSUME NEW step, NEW A, NEW B, NEW start, NEW s, NEW x, StepOf(step, A, B), start \in A,
         s \in Seq(B), x \in B
  PROVE  Through(step, start, Append(s, x)) = step[<<Through(step, start, s), x>>]
<1>1. PICK t, n : t = Append(s, x) /\ n = Len(s)
  BY Zenon
<1>2. /\ t \in Seq(B) /\ n \in Nat /\ Len(t) = n + 1 /\ t[n + 1] = x
      /\ \A i \in 1 .. n : t[i] = s[i]
  BY <1>1, AppendFacts
<1>3. PICK f : Walked(f, step, start, t, A)
  BY <1>2, WalkedFunction, Zenon
<1>4. PICK g : Walked(g, step, start, s, A)
  BY WalkedFunction, Zenon
<1>5. PICK first : first = 0
  OBVIOUS
<1>6. Agree(f, g, first, n)
  <2>1. f[0] = g[0]
    BY <1>3, <1>4 DEF Walked
  <2>2. ASSUME NEW i \in 0 .. n - 1, f[i] = g[i]
        PROVE  f[i + 1] = g[i + 1]
    <3>1. i \in 0 .. Len(t) - 1 /\ i + 1 \in 1 .. n
      BY <1>2
    <3>2. f[i + 1] = step[<<f[i], t[i + 1]>>]
      BY <1>3, <3>1 DEF Walked
    <3>3. g[i + 1] = step[<<g[i], s[i + 1]>>]
      BY <1>1, <1>4 DEF Walked
    <3> QED
      BY <1>2, <2>2, <3>1, <3>2, <3>3
  <2> QED
    BY <1>2, <1>5, <2>1, <2>2 DEF Agree
<1>7. f[n] = g[n]
  <2>1. \A i \in first .. n : f[i] = g[i]
    BY <1>6, SameRecursion
  <2> QED
    BY <1>2, <1>5, <2>1
<1>8. f[n + 1] = step[<<f[n], t[n + 1]>>]
  <2>1. n \in 0 .. Len(t) - 1
    BY <1>2
  <2> QED
    BY <1>3, <2>1 DEF Walked
<1>9. Through(step, start, t) = f[n + 1] /\ Through(step, start, s) = g[n]
  BY <1>1, <1>2, <1>3, <1>4 DEF Walked
<1> QED
  BY <1>1, <1>2, <1>7, <1>8, <1>9

LEMMA ThroughOne ==
  ASSUME NEW step, NEW A, NEW B, NEW start, NEW x, StepOf(step, A, B), start \in A, x \in B
  PROVE  Through(step, start, <<x>>) = step[<<start, x>>]
<1>1. PICK e : e = <<>>
  OBVIOUS
<1>2. e \in Seq(B) /\ Append(e, x) = <<x>>
  BY <1>1
<1>3. Through(step, start, Append(e, x)) = step[<<Through(step, start, e), x>>]
  <2>1. e \in Seq(B)
    BY <1>2
  <2> QED
    BY <2>1, ThroughAppend
<1>4. Through(step, start, e) = start
  BY <1>1, ThroughNone
<1> QED
  BY <1>2, <1>3, <1>4

\* One part after the other.
LEMMA ThroughConcat ==
  ASSUME NEW step, NEW A, NEW B, NEW start, NEW s, NEW t, StepOf(step, A, B), start \in A,
         s \in Seq(B), t \in Seq(B)
  PROVE  Through(step, start, s \o t) = Through(step, Through(step, start, s), t)
<1>1. PICK mid, m : mid = Through(step, start, s) /\ m = Len(t)
  BY Zenon
<1>2. mid \in A /\ m \in Nat
  BY <1>1, ThroughType, SeqFacts
<1> DEFINE G == {n \in Nat : n <= m =>
                   Through(step, start, s \o SubSeq(t, 1, n)) = Through(step, mid, SubSeq(t, 1, n))}
<1>3. 0 \in G
  <2>1. SubSeq(t, 1, 0) = <<>> /\ s \o <<>> = s
    BY ConcatFacts
  <2>2. Through(step, mid, <<>>) = mid
    BY <1>2, ThroughNone
  <2> QED
    BY <1>1, <2>1, <2>2
<1>4. ASSUME NEW n \in 0 .. m - 1, n \in G
      PROVE  n + 1 \in G
  <2>1. PICK a, b, x : a = SubSeq(t, 1, n) /\ b = SubSeq(t, 1, n + 1) /\ x = t[n + 1]
    BY Zenon
  <2>2. a \in Seq(B) /\ b = Append(a, x)
    BY <1>1, <2>1, PrefixFacts
  <2>3. x \in B
    BY <1>1, <1>2, <2>1, SeqFacts
  <2>4. PICK c : c = s \o a
    BY Zenon
  <2>5. c \in Seq(B) /\ s \o b = Append(c, x)
    BY <2>2, <2>3, <2>4
  <2>6. Through(step, start, Append(c, x)) = step[<<Through(step, start, c), x>>]
    BY <2>3, <2>5, ThroughAppend
  <2>7. Through(step, mid, b) = step[<<Through(step, mid, a), x>>]
    BY <1>2, <2>2, <2>3, ThroughAppend
  <2>8. Through(step, start, c) = Through(step, mid, a)
    <3>1. n <= m
      BY <1>2
    <3> QED
      BY <1>4, <2>1, <2>4, <3>1, Zenon
  <2>9. Through(step, start, s \o b) = Through(step, mid, b)
    BY <2>5, <2>6, <2>7, <2>8
  <2>10. n + 1 \in Nat
    OBVIOUS
  <2> QED
    BY <2>1, <2>9, <2>10
<1>5. PICK first : first = 0
  OBVIOUS
<1> HIDE DEF G
<1>6. Inductive(G, first, m)
  BY <1>2, <1>3, <1>4, <1>5 DEF Inductive
<1>7. m \in G
  <2>1. \A n \in first .. m : n \in G
    BY <1>6, RangeInduction
  <2> QED
    BY <1>2, <1>5, <2>1
<1>8. SubSeq(t, 1, m) = t
  BY <1>1, <1>2
<1>9. m <= m
  BY <1>2
<1> QED
  BY <1>1, <1>7, <1>8, <1>9, Zenon DEF G

-----------------------------------------------------------------------------
(* furl: percent codes.                                                    *)

\* The characters of an encoded text, and what one becomes.
PlainChars == {c \in FurlChars : IsUnreserved(c) \/ c = Percent}

UnitOf(c) == IF IsUnreserved(c) THEN <<c>> ELSE PercentCode(c)
UnitsOf(s) == [i \in DOMAIN s |-> UnitOf(s[i])]

LEMMA HexFacts ==
  ASSUME NEW v, v \in 0 .. 15
  PROVE  HexDigit(v) \in PlainChars /\ HexOf(HexDigit(v)) = v
  BY DEF HexDigit, HexOf, PlainChars, FurlChars, IsUnreserved, IsDigit, IsAlpha

LEMMA ByteHalves ==
  ASSUME NEW c, c \in FurlChars
  PROVE  /\ c \div 16 \in 0 .. 15 /\ c % 16 \in 0 .. 15
         /\ 16 * (c \div 16) + (c % 16) = c
  BY DEF FurlChars

LEMMA HexRange ==
  ASSUME NEW c, c \in FurlChars
  PROVE  HexOf(c) \in -1 .. 15
  BY DEF FurlChars, HexOf, IsDigit

\* An encoded character: itself, or three.
LEMMA UnitFacts ==
  ASSUME NEW c, c \in FurlChars
  PROVE  /\ UnitOf(c) \in Seq(PlainChars)
         /\ \/ UnitOf(c) = <<c>> /\ c # Percent
            \/ /\ UnitOf(c) = <<Percent, HexDigit(c \div 16), HexDigit(c % 16)>>
               /\ HexDigit(c \div 16) \in PlainChars /\ HexDigit(c % 16) \in PlainChars
<1>1. CASE IsUnreserved(c)
  <2>1. UnitOf(c) = <<c>> /\ c \in PlainChars /\ c # Percent
    BY <1>1 DEF UnitOf, PlainChars, IsUnreserved, IsDigit, IsAlpha, Percent, FurlChars
  <2>2. UnitOf(c) \in Seq(PlainChars)
    BY <2>1
  <2> QED
    BY <2>1, <2>2
<1>2. CASE ~IsUnreserved(c)
  <2>1. PICK a, b : a = HexDigit(c \div 16) /\ b = HexDigit(c % 16)
    BY Zenon
  <2>2. a \in PlainChars /\ b \in PlainChars
    BY <2>1, ByteHalves, HexFacts
  <2>3. Percent \in PlainChars
    BY DEF Percent, PlainChars, FurlChars
  <2>4. UnitOf(c) = <<Percent, a, b>>
    BY <1>2, <2>1, Zenon DEF UnitOf, PercentCode
  <2>5. UnitOf(c) \in Seq(PlainChars)
    BY <2>2, <2>3, <2>4
  <2> QED
    BY <2>1, <2>2, <2>4, <2>5, Zenon
<1> QED
  BY <1>1, <1>2

LEMMA PlainAreChars == Seq(PlainChars) \subseteq Seq(FurlChars)
<1>1. PlainChars \subseteq FurlChars
  BY DEF PlainChars
<1> QED
  BY <1>1

LEMMA UnitsType ==
  ASSUME NEW s, s \in Seq(FurlChars)
  PROVE  UnitsOf(s) \in Seq(Seq(PlainChars)) /\ UrlEncode(s) = FlattenSeq(UnitsOf(s))
<1>1. PICK B : B = Seq(PlainChars)
  BY Zenon
<1>2. Len(s) \in Nat /\ DOMAIN s = 1 .. Len(s) /\ \A i \in 1 .. Len(s) : UnitOf(s[i]) \in B
  BY <1>1, SeqFacts, UnitFacts
<1>3. UnitsOf(s) \in [1 .. Len(s) -> B]
  BY <1>2 DEF UnitsOf
<1>4. UnitsOf(s) \in Seq(B)
  BY <1>2, <1>3, FunctionIsSeq
<1>5. UrlEncode(s) = FlattenSeq(UnitsOf(s))
  BY Zenon DEF UrlEncode, UnitsOf, UnitOf
<1> QED
  BY <1>1, <1>4, <1>5

LEMMA EncodedType ==
  ASSUME NEW s, s \in Seq(FurlChars)
  PROVE  UrlEncode(s) \in Seq(PlainChars) /\ UrlEncode(s) \in Seq(FurlChars)
<1>1. UrlEncode(s) \in Seq(PlainChars)
  BY UnitsType, FlattenType, Zenon
<1> QED
  BY <1>1, PlainAreChars, Zenon

LEMMA EncodedAppend ==
  ASSUME NEW s, NEW c, s \in Seq(FurlChars), c \in FurlChars
  PROVE  UrlEncode(Append(s, c)) = UrlEncode(s) \o UnitOf(c)
<1>1. PICK t, n : t = Append(s, c) /\ n = Len(s)
  BY Zenon
<1>2. /\ t \in Seq(FurlChars) /\ n \in Nat /\ Len(t) = n + 1 /\ t[n + 1] = c
      /\ \A i \in 1 .. n : t[i] = s[i]
  BY <1>1, AppendFacts
<1>3. PICK a, b, B, u : a = UnitsOf(s) /\ b = UnitsOf(t) /\ B = Seq(PlainChars) /\ u = UnitOf(c)
  BY Zenon
<1>4. a \in Seq(B) /\ b \in Seq(B) /\ u \in B
  BY <1>2, <1>3, UnitsType, UnitFacts, Zenon
<1>5. DOMAIN s = 1 .. n /\ DOMAIN t = 1 .. n + 1
  BY <1>1, <1>2, SeqFacts
<1>6. a = [i \in 1 .. n |-> UnitOf(s[i])] /\ b = [i \in 1 .. n + 1 |-> UnitOf(t[i])]
  BY <1>3, <1>5, Zenon DEF UnitsOf
<1>7. Len(a) = n /\ Len(b) = n + 1
  BY <1>2, <1>4, <1>6
<1>8. \A i \in 1 .. n : b[i] = a[i]
  BY <1>2, <1>6
<1>9. b[n + 1] = u
  <2>1. n + 1 \in 1 .. n + 1
    BY <1>2
  <2> QED
    BY <1>2, <1>3, <1>6, <2>1
<1>10. b = Append(a, u)
  BY <1>2, <1>4, <1>7, <1>8, <1>9
<1>11. FlattenSeq(Append(a, u)) = FlattenSeq(a) \o u
  <2>1. a \in Seq(Seq(PlainChars)) /\ u \in Seq(PlainChars)
    BY <1>3, <1>4, Zenon
  <2> QED
    BY <2>1, FlattenAppend, Zenon
<1>12. UrlEncode(s) = FlattenSeq(a) /\ UrlEncode(t) = FlattenSeq(b)
  BY <1>2, <1>3, UnitsType, Zenon
<1> QED
  BY <1>1, <1>3, <1>10, <1>11, <1>12, Zenon

-----------------------------------------------------------------------------
(* furl: decoding.                                                         *)

LEMMA DecodeStepIs ==
  ASSUME NEW a, NEW c, a \in Decodings, c \in FurlChars
  PROVE  DecodeStep[<<a, c>>] = DecodeChar(a, c)
<1>1. <<a, c>> \in Decodings \X FurlChars
  BY Zenon
<1> QED
  BY <1>1 DEF DecodeStep

\* A state of the loop by its fields, and what a character makes of it.
Decoding(text, left, high) == [text |-> text, left |-> left, high |-> high]

LEMMA DecodingFacts ==
  ASSUME NEW text, NEW left, NEW high,
         text \in Seq(FurlChars), left \in -1 .. 2, high \in 0 .. 15
  PROVE  Decoding(text, left, high) \in Decodings
  BY DEF Decoding, Decodings

LEMMA DecodeCharIs ==
  ASSUME NEW a, NEW c, NEW text, NEW left, NEW high, NEW v,
         left \in -1 .. 2, a = Decoding(text, left, high), c \in FurlChars, v = HexOf(c)
  PROVE  /\ left = -1 => DecodeChar(a, c) = a
         /\ left = 0 /\ c # Percent => DecodeChar(a, c) = Decoding(Append(text, c), left, high)
         /\ left = 0 /\ c = Percent => DecodeChar(a, c) = Decoding(text, 2, high)
         /\ left > 0 /\ v < 0 => DecodeChar(a, c) = Decoding(text, -1, high)
         /\ left = 2 /\ v >= 0 => DecodeChar(a, c) = Decoding(text, 1, v)
         /\ left = 1 /\ v >= 0 =>
              DecodeChar(a, c) = Decoding(Append(text, 16 * high + v), 0, 0)
<1>1. a.text = text /\ a.left = left /\ a.high = high
  BY DEF Decoding
<1>2. v \in -1 .. 15
  BY HexRange
<1>3. CASE left = -1
  BY <1>1, <1>3 DEF DecodeChar
<1>4. CASE left = 0 /\ c # Percent
  <2>1. DecodeChar(a, c) = [a EXCEPT !.text = Append(text, c)]
    BY <1>1, <1>4 DEF DecodeChar
  <2>2. DecodeChar(a, c) = Decoding(Append(text, c), left, high)
    BY <2>1 DEF Decoding
  <2> QED
    BY <1>4, <2>2
<1>5. CASE left = 0 /\ c = Percent
  <2>1. DecodeChar(a, c) = [a EXCEPT !.left = 2]
    BY <1>1, <1>5 DEF DecodeChar
  <2>2. DecodeChar(a, c) = Decoding(text, 2, high)
    BY <2>1 DEF Decoding
  <2> QED
    BY <1>5, <2>2
<1>6. CASE left > 0 /\ v < 0
  <2>1. ~(left = 0) /\ ~(left = -1) /\ ~(v >= 0)
    BY <1>2, <1>6
  <2>2. DecodeChar(a, c) = [a EXCEPT !.left = -1]
    BY <1>1, <1>6, <2>1 DEF DecodeChar
  <2>3. DecodeChar(a, c) = Decoding(text, -1, high)
    BY <2>2 DEF Decoding
  <2> QED
    BY <1>6, <2>1, <2>3
<1>7. CASE left = 2 /\ v >= 0
  <2>1. DecodeChar(a, c) = [a EXCEPT !.left = 1, !.high = v]
    BY <1>1, <1>2, <1>7 DEF DecodeChar
  <2>2. DecodeChar(a, c) = Decoding(text, 1, v)
    BY <2>1 DEF Decoding
  <2> QED
    BY <1>2, <1>7, <2>2
<1>8. CASE left = 1 /\ v >= 0
  <2>1. DecodeChar(a, c) = [a EXCEPT !.left = 0, !.high = 0, !.text = Append(text, 16 * high + v)]
    BY <1>1, <1>2, <1>8 DEF DecodeChar
  <2>2. DecodeChar(a, c) = Decoding(Append(text, 16 * high + v), 0, 0)
    BY <2>1 DEF Decoding
  <2> QED
    BY <1>2, <1>8, <2>2
<1> QED
  BY <1>2, <1>3, <1>4, <1>5, <1>6, <1>7, <1>8

LEMMA DecodeCharType ==
  ASSUME NEW a, NEW c, a \in Decodings, c \in FurlChars
  PROVE  DecodeChar(a, c) \in Decodings
<1>1. PICK text \in Seq(FurlChars), left \in -1 .. 2, high \in 0 .. 15 :
        a = Decoding(text, left, high)
  BY DEF Decodings, Decoding
<1>2. PICK v, w : v = HexOf(c) /\ w = 16 * high + v
  BY Zenon
<1>3. v \in -1 .. 15
  BY <1>2, HexRange
<1>4. v >= 0 => w \in FurlChars
  <2>1. ASSUME NEW x \in 0 .. 15, NEW y \in -1 .. 15, y >= 0
        PROVE  16 * x + y \in 0 .. 255
    BY <2>1
  <2> QED
    BY <1>2, <1>3, <2>1 DEF FurlChars
<1>5. Append(text, c) \in Seq(FurlChars) /\ (v >= 0 => Append(text, w) \in Seq(FurlChars))
  BY <1>4
<1>6. CASE left = -1
  BY <1>1, <1>6, DecodeCharIs
<1>7. CASE left = 0 /\ c # Percent
  <2>1. DecodeChar(a, c) = Decoding(Append(text, c), left, high)
    BY <1>1, <1>7, DecodeCharIs
  <2> QED
    BY <1>1, <1>5, <2>1, DecodingFacts, Zenon
<1>8. CASE left = 0 /\ c = Percent
  <2>1. DecodeChar(a, c) = Decoding(text, 2, high) /\ 2 \in -1 .. 2
    BY <1>1, <1>8, DecodeCharIs
  <2> QED
    BY <1>1, <2>1, DecodingFacts, Zenon
<1>9. CASE left > 0 /\ v < 0
  <2>1. DecodeChar(a, c) = Decoding(text, -1, high) /\ -1 \in -1 .. 2
    BY <1>1, <1>2, <1>9, DecodeCharIs
  <2> QED
    BY <1>1, <2>1, DecodingFacts, Zenon
<1>10. CASE left = 2 /\ v >= 0
  <2>1. v \in 0 .. 15 /\ 1 \in -1 .. 2
    BY <1>3, <1>10
  <2>2. DecodeChar(a, c) = Decoding(text, 1, v)
    BY <1>1, <1>2, <1>10, DecodeCharIs
  <2> QED
    BY <1>1, <2>1, <2>2, DecodingFacts, Zenon
<1>11. CASE left = 1 /\ v >= 0
  <2>1. DecodeChar(a, c) = Decoding(Append(text, w), 0, 0) /\ 0 \in -1 .. 2 /\ 0 \in 0 .. 15
    BY <1>1, <1>2, <1>11, DecodeCharIs
  <2>2. Append(text, w) \in Seq(FurlChars)
    BY <1>5, <1>11
  <2> QED
    BY <2>1, <2>2, DecodingFacts, Zenon
<1> QED
  BY <1>3, <1>6, <1>7, <1>8, <1>9, <1>10, <1>11

LEMMA DecodeStepType == StepOf(DecodeStep, Decodings, FurlChars)
<1>1. ASSUME NEW a \in Decodings, NEW c \in FurlChars
      PROVE  DecodeStep[<<a, c>>] \in Decodings
  BY DecodeStepIs, DecodeCharType
<1> QED
  BY <1>1, Zenon DEF StepOf

\* What is decoded of a text, read from a state on.
DecodedFrom(a, s) == Through(DecodeStep, a, s)

LEMMA DecodeOne ==
  ASSUME NEW a, NEW c, a \in Decodings, c \in FurlChars
  PROVE  DecodedFrom(a, <<c>>) = DecodeChar(a, c)
<1>1. Through(DecodeStep, a, <<c>>) = DecodeStep[<<a, c>>]
  BY DecodeStepType, ThroughOne
<1> QED
  BY <1>1, DecodeStepIs, Zenon DEF DecodedFrom

LEMMA DecodeNone ==
  ASSUME NEW a, a \in Decodings
  PROVE  DecodedFrom(a, <<>>) = a
  BY DecodeStepType, ThroughNone, Zenon DEF DecodedFrom

LEMMA DecodeAppend ==
  ASSUME NEW a, NEW s, NEW c, a \in Decodings, s \in Seq(FurlChars), c \in FurlChars
  PROVE  DecodedFrom(a, Append(s, c)) = DecodeChar(DecodedFrom(a, s), c)
<1>1. PICK b : b = Through(DecodeStep, a, s)
  BY Zenon
<1>2. b \in Decodings
  BY <1>1, DecodeStepType, ThroughType
<1>3. Through(DecodeStep, a, Append(s, c)) = DecodeStep[<<b, c>>]
  BY <1>1, DecodeStepType, ThroughAppend
<1> QED
  BY <1>1, <1>2, <1>3, DecodeStepIs, Zenon DEF DecodedFrom

LEMMA DecodeConcat ==
  ASSUME NEW a, NEW s, NEW t, a \in Decodings, s \in Seq(FurlChars), t \in Seq(FurlChars)
  PROVE  DecodedFrom(a, s \o t) = DecodedFrom(DecodedFrom(a, s), t)
  BY DecodeStepType, ThroughConcat DEF DecodedFrom

\* All of a text is decoded and nothing is left open.
IsDecoded(a, text) == a = Decoding(text, 0, 0)

LEMMA DecodedHolds ==
  ASSUME NEW a, NEW text, text \in Seq(FurlChars), IsDecoded(a, text)
  PROVE  a \in Decodings /\ a.text = text /\ a.left = 0
<1>1. 0 \in -1 .. 2 /\ 0 \in 0 .. 15
  OBVIOUS
<1>2. a \in Decodings
  BY <1>1, DecodingFacts, Zenon DEF IsDecoded
<1> QED
  BY <1>2 DEF IsDecoded, Decoding

LEMMA DecodePlain ==
  ASSUME NEW a, NEW text, NEW c, text \in Seq(FurlChars), IsDecoded(a, text),
         c \in FurlChars, c # Percent
  PROVE  IsDecoded(DecodedFrom(a, <<c>>), Append(text, c))
<1>1. DecodedFrom(a, <<c>>) = DecodeChar(a, c)
  BY DecodedHolds, DecodeOne, Zenon
<1>2. 0 \in -1 .. 2 /\ a = Decoding(text, 0, 0)
  BY DEF IsDecoded
<1>3. DecodeChar(a, c) = Decoding(Append(text, c), 0, 0)
  BY <1>2, DecodeCharIs
<1> QED
  BY <1>1, <1>3, Zenon DEF IsDecoded

\* A code is read: the percent sign and two digits.
LEMMA DecodeCode ==
  ASSUME NEW a, NEW text, NEW c, NEW x, NEW y, text \in Seq(FurlChars), IsDecoded(a, text),
         c \in FurlChars, x = HexDigit(c \div 16), y = HexDigit(c % 16)
  PROVE  IsDecoded(DecodedFrom(a, <<Percent, x, y>>), Append(text, c))
<1>1. PICK h, l : h = c \div 16 /\ l = c % 16
  BY Zenon
<1>2. h \in 0 .. 15 /\ l \in 0 .. 15 /\ 16 * h + l = c
  BY <1>1, ByteHalves
<1>3. HexOf(x) = h /\ HexOf(y) = l /\ x \in PlainChars /\ y \in PlainChars
  BY <1>1, <1>2, HexFacts
<1>4. x \in FurlChars /\ y \in FurlChars /\ Percent \in FurlChars
  BY <1>3 DEF PlainChars, FurlChars, Percent
<1>5. PICK one, two, three :
        one = <<Percent>> /\ two = <<Percent, x>> /\ three = <<Percent, x, y>>
  BY Zenon
<1>6. /\ one \in Seq(FurlChars) /\ two \in Seq(FurlChars)
      /\ two = Append(one, x) /\ three = Append(two, y)
  BY <1>4, <1>5
<1>7. PICK a1, a2 : a1 = Decoding(text, 2, 0) /\ a2 = Decoding(text, 1, h)
  BY Zenon
<1>8. a \in Decodings
  BY DecodedHolds, Zenon
<1>9. 0 \in -1 .. 2 /\ 1 \in -1 .. 2 /\ 2 \in -1 .. 2
  OBVIOUS
<1>10. DecodeChar(a, Percent) = a1
  BY <1>4, <1>7, <1>9, DecodeCharIs DEF IsDecoded
<1>11. DecodeChar(a1, x) = a2
  <2>1. h >= 0
    BY <1>2
  <2> QED
    BY <1>3, <1>4, <1>7, <1>9, <2>1, DecodeCharIs
<1>12. DecodeChar(a2, y) = Decoding(Append(text, c), 0, 0)
  <2>1. l >= 0
    BY <1>2
  <2>2. DecodeChar(a2, y) = Decoding(Append(text, 16 * h + l), 0, 0)
    BY <1>3, <1>4, <1>7, <1>9, <2>1, DecodeCharIs
  <2> QED
    BY <1>2, <2>2, Zenon
<1>13. DecodedFrom(a, one) = DecodeChar(a, Percent)
  BY <1>4, <1>5, <1>8, DecodeOne
<1>14. DecodedFrom(a, two) = DecodeChar(DecodedFrom(a, one), x)
  <2>1. DecodedFrom(a, Append(one, x)) = DecodeChar(DecodedFrom(a, one), x)
    BY <1>4, <1>6, <1>8, DecodeAppend, Zenon
  <2> QED
    BY <1>6, <2>1, Zenon
<1>15. DecodedFrom(a, three) = DecodeChar(DecodedFrom(a, two), y)
  <2>1. two \in Seq(FurlChars) /\ y \in FurlChars /\ a \in Decodings
    BY <1>4, <1>6, <1>8, Zenon
  <2>2. DecodedFrom(a, Append(two, y)) = DecodeChar(DecodedFrom(a, two), y)
    BY <2>1, DecodeAppend
  <2> QED
    BY <1>6, <2>2, Zenon
<1>16. DecodedFrom(a, three) = Decoding(Append(text, c), 0, 0)
  BY <1>10, <1>11, <1>12, <1>13, <1>14, <1>15, Zenon
<1> QED
  BY <1>5, <1>16, Zenon DEF IsDecoded

LEMMA DecodeUnit ==
  ASSUME NEW a, NEW text, NEW c, text \in Seq(FurlChars), IsDecoded(a, text), c \in FurlChars
  PROVE  IsDecoded(DecodedFrom(a, UnitOf(c)), Append(text, c))
<1>1. CASE UnitOf(c) = <<c>> /\ c # Percent
  BY <1>1, DecodePlain, Zenon
<1>2. CASE UnitOf(c) = <<Percent, HexDigit(c \div 16), HexDigit(c % 16)>>
  BY <1>2, DecodeCode, Zenon
<1> QED
  BY <1>1, <1>2, UnitFacts, Zenon

LEMMA StartDecoded == IsDecoded(DecodeStart, <<>>)
  BY DEF IsDecoded, DecodeStart, Decoding

LEMMA EncodedEmpty == UrlEncode(<<>>) = <<>>
<1>1. PICK s : s = <<>>
  OBVIOUS
<1>2. UnitsOf(s) = <<>>
  BY <1>1 DEF UnitsOf
<1>3. s \in Seq(FurlChars)
  BY <1>1
<1> QED
  BY <1>1, <1>2, <1>3, UnitsType, FlattenEmpty, Zenon

\* Whatever is encoded is decoded again.
LEMMA EncodedDecodes ==
  ASSUME NEW s, s \in Seq(FurlChars)
  PROVE  IsDecoded(DecodedFrom(DecodeStart, UrlEncode(s)), s)
<1>1. PICK last, first : last = Len(s) /\ first = 0
  OBVIOUS
<1>2. last \in Nat
  BY <1>1, SeqFacts
<1> DEFINE read(n) == DecodedFrom(DecodeStart, UrlEncode(SubSeq(s, 1, n)))
           G == {n \in Nat : IsDecoded(read(n), SubSeq(s, 1, n))}
<1>3. DecodeStart \in Decodings
  <2>1. <<>> \in Seq(FurlChars)
    OBVIOUS
  <2> QED
    BY <2>1, StartDecoded, DecodedHolds, Zenon
<1>4. 0 \in G
  <2>1. SubSeq(s, 1, 0) = <<>>
    OBVIOUS
  <2>2. DecodedFrom(DecodeStart, <<>>) = DecodeStart
    BY <1>3, DecodeNone, Zenon
  <2>3. read(0) = DecodeStart
    BY <2>1, <2>2, EncodedEmpty, Zenon
  <2>4. 0 \in Nat
    OBVIOUS
  <2> QED
    BY <2>1, <2>3, <2>4, StartDecoded, Zenon
<1>5. ASSUME NEW n \in 0 .. last - 1, n \in G
      PROVE  n + 1 \in G
  <2>1. PICK p, c, q : p = SubSeq(s, 1, n) /\ c = s[n + 1] /\ q = SubSeq(s, 1, n + 1)
    BY Zenon
  <2>2. p \in Seq(FurlChars) /\ q = Append(p, c)
    BY <1>1, <2>1, PrefixFacts
  <2>3. c \in FurlChars /\ n + 1 \in Nat
    BY <1>1, <1>2, <2>1, SeqFacts
  <2>4. IsDecoded(read(n), p)
    BY <1>5, <2>1, Zenon
  <2>5. PICK u, e : u = UnitOf(c) /\ e = UrlEncode(p)
    BY Zenon
  <2>6. UrlEncode(q) = e \o u
    BY <2>2, <2>3, <2>5, EncodedAppend, Zenon
  <2>7. e \in Seq(FurlChars) /\ u \in Seq(FurlChars)
    BY <2>2, <2>3, <2>5, EncodedType, UnitFacts, PlainAreChars, Zenon
  <2>8. DecodedFrom(DecodeStart, e \o u) = DecodedFrom(DecodedFrom(DecodeStart, e), u)
    BY <1>3, <2>7, DecodeConcat
  <2>9. read(n + 1) = DecodedFrom(read(n), u)
    BY <2>1, <2>5, <2>6, <2>8, Zenon
  <2> HIDE DEF read
  <2>10. IsDecoded(read(n + 1), q)
    BY <2>2, <2>3, <2>4, <2>5, <2>9, DecodeUnit, Zenon
  <2> QED
    BY <2>1, <2>3, <2>10, Zenon
<1> HIDE DEF G
<1>6. Inductive(G, first, last)
  BY <1>1, <1>2, <1>4, <1>5 DEF Inductive
<1>7. last \in G
  <2>1. \A n \in first .. last : n \in G
    BY <1>6, RangeInduction
  <2> QED
    BY <1>1, <1>2, <2>1
<1>8. SubSeq(s, 1, last) = s
  BY <1>1
<1> QED
  BY <1>7, <1>8, Zenon DEF G

LEMMA DecodesEncoded ==
  ASSUME NEW s, s \in Seq(FurlChars)
  PROVE  UrlDecode(UrlEncode(s)) = [ok |-> TRUE, text |-> s]
<1>1. PICK a : a = DecodedFrom(DecodeStart, UrlEncode(s))
  BY Zenon
<1>2. a.text = s /\ a.left = 0
  BY <1>1, EncodedDecodes, DecodedHolds, Zenon
<1>3. UrlDecode(UrlEncode(s)) = [ok |-> a.left = 0, text |-> a.text]
  BY <1>1, Zenon DEF UrlDecode, DecodedFrom
<1> QED
  BY <1>2, <1>3

LEMMA EncodedNotEmpty ==
  ASSUME NEW s, s \in Seq(FurlChars), s # <<>>
  PROVE  UrlEncode(s) # <<>>
<1>1. SUFFICES ASSUME UrlEncode(s) = <<>>
               PROVE  FALSE
  OBVIOUS
<1>2. PICK e : e = <<>>
  OBVIOUS
<1>3. e \in Seq(FurlChars)
  BY <1>2
<1>4. UrlDecode(UrlEncode(e)) = [ok |-> TRUE, text |-> e]
  BY <1>3, DecodesEncoded, Zenon
<1>5. UrlDecode(UrlEncode(s)) = [ok |-> TRUE, text |-> s]
  BY DecodesEncoded, Zenon
<1>6. [ok |-> TRUE, text |-> e] = [ok |-> TRUE, text |-> s]
  BY <1>1, <1>2, <1>4, <1>5, EncodedEmpty, Zenon
<1>7. e = s
  BY <1>6
<1> QED
  BY <1>2, <1>7

-----------------------------------------------------------------------------
(* furl: texts that are split at a character.                              *)

LEMMA OccursParts ==
  ASSUME NEW T, NEW a, NEW b, NEW c, a \in Seq(T), b \in Seq(T)
  PROVE  Occurs(c, a \o b) <=> Occurs(c, a) \/ Occurs(c, b)
<1>1. PICK s, m, n : s = a \o b /\ m = Len(a) /\ n = Len(b)
  BY Zenon
<1>2. /\ m \in Nat /\ n \in Nat /\ s \in Seq(T) /\ Len(s) = m + n
      /\ \A i \in 1 .. m : s[i] = a[i]
      /\ \A i \in 1 .. n : s[m + i] = b[i]
  BY <1>1, ConcatFacts
<1>3. DOMAIN s = 1 .. m + n /\ DOMAIN a = 1 .. m /\ DOMAIN b = 1 .. n
  BY <1>1, <1>2, SeqFacts
<1>4. ASSUME Occurs(c, s)
      PROVE  Occurs(c, a) \/ Occurs(c, b)
  <2>1. PICK i \in 1 .. m + n : s[i] = c
    BY <1>3, <1>4 DEF Occurs
  <2>2. CASE i <= m
    <3>1. i \in 1 .. m /\ a[i] = c
      BY <1>2, <2>1, <2>2
    <3> QED
      BY <1>3, <3>1 DEF Occurs
  <2>3. CASE i > m
    <3>1. PICK j : j = i - m
      OBVIOUS
    <3>2. j \in 1 .. n /\ i = m + j
      BY <1>2, <2>3, <3>1
    <3>3. b[j] = c
      BY <1>2, <2>1, <3>2
    <3> QED
      BY <1>3, <3>2, <3>3 DEF Occurs
  <2> QED
    BY <1>2, <2>2, <2>3
<1>5. ASSUME Occurs(c, a)
      PROVE  Occurs(c, s)
  <2>1. PICK i \in 1 .. m : a[i] = c
    BY <1>3, <1>5 DEF Occurs
  <2>2. i \in 1 .. m + n /\ s[i] = c
    <3>1. m \in Nat /\ n \in Nat /\ s[i] = a[i]
      BY <1>2, <2>1, Zenon
    <3> QED
      BY <2>1, <3>1
  <2> QED
    BY <1>3, <2>2 DEF Occurs
<1>6. ASSUME Occurs(c, b)
      PROVE  Occurs(c, s)
  <2>1. PICK i \in 1 .. n : b[i] = c
    BY <1>3, <1>6 DEF Occurs
  <2>2. PICK k : k = m + i
    OBVIOUS
  <2>3. m \in Nat /\ n \in Nat
    BY <1>2, Zenon
  <2>4. k \in 1 .. m + n
    BY <2>1, <2>2, <2>3
  <2>5. s[k] = c
    BY <1>2, <2>1, <2>2, Zenon
  <2> QED
    BY <1>3, <2>4, <2>5, Zenon DEF Occurs
<1> QED
  BY <1>1, <1>4, <1>5, <1>6, Zenon

LEMMA OccursOne ==
  ASSUME NEW c, NEW x
  PROVE  Occurs(c, <<x>>) <=> c = x
<1>1. DOMAIN <<x>> = {1} /\ <<x>>[1] = x
  OBVIOUS
<1> QED
  BY <1>1 DEF Occurs

LEMMA OccursNone ==
  ASSUME NEW c
  PROVE  ~Occurs(c, <<>>)
  BY DEF Occurs

SplitHas(s, a, c, b, T, m, n) ==
  /\ m \in Nat /\ n \in Nat /\ s \in Seq(T) /\ Len(s) = m + 1 + n
  /\ \A i \in 1 .. m : s[i] = a[i]
  /\ s[m + 1] = c
  /\ \A i \in 1 .. n : s[m + 1 + i] = b[i]

\* c stands between a, which does not contain it, and b.
SplitAt(s, a, c, b, T) ==
  /\ a \in Seq(T) /\ b \in Seq(T) /\ c \in T /\ s = (a \o <<c>>) \o b /\ ~Occurs(c, a)

LEMMA SplitElements ==
  ASSUME NEW s, NEW a, NEW c, NEW b, NEW T, NEW m, NEW n, SplitAt(s, a, c, b, T),
         m = Len(a), n = Len(b)
  PROVE  SplitHas(s, a, c, b, T, m, n)
<1>1. a \in Seq(T) /\ b \in Seq(T) /\ c \in T
  BY DEF SplitAt
<1>2. PICK one, front : one = <<c>> /\ front = a \o one
  BY Zenon
<1>3. one \in Seq(T) /\ Len(one) = 1 /\ one[1] = c
  BY <1>1, <1>2
<1>4. /\ front \in Seq(T) /\ Len(front) = m + 1 /\ m \in Nat
      /\ \A i \in 1 .. m : front[i] = a[i]
      /\ \A i \in 1 .. 1 : front[m + i] = one[i]
  BY <1>1, <1>2, <1>3, ConcatFacts
<1>5. s = front \o b
  BY <1>2, Zenon DEF SplitAt
<1>6. PICK k : k = m + 1
  OBVIOUS
<1>7. Len(front) = k /\ k \in Nat /\ front[k] = c
  BY <1>3, <1>4, <1>6
<1>8. /\ s \in Seq(T) /\ Len(s) = k + n /\ n \in Nat
      /\ \A i \in 1 .. k : s[i] = front[i]
      /\ \A i \in 1 .. n : s[k + i] = b[i]
  <2>1. /\ s \in Seq(T) /\ Len(s) = Len(front) + Len(b) /\ Len(b) \in Nat
        /\ \A i \in 1 .. Len(front) : s[i] = front[i]
        /\ \A i \in 1 .. Len(b) : s[Len(front) + i] = b[i]
    <3>1. front \in Seq(T) /\ b \in Seq(T)
      BY <1>1, <1>4, Zenon
    <3> QED
      BY <1>5, <3>1, ConcatFacts
  <2> QED
    BY <1>1, <1>6, <1>7, <2>1, Zenon
<1>9. \A i \in 1 .. m : i \in 1 .. k
  BY <1>4, <1>6
<1>10. k \in 1 .. k
  BY <1>4, <1>6
<1> QED
  BY <1>4, <1>6, <1>7, <1>8, <1>9, <1>10 DEF SplitHas

\* Two sequences with the same elements.
LEMMA SameElements ==
  ASSUME NEW T, NEW s, NEW t, s \in Seq(T), t \in Seq(T), Len(s) = Len(t),
         \A i \in 1 .. Len(s) : s[i] = t[i]
  PROVE  s = t
  OBVIOUS

LEMMA MinIs ==
  ASSUME NEW S, NEW x, S \subseteq Nat, x \in S, \A y \in S : x <= y
  PROVE  Min(S) = x
<1>1. \A z \in S : (\A y \in S : z <= y) => z = x
  OBVIOUS
<1> QED
  BY <1>1, Zenon DEF Min

LEMMA MaxIs ==
  ASSUME NEW S, NEW x, S \subseteq Nat, x \in S, \A y \in S : x >= y
  PROVE  Max(S) = x
<1>1. \A z \in S : (\A y \in S : z >= y) => z = x
  OBVIOUS
<1> QED
  BY <1>1, Zenon DEF Max

\* Where it is split, and what the parts are.
LEMMA SplitFirst ==
  ASSUME NEW s, NEW a, NEW c, NEW b, NEW T, SplitAt(s, a, c, b, T)
  PROVE  /\ s \in Seq(T) /\ Occurs(c, s) /\ FirstAt(c, s) = Len(a) + 1
         /\ Before(Len(a) + 1, s) = a /\ After(Len(a) + 1, s) = b
         /\ SubSeq(s, Len(a) + 1, Len(s)) = <<c>> \o b
<1>1. PICK m, n : m = Len(a) /\ n = Len(b)
  BY Zenon
<1>2. a \in Seq(T) /\ b \in Seq(T) /\ c \in T /\ ~Occurs(c, a)
  BY Zenon DEF SplitAt
<1>3. /\ m \in Nat /\ n \in Nat /\ s \in Seq(T) /\ Len(s) = m + 1 + n
      /\ \A i \in 1 .. m : s[i] = a[i]
      /\ s[m + 1] = c
      /\ \A i \in 1 .. n : s[m + 1 + i] = b[i]
  <2>1. SplitHas(s, a, c, b, T, m, n)
    BY <1>1, SplitElements, Zenon
  <2> QED
    BY <2>1 DEF SplitHas
<1>4. DOMAIN s = 1 .. m + 1 + n /\ DOMAIN a = 1 .. m
  BY <1>1, <1>2, <1>3, SeqFacts
<1>5. PICK S : S = {i \in DOMAIN s : s[i] = c}
  BY Zenon
<1>6. S \subseteq Nat /\ m + 1 \in S /\ \A i \in S : m + 1 <= i
  <2>1. ASSUME NEW i \in S
        PROVE  m + 1 <= i
    <3>1. i \in 1 .. m + 1 + n /\ s[i] = c
      BY <1>4, <1>5
    <3>2. i \notin 1 .. m
      BY <1>2, <1>3, <1>4, <3>1 DEF Occurs
    <3> QED
      BY <1>3, <3>1, <3>2
  <2>2. m + 1 \in DOMAIN s
    BY <1>3, <1>4
  <2>3. S \subseteq Nat
    BY <1>3, <1>4, <1>5
  <2> QED
    BY <1>3, <1>5, <2>1, <2>2, <2>3
<1>7. Min(S) = m + 1
  BY <1>6, MinIs
<1>8. Occurs(c, s)
  <2>1. m + 1 \in DOMAIN s
    BY <1>5, <1>6
  <2> QED
    BY <1>3, <2>1 DEF Occurs
<1>9. Before(m + 1, s) = a
  <2>1. PICK p, k : p = SubSeq(s, 1, m) /\ k = 1 + n
    BY Zenon
  <2>2. Len(s) = m + k /\ m <= m + k /\ k = (m + k) - m
    BY <1>3, <2>1
  <2>3. p \in Seq(T) /\ Len(p) = m /\ \A i \in 1 .. m : p[i] = s[i]
    BY <1>3, <2>1, <2>2, Parts
  <2>4. p = a
    BY <1>1, <1>2, <1>3, <2>3, SameElements
  <2>5. (m + 1) - 1 = m
    BY <1>3
  <2> QED
    BY <2>1, <2>4, <2>5 DEF Before
<1>10. After(m + 1, s) = b
  <2>1. PICK k : k = m + 1
    OBVIOUS
  <2>2. k \in Nat /\ Len(s) = k + n /\ k <= k + n /\ n = (k + n) - k
    BY <1>3, <2>1
  <2>3. PICK p : p = SubSeq(s, k + 1, k + n)
    BY Zenon
  <2>4. p \in Seq(T) /\ Len(p) = n /\ \A i \in 1 .. n : p[i] = s[k + i]
    BY <1>3, <2>2, <2>3, Parts
  <2>5. p = b
    <3>1. \A i \in 1 .. n : s[k + i] = b[i]
      BY <1>3, <2>1
    <3>2. \A i \in 1 .. Len(p) : p[i] = b[i]
      BY <2>4, <3>1
    <3> QED
      BY <1>1, <1>2, <2>4, <3>2, SameElements
  <2> QED
    BY <2>1, <2>2, <2>3, <2>5, Zenon DEF After
<1>11. SubSeq(s, m + 1, Len(s)) = <<c>> \o b
  <2>1. PICK p, q, k, one : /\ p = SubSeq(s, m + 1, Len(s)) /\ q = one \o b /\ k = 1 + n
                            /\ one = <<c>>
    BY Zenon
  <2>2. Len(s) = m + k /\ m <= m + k /\ k = (m + k) - m
    BY <1>3, <2>1
  <2>3. p \in Seq(T) /\ Len(p) = k /\ \A i \in 1 .. k : p[i] = s[m + i]
    <3>1. p = SubSeq(s, m + 1, m + k)
      BY <2>1, <2>2, Zenon
    <3> QED
      BY <1>3, <2>2, <3>1, Parts
  <2>4. one \in Seq(T) /\ Len(one) = 1 /\ one[1] = c
    BY <1>2, <2>1
  <2>5. /\ q \in Seq(T) /\ Len(q) = 1 + n
        /\ \A i \in 1 .. 1 : q[i] = one[i]
        /\ \A i \in 1 .. n : q[1 + i] = b[i]
    BY <1>1, <1>2, <2>1, <2>4, ConcatFacts
  <2>6. ASSUME NEW i \in 1 .. k
        PROVE  p[i] = q[i]
    <3>1. CASE i = 1
      BY <1>3, <2>3, <2>4, <2>5, <3>1
    <3>2. CASE i # 1
      <4>1. PICK j : j = i - 1
        OBVIOUS
      <4>2. j \in 1 .. n /\ i = 1 + j /\ m + i = m + 1 + j
        BY <1>3, <2>1, <3>2, <4>1
      <4>3. p[i] = s[m + 1 + j] /\ q[i] = b[j]
        BY <2>3, <2>5, <4>2
      <4> QED
        BY <1>3, <4>2, <4>3
    <3> QED
      BY <3>1, <3>2
  <2>7. p = q
    BY <2>1, <2>3, <2>5, <2>6, SameElements
  <2> QED
    BY <2>1, <2>7
<1> QED
  BY <1>1, <1>3, <1>5, <1>7, <1>8, <1>9, <1>10, <1>11, Zenon DEF FirstAt

\* There is no other.
LEMMA SplitFinal ==
  ASSUME NEW s, NEW a, NEW c, NEW b, NEW T, SplitAt(s, a, c, b, T), ~Occurs(c, b)
  PROVE  FinalAt(c, s) = Len(a) + 1
<1>1. PICK m, n : m = Len(a) /\ n = Len(b)
  BY Zenon
<1>2. b \in Seq(T)
  BY Zenon DEF SplitAt
<1>3. /\ m \in Nat /\ n \in Nat /\ s \in Seq(T) /\ Len(s) = m + 1 + n
      /\ s[m + 1] = c
      /\ \A i \in 1 .. n : s[m + 1 + i] = b[i]
  <2>1. SplitHas(s, a, c, b, T, m, n)
    BY <1>1, SplitElements, Zenon
  <2> QED
    BY <2>1 DEF SplitHas
<1>4. DOMAIN s = 1 .. m + 1 + n /\ DOMAIN b = 1 .. n
  BY <1>1, <1>2, <1>3, SeqFacts
<1>5. PICK S : S = {i \in DOMAIN s : s[i] = c}
  BY Zenon
<1>6. S \subseteq Nat /\ m + 1 \in S /\ \A i \in S : m + 1 >= i
  <2>1. ASSUME NEW i \in S, m + 1 < i
        PROVE  FALSE
    <3>1. PICK j : j = i - (m + 1)
      OBVIOUS
    <3>2. i \in 1 .. m + 1 + n /\ s[i] = c
      BY <1>4, <1>5
    <3>3. j \in 1 .. n /\ i = m + 1 + j
      BY <1>3, <2>1, <3>1, <3>2
    <3>4. b[j] = c
      BY <1>3, <3>2, <3>3
    <3> QED
      BY <1>4, <3>3, <3>4 DEF Occurs
  <2>2. m + 1 \in DOMAIN s
    BY <1>3, <1>4
  <2>3. S \subseteq Nat
    BY <1>3, <1>4, <1>5
  <2>4. m + 1 \in S
    BY <1>3, <1>5, <2>2
  <2>5. \A i \in S : m + 1 >= i
    BY <1>3, <2>1, <2>3
  <2> QED
    BY <2>3, <2>4, <2>5
<1>7. Max(S) = m + 1
  BY <1>6, MaxIs
<1> QED
  BY <1>1, <1>5, <1>7, Zenon DEF FinalAt

\* How sequences are put end to end does not matter.
Concats(T) ==
  /\ \A a, b \in Seq(T) : a \o b \in Seq(T)
  /\ \A a, b, c \in Seq(T) : (a \o b) \o c = a \o (b \o c)

LEMMA Associative ==
  ASSUME NEW T
  PROVE  Concats(T)
<1>1. \A a, b, c \in Seq(T) : (a \o b) \o c = a \o (b \o c)
  BY ConcatAssociative
<1>2. \A a, b \in Seq(T) : a \o b \in Seq(T)
  BY ConcatFacts
<1> QED
  BY <1>1, <1>2, Zenon DEF Concats

Regroup(a, b, c, d) == (a \o (b \o c)) \o d = (a \o b) \o (c \o d)
Regroups(T) == \A a, b, c, d \in Seq(T) : Regroup(a, b, c, d)

LEMMA Regrouped ==
  ASSUME NEW T
  PROVE  Regroups(T)
<1>1. SUFFICES ASSUME NEW a \in Seq(T), NEW b \in Seq(T), NEW c \in Seq(T), NEW d \in Seq(T)
               PROVE  Regroup(a, b, c, d)
  BY Zenon DEF Regroups
<1>2. Concats(T)
  BY Associative
<1>3. (a \o b) \o c = a \o (b \o c)
  BY <1>2, Zenon DEF Concats
<1>4. ((a \o b) \o c) \o d = (a \o b) \o (c \o d)
  <2>1. PICK x : x = a \o b
    BY Zenon
  <2>2. x \in Seq(T)
    BY <1>2, <2>1, Zenon DEF Concats
  <2>3. (x \o c) \o d = x \o (c \o d)
    BY <1>2, <2>2, ZenonT(40) DEF Concats
  <2> QED
    BY <2>1, <2>3, Zenon
<1> QED
  BY <1>3, <1>4, Zenon DEF Regroup

\* What follows the first part.
LEMMA AfterFirst ==
  ASSUME NEW T, NEW a, NEW b, NEW m, a \in Seq(T), b \in Seq(T), m = Len(a)
  PROVE  After(m, a \o b) = b
<1>1. PICK s, n : s = a \o b /\ n = Len(b)
  BY Zenon
<1>2. /\ m \in Nat /\ n \in Nat /\ s \in Seq(T) /\ Len(s) = m + n
      /\ \A i \in 1 .. n : s[m + i] = b[i]
  BY <1>1, ConcatFacts
<1>3. PICK p : p = SubSeq(s, m + 1, m + n)
  BY Zenon
<1>4. m <= m + n /\ n = (m + n) - m
  BY <1>2
<1>5. p \in Seq(T) /\ Len(p) = n /\ \A i \in 1 .. n : p[i] = s[m + i]
  BY <1>2, <1>3, <1>4, Parts
<1>6. p = b
  BY <1>1, <1>2, <1>5, SameElements
<1> QED
  BY <1>1, <1>2, <1>3, <1>6, Zenon DEF After

\* A text after a protocol and "://".
SchemeText(s, p, rest) == s = (p \o <<Colon, Slash, Slash>>) \o rest

SchemeAt(s, p, rest, m) ==
  /\ SchemeEnds(s) # {} /\ Min(SchemeEnds(s)) = m + 1
  /\ Before(m + 1, s) = p /\ After((m + 1) + 2, s) = rest

LEMMA SchemeFirst ==
  ASSUME NEW p, NEW rest, NEW s, NEW m, p \in Seq(FurlChars), rest \in Seq(FurlChars),
         ~Occurs(Colon, p), SchemeText(s, p, rest), m = Len(p)
  PROVE  SchemeAt(s, p, rest, m)
<1>1. PICK sep, front, two, tail, one :
        /\ sep = <<Colon, Slash, Slash>> /\ front = p \o sep /\ two = <<Slash, Slash>>
        /\ tail = two \o rest /\ one = <<Colon>>
  BY Zenon
<1>2. Colon \in FurlChars /\ Slash \in FurlChars
  BY DEF Colon, Slash, FurlChars
<1>3. /\ sep \in Seq(FurlChars) /\ Len(sep) = 3 /\ sep[1] = Colon /\ sep[2] = Slash
      /\ sep[3] = Slash
  BY <1>1, <1>2
<1>4. two \in Seq(FurlChars) /\ one \in Seq(FurlChars) /\ sep = one \o two
  BY <1>1, <1>2
<1>5. /\ m \in Nat /\ front \in Seq(FurlChars) /\ Len(front) = m + 3
      /\ \A i \in 1 .. 3 : front[m + i] = sep[i]
  <2>1. /\ Len(p) \in Nat /\ front \in Seq(FurlChars) /\ Len(front) = Len(p) + Len(sep)
        /\ \A i \in 1 .. Len(sep) : front[Len(p) + i] = sep[i]
    BY <1>1, <1>3, ConcatFacts
  <2> QED
    BY <1>3, <2>1
<1>6. s = front \o rest
  BY <1>1, Zenon DEF SchemeText
<1>7. /\ s \in Seq(FurlChars) /\ Len(rest) \in Nat /\ Len(s) = (m + 3) + Len(rest)
      /\ \A i \in 1 .. m + 3 : s[i] = front[i]
  <2>1. /\ s \in Seq(FurlChars) /\ Len(rest) \in Nat /\ Len(s) = Len(front) + Len(rest)
        /\ \A i \in 1 .. Len(front) : s[i] = front[i]
    <3>1. front \in Seq(FurlChars) /\ rest \in Seq(FurlChars)
      BY <1>5
    <3> QED
      BY <1>6, <3>1, ConcatFacts
  <2> QED
    BY <1>5, <2>1, Zenon
<1>8. s[m + 1] = Colon /\ s[m + 2] = Slash /\ s[m + 3] = Slash
  <2>1. 1 \in 1 .. 3 /\ 2 \in 1 .. 3 /\ 3 \in 1 .. 3
    OBVIOUS
  <2>2. m + 1 \in 1 .. m + 3 /\ m + 2 \in 1 .. m + 3 /\ m + 3 \in 1 .. m + 3
    BY <1>5
  <2> QED
    BY <1>3, <1>5, <1>7, <2>1, <2>2, Zenon
<1>9. SplitAt(s, p, Colon, tail, FurlChars)
  <2>1. tail \in Seq(FurlChars)
    BY <1>1, <1>4, ConcatFacts
  <2>2. (p \o (one \o two)) \o rest = (p \o one) \o (two \o rest)
    <3>1. Regroups(FurlChars)
      BY Regrouped, Zenon
    <3>2. p \in Seq(FurlChars) /\ one \in Seq(FurlChars) /\ two \in Seq(FurlChars)
      BY <1>4
    <3>3. Regroup(p, one, two, rest)
      BY <3>1, <3>2, Zenon DEF Regroups
    <3> QED
      BY <3>3, Zenon DEF Regroup
  <2>3. s = (p \o <<Colon>>) \o tail
    BY <1>1, <1>4, <1>6, <2>2, Zenon
  <2> QED
    BY <1>2, <2>1, <2>3, Zenon DEF SplitAt
<1>10. Before(m + 1, s) = p
  <2>1. Before(Len(p) + 1, s) = p
    BY <1>9, SplitFirst
  <2> QED
    BY <2>1, Zenon
<1>11. After((m + 1) + 2, s) = rest
  <2>1. (m + 1) + 2 = m + 3
    BY <1>5
  <2> QED
    BY <1>5, <1>6, <2>1, AfterFirst, Zenon
<1>12. PICK S : S = SchemeEnds(s)
  BY Zenon
<1>13. S = {i \in 1 .. Len(s) - 2 : s[i] = Colon /\ s[i + 1] = Slash /\ s[i + 2] = Slash}
  BY <1>12, Zenon DEF SchemeEnds
<1>14. m + 1 \in S
  <2>1. m + 1 \in 1 .. Len(s) - 2 /\ (m + 1) + 1 = m + 2 /\ (m + 1) + 2 = m + 3
    BY <1>5, <1>7
  <2> QED
    BY <1>8, <1>13, <2>1
<1>15. ASSUME NEW i \in S, i < m + 1
       PROVE  FALSE
  <2>1. i \in Nat /\ i \in 1 .. m /\ s[i] = Colon
    BY <1>5, <1>7, <1>13, <1>15
  <2>2. p[i] = Colon
    <3>1. SplitHas(s, p, Colon, tail, FurlChars, m, Len(tail))
      BY <1>9, SplitElements, Zenon
    <3> QED
      BY <2>1, <3>1 DEF SplitHas
  <2>3. i \in DOMAIN p
    BY <2>1, SeqFacts
  <2> QED
    BY <2>2, <2>3, Zenon DEF Occurs
<1>16. S \subseteq Nat
  BY <1>13
<1>17. Min(S) = m + 1
  <2>1. \A i \in S : m + 1 <= i
    BY <1>5, <1>15, <1>16
  <2> QED
    BY <1>14, <1>16, <2>1, MinIs
<1> QED
  BY <1>10, <1>11, <1>12, <1>14, <1>17, Zenon DEF SchemeAt

-----------------------------------------------------------------------------
(* furl: ports.                                                            *)

LEMMA PortNumber ==
  ASSUME NEW port, port \in Ports
  PROVE  port \in Nat /\ port < 100000
<1>1. MaxPort \in Nat /\ MaxPort < 100000
  BY DEF MaxPort
<1>2. port \in Nat /\ port <= MaxPort
  BY <1>1 DEF Ports
<1> QED
  BY <1>1, <1>2

LEMMA TensAre ==
  /\ Tens[1] = 1 /\ Tens[2] = 10 /\ Tens[3] = 100
  /\ Tens[4] = 1000 /\ Tens[5] = 10000 /\ Tens[6] = 100000
<1>1. Tens[1] = 1 /\ Tens[2] = 10
  BY DEF Tens
<1>2. Tens[3] = 100 /\ Tens[4] = 1000
  BY DEF Tens
<1>3. Tens[5] = 10000 /\ Tens[6] = 100000
  BY DEF Tens
<1> QED
  BY <1>1, <1>2, <1>3

LEMMA TensStep ==
  ASSUME NEW port, NEW k, port \in Ports, k \in 1 .. 5
  PROVE  /\ port \div Tens[k] \in Nat /\ (port \div Tens[k]) % 10 \in 0 .. 9
         /\ 10 * (port \div Tens[k + 1]) + ((port \div Tens[k]) % 10) = port \div Tens[k]
<1>1. port \in Nat
  BY PortNumber
<1>2. /\ Tens[1] = 1 /\ Tens[2] = 10 /\ Tens[3] = 100 /\ Tens[4] = 1000 /\ Tens[5] = 10000
      /\ Tens[6] = 100000
  BY TensAre
<1>3. CASE k = 1
  <2>1. Tens[k] = 1 /\ Tens[k + 1] = 10
    BY <1>2, <1>3
  <2> QED
    BY <1>1, <2>1
<1>4. CASE k = 2
  <2>1. Tens[k] = 10 /\ Tens[k + 1] = 100
    BY <1>2, <1>4
  <2> QED
    BY <1>1, <2>1
<1>5. CASE k = 3
  <2>1. Tens[k] = 100 /\ Tens[k + 1] = 1000
    BY <1>2, <1>5
  <2> QED
    BY <1>1, <2>1
<1>6. CASE k = 4
  <2>1. Tens[k] = 1000 /\ Tens[k + 1] = 10000
    BY <1>2, <1>6
  <2> QED
    BY <1>1, <2>1
<1>7. CASE k = 5
  <2>1. Tens[k] = 10000 /\ Tens[k + 1] = 100000
    BY <1>2, <1>7
  <2> QED
    BY <1>1, <2>1
<1> QED
  BY <1>3, <1>4, <1>5, <1>6, <1>7

LEMMA PortLength ==
  ASSUME NEW port, port \in Ports
  PROVE  \E length \in 1 .. 5 :
           /\ port \div Tens[length + 1] = 0
           /\ PortText(port) = [i \in 1 .. length |-> 48 + ((port \div Tens[length - i + 1]) % 10)]
<1>1. PICK S : S = {n \in 1 .. 5 : port < Tens[n + 1]}
  BY Zenon
<1>2. /\ Tens[2] = 10 /\ Tens[3] = 100 /\ Tens[4] = 1000 /\ Tens[5] = 10000
      /\ Tens[6] = 100000
  BY TensAre
<1>3. 5 \in S /\ S \subseteq Nat /\ S \subseteq 1 .. 5
  <2>1. 5 \in 1 .. 5 /\ 5 + 1 = 6 /\ port < 100000
    BY PortNumber
  <2>2. 5 \in S
    BY <1>1, <1>2, <2>1
  <2> QED
    BY <1>1, <2>2
<1>4. PICK length \in S : \A n \in S : length <= n
  <2>1. \E x \in 1 .. 5 : x \in S /\ \A y \in S : x <= y
    <3>1. \A y \in S : y = 1 \/ y = 2 \/ y = 3 \/ y = 4 \/ y = 5
      BY <1>3
    <3>2. CASE 1 \in S
      BY <3>1, <3>2
    <3>3. CASE 1 \notin S /\ 2 \in S
      BY <3>1, <3>3
    <3>4. CASE 1 \notin S /\ 2 \notin S /\ 3 \in S
      BY <3>1, <3>4
    <3>5. CASE 1 \notin S /\ 2 \notin S /\ 3 \notin S
      <4>1. \A y \in S : y = 4 \/ y = 5
        BY <3>1, <3>5
      <4> QED
        BY <1>3, <4>1
    <3> QED
      BY <3>2, <3>3, <3>4, <3>5, Zenon
  <2> QED
    BY <2>1
<1>5. Min(S) = length
  BY <1>3, <1>4, MinIs
<1>6. port \div Tens[length + 1] = 0
  <2>1. length \in 1 .. 5 /\ port < Tens[length + 1]
    BY <1>1, <1>3, <1>4, Zenon
  <2>3. Tens[length + 1] \in Nat
    <3>1. length = 1 \/ length = 2 \/ length = 3 \/ length = 4 \/ length = 5
      BY <2>1
    <3>2. 1 + 1 = 2 /\ 2 + 1 = 3 /\ 3 + 1 = 4 /\ 4 + 1 = 5 /\ 5 + 1 = 6
      OBVIOUS
    <3>3. 10 \in Nat /\ 100 \in Nat /\ 1000 \in Nat /\ 10000 \in Nat /\ 100000 \in Nat
      OBVIOUS
    <3> QED
      BY <1>2, <3>1, <3>2, <3>3
  <2>2. \A b \in Nat : port < b => port \div b = 0
    BY PortNumber
  <2> QED
    BY <2>1, <2>2, <2>3, Zenon
<1>7. PortText(port) = [i \in 1 .. length |-> 48 + ((port \div Tens[length - i + 1]) % 10)]
  BY <1>1, <1>5, Zenon DEF PortText
<1> QED
  BY <1>3, <1>4, <1>6, <1>7, Zenon

LEMMA PortStepIs ==
  ASSUME NEW n, NEW c, n \in Nat, c \in FurlChars
  PROVE  /\ PortStep[<<n, c>>] \in Nat
         /\ c \in 48 .. 57 => PortStep[<<n, c>>] = 10 * n + (c - 48)
<1>1. <<n, c>> \in Nat \X FurlChars
  BY Zenon
<1>2. PortStep[<<n, c>>] = IF IsDigit(c) THEN 10 * n + (c - 48) ELSE n
  BY <1>1 DEF PortStep
<1> QED
  BY <1>2 DEF IsDigit, FurlChars

\* The number that is read is the one that was written.
LEMMA PortRead ==
  ASSUME NEW port, port \in Ports
  PROVE  /\ PortText(port) \in Seq(48 .. 57) /\ PortText(port) # <<>>
         /\ ParsePort(PortText(port)) = port
<1>1. PICK s : s = PortText(port)
  BY Zenon
<1>2. PICK length \in 1 .. 5 :
        /\ port \div Tens[length + 1] = 0
        /\ s = [i \in 1 .. length |-> 48 + ((port \div Tens[length - i + 1]) % 10)]
  BY <1>1, PortLength, Zenon
<1>3. ASSUME NEW i \in 1 .. length
      PROVE  /\ length - i + 1 \in 1 .. 5
             /\ s[i] = 48 + ((port \div Tens[length - i + 1]) % 10) /\ s[i] \in 48 .. 57
  <2>1. length - i + 1 \in 1 .. 5
    OBVIOUS
  <2>2. PICK d : d = (port \div Tens[length - i + 1]) % 10
    OBVIOUS
  <2>3. d \in 0 .. 9
    BY <2>1, <2>2, TensStep, Zenon
  <2>4. s[i] = 48 + d
    BY <1>2, <2>2
  <2>5. 48 + d \in 48 .. 57
    BY <2>3
  <2> QED
    BY <2>1, <2>2, <2>4, <2>5, Zenon
<1>4. s \in Seq(48 .. 57) /\ Len(s) = length
  <2>1. s \in [1 .. length -> 48 .. 57]
    BY <1>2, <1>3
  <2> QED
    BY <2>1, FunctionIsSeq
<1>5. s \in Seq(FurlChars)
  <2>1. 48 .. 57 \subseteq FurlChars
    BY DEF FurlChars
  <2> QED
    BY <1>4, <2>1
<1>6. StepOf(PortStep, Nat, FurlChars)
  BY PortStepIs, Zenon DEF StepOf
<1>7. PICK f : Walked(f, PortStep, 0, s, Nat)
  <2>1. 0 \in Nat
    OBVIOUS
  <2> QED
    BY <1>5, <1>6, <2>1, WalkedFunction, Zenon
<1> DEFINE G == {n \in Nat : n <= length => f[n] = port \div Tens[length - n + 1]}
<1>8. 0 \in G
  <2>1. f[0] = 0 /\ length - 0 + 1 = length + 1
    BY <1>7 DEF Walked
  <2> QED
    BY <1>2, <2>1
<1>9. ASSUME NEW n \in 0 .. length - 1, n \in G
      PROVE  n + 1 \in G
  <2>1. PICK k : k = length - n
    OBVIOUS
  <2>2. k \in 1 .. 5 /\ length - n + 1 = k + 1 /\ length - (n + 1) + 1 = k /\ n + 1 \in 1 .. length
    BY <2>1
  <2>3. f[n] = port \div Tens[k + 1] /\ f[n] \in Nat
    BY <1>4, <1>7, <1>9, <2>2 DEF Walked
  <2>4. s[n + 1] = 48 + ((port \div Tens[k]) % 10) /\ s[n + 1] \in 48 .. 57
    BY <1>3, <2>2
  <2>5. f[n + 1] = PortStep[<<f[n], s[n + 1]>>]
    BY <1>4, <1>7 DEF Walked
  <2>6. PICK c, d : c = s[n + 1] /\ d = (port \div Tens[k]) % 10
    BY Zenon
  <2>7. c \in FurlChars /\ c \in 48 .. 57 /\ c = 48 + d
    BY <2>4, <2>6 DEF FurlChars
  <2>8. f[n + 1] = 10 * f[n] + (c - 48)
    BY <2>3, <2>5, <2>6, <2>7, PortStepIs
  <2>9. 10 * f[n] + d = port \div Tens[k] /\ d \in 0 .. 9
    BY <2>2, <2>3, <2>6, TensStep
  <2>10. f[n + 1] = port \div Tens[k]
    BY <2>3, <2>7, <2>8, <2>9
  <2> QED
    BY <2>2, <2>10
<1> HIDE DEF G
<1>10. PICK first : first = 0
  OBVIOUS
<1>11. Inductive(G, first, length)
  BY <1>8, <1>9, <1>10 DEF Inductive
<1>12. length \in G
  <2>1. \A n \in first .. length : n \in G
    BY <1>11, RangeInduction
  <2> QED
    BY <1>10, <2>1
<1>13. f[length] = port
  <2>1. f[length] = port \div Tens[1]
    <3>1. length <= length /\ length - length + 1 = 1
      OBVIOUS
    <3> QED
      BY <1>12, <3>1 DEF G
  <2>2. Tens[1] = 1
    BY TensAre
  <2>3. port \in Nat
    BY PortNumber
  <2>4. port \div 1 = port
    BY <2>3
  <2> QED
    BY <2>1, <2>2, <2>4, Zenon
<1>14. Through(PortStep, 0, s) = port
  BY <1>4, <1>7, <1>13, Zenon DEF Walked
<1>15. s # <<>> /\ \A i \in DOMAIN s : IsDigit(s[i])
  BY <1>3, <1>4 DEF IsDigit
<1>16. ParsePort(s) = port
  BY <1>14, <1>15, Zenon DEF ParsePort
<1> QED
  BY <1>1, <1>4, <1>15, <1>16, Zenon

-----------------------------------------------------------------------------
(* furl: parameters.                                                       *)

LEMMA OccursNot ==
  ASSUME NEW T, NEW s, NEW c, s \in Seq(T), c \notin T
  PROVE  ~Occurs(c, s)
<1>1. DOMAIN s = 1 .. Len(s) /\ \A i \in 1 .. Len(s) : s[i] \in T
  BY SeqFacts
<1> QED
  BY <1>1, Zenon DEF Occurs

\* The characters of a query.
QueryChars == PlainChars \cup {Ampersand, Equals}

LEMMA Reserved ==
  /\ QueryChars \subseteq FurlChars /\ PlainChars \subseteq FurlChars
  /\ Equals \notin PlainChars /\ Ampersand \notin PlainChars
  /\ Ampersand # Equals /\ Hash \notin QueryChars
  /\ Ampersand \in FurlChars /\ Equals \in FurlChars
  BY DEF QueryChars, PlainChars, FurlChars, IsUnreserved, IsDigit, IsAlpha, Percent, Hash,
         Ampersand, Equals

LEMMA ParamTextFacts ==
  ASSUME NEW p, p \in Params
  PROVE  /\ p.name \in Seq(FurlChars) /\ p.value \in Seq(FurlChars)
         /\ ParamText(p) \in Seq(PlainChars \cup {Equals})
         /\ p.name # <<>> \/ p.equal => ParamText(p) # <<>>
         /\ SplitParam(ParamText(p)) = [ok |-> TRUE, param |-> p]
<1>1. PICK name \in Seq(FurlChars), value \in Seq(FurlChars) :
        /\ p.name = name /\ p.value = value
        /\ \/ p = Param(name, TRUE, value) /\ p.equal = TRUE
           \/ p = Param(name, FALSE, <<>>) /\ p.equal = FALSE
  BY DEF Params, Param
<1>2. PICK n, v, t : n = UrlEncode(name) /\ v = UrlEncode(value) /\ t = ParamText(p)
  BY Zenon
<1>3. n \in Seq(PlainChars) /\ n \in Seq(FurlChars) /\ v \in Seq(PlainChars) /\ v \in Seq(FurlChars)
  BY <1>2, EncodedType, Zenon
<1>4. /\ UrlDecode(n) = [ok |-> TRUE, text |-> name]
      /\ UrlDecode(v) = [ok |-> TRUE, text |-> value]
  BY <1>2, DecodesEncoded, Zenon
<1>5. ~Occurs(Equals, n)
  BY <1>3, OccursNot, Reserved, Zenon
<1>6. PICK T : T = PlainChars \cup {Equals}
  BY Zenon
<1>7. n \in Seq(T) /\ v \in Seq(T) /\ Equals \in T
  <2>1. PlainChars \subseteq T /\ Equals \in T
    BY <1>6
  <2> QED
    BY <1>3, <2>1
<1>8. CASE p = Param(name, TRUE, value) /\ p.equal = TRUE
  <2>1. PICK one, tail : one = <<Equals>> /\ tail = one \o v
    BY Zenon
  <2>2. t = n \o tail
    BY <1>1, <1>2, <1>8, <2>1 DEF ParamText
  <2>3. one \in Seq(T) /\ one \in Seq(FurlChars) /\ one # <<>>
    BY <1>7, <2>1, Reserved
  <2>4. tail \in Seq(T) /\ tail # <<>>
    BY <1>7, <2>1, <2>3, ConcatFacts
  <2>5. t \in Seq(T) /\ t # <<>>
    BY <1>7, <2>2, <2>4, ConcatFacts
  <2>6. SplitAt(t, n, Equals, v, FurlChars)
    <3>1. Concats(FurlChars)
      BY Associative, Zenon
    <3>2. (n \o one) \o v = n \o tail
      BY <1>3, <2>1, <2>3, <3>1, ZenonT(40) DEF Concats
    <3> QED
      BY <1>3, <1>5, <2>1, <2>2, <3>2, Reserved, Zenon DEF SplitAt
  <2>7. /\ Occurs(Equals, t) /\ Before(FirstAt(Equals, t), t) = n
        /\ After(FirstAt(Equals, t), t) = v
    BY <2>6, SplitFirst
  <2>8. PICK a, b : a = UrlDecode(n) /\ b = UrlDecode(v)
    BY Zenon
  <2>9. a.ok = TRUE /\ a.text = name /\ b.ok = TRUE /\ b.text = value
    BY <1>4, <2>8
  <2>10. SplitParam(t) = [ok |-> a.ok /\ b.ok, param |-> Param(a.text, TRUE, b.text)]
    BY <2>7, <2>8, Zenon DEF SplitParam
  <2>11. SplitParam(t) = [ok |-> TRUE, param |-> p]
    BY <1>8, <2>9, <2>10
  <2> QED
    BY <1>1, <1>2, <1>6, <2>5, <2>11, Zenon
<1>9. CASE p = Param(name, FALSE, <<>>) /\ p.equal = FALSE
  <2>1. t = n \o <<>>
    BY <1>1, <1>2, <1>9 DEF ParamText
  <2>2. t = n
    BY <1>3, <2>1, ConcatFacts
  <2>3. name # <<>> => n # <<>>
    BY <1>2, EncodedNotEmpty, Zenon
  <2>4. PICK a : a = UrlDecode(n)
    BY Zenon
  <2>5. a.ok = TRUE /\ a.text = name
    BY <1>4, <2>4
  <2>6. SplitParam(t) = [ok |-> a.ok, param |-> Param(a.text, FALSE, <<>>)]
    BY <1>5, <2>2, <2>4, Zenon DEF SplitParam
  <2>7. SplitParam(t) = [ok |-> TRUE, param |-> p]
    BY <1>9, <2>5, <2>6
  <2>8. p.equal => FALSE
    BY <1>9
  <2> QED
    BY <1>1, <1>2, <1>6, <1>7, <2>2, <2>3, <2>7, <2>8, Zenon
<1> QED
  BY <1>1, <1>8, <1>9, Zenon

-----------------------------------------------------------------------------
(* furl: queries.                                                          *)

Itemizing(items, item) == [items |-> items, item |-> item]

LEMMA ItemizingIs ==
  ASSUME NEW items, NEW item, NEW c, items \in Seq(Seq(FurlChars)), item \in Seq(FurlChars),
         c \in FurlChars
  PROVE  /\ Itemizing(items, item) \in Itemizings
         /\ KeepItem(Itemizing(items, item)) = IF item = <<>> THEN items ELSE Append(items, item)
         /\ c = Ampersand => ItemStep[<<Itemizing(items, item), c>>]
                               = Itemizing(KeepItem(Itemizing(items, item)), <<>>)
         /\ c # Ampersand => ItemStep[<<Itemizing(items, item), c>>]
                               = Itemizing(items, Append(item, c))
<1>1. PICK a, B : a = Itemizing(items, item) /\ B = Seq(FurlChars)
  BY Zenon
<1>2. a.items = items /\ a.item = item
  BY <1>1 DEF Itemizing
<1>3. a \in Itemizings
  <2>1. a \in [items : Seq(B), item : B]
    BY <1>1 DEF Itemizing
  <2> QED
    BY <1>1, <2>1, Zenon DEF Itemizings
<1>4. <<a, c>> \in Itemizings \X FurlChars
  BY <1>3, Zenon
<1>5. ItemStep[<<a, c>>] = ItemChar(a, c)
  BY <1>4 DEF ItemStep
<1>6. ItemChar(a, c) = IF c = Ampersand THEN Itemizing(KeepItem(a), <<>>)
                       ELSE Itemizing(items, Append(item, c))
  BY <1>2, Zenon DEF ItemChar, Itemizing
<1>7. KeepItem(a) = IF item = <<>> THEN items ELSE Append(items, item)
  BY <1>2, Zenon DEF KeepItem
<1> QED
  BY <1>1, <1>3, <1>5, <1>6, <1>7, Zenon

LEMMA ItemStepType == StepOf(ItemStep, Itemizings, FurlChars)
<1>1. SUFFICES ASSUME NEW a \in Itemizings, NEW c \in FurlChars
               PROVE  ItemStep[<<a, c>>] \in Itemizings
  BY Zenon DEF StepOf
<1>2. PICK B : B = Seq(FurlChars)
  BY Zenon
<1>3. PICK items \in Seq(B), item \in B : a = Itemizing(items, item)
  <2>1. a \in [items : Seq(B), item : B]
    BY <1>1, <1>2, Zenon DEF Itemizings
  <2> QED
    BY <2>1 DEF Itemizing
<1>4. PICK kept : kept = KeepItem(a)
  BY Zenon
<1>5. kept = IF item = <<>> THEN items ELSE Append(items, item)
  BY <1>1, <1>2, <1>3, <1>4, ItemizingIs, Zenon
<1>6. kept \in Seq(B)
  BY <1>3, <1>5
<1>7. Append(item, c) \in B /\ <<>> \in B
  BY <1>2, <1>3
<1>8. ItemStep[<<a, c>>] = Itemizing(kept, <<>>) \/ ItemStep[<<a, c>>] = Itemizing(items, Append(item, c))
  BY <1>1, <1>2, <1>3, <1>4, ItemizingIs, ZenonT(40)
<1>9. ASSUME NEW m \in Seq(B), NEW n \in B
      PROVE  Itemizing(m, n) \in Itemizings
  BY <1>1, <1>2, ItemizingIs, Zenon
<1> QED
  BY <1>3, <1>6, <1>7, <1>8, <1>9, Zenon

\* A text without "&" becomes the part that is read.
LEMMA TextIsItem ==
  ASSUME NEW items, NEW s, items \in Seq(Seq(FurlChars)), s \in Seq(FurlChars),
         ~Occurs(Ampersand, s)
  PROVE  Through(ItemStep, Itemizing(items, <<>>), s) = Itemizing(items, s)
<1>1. PICK last, first, start, none : /\ last = Len(s) /\ first = 0 /\ none = <<>>
                                      /\ start = Itemizing(items, none)
  BY Zenon
<1>2. last \in Nat /\ DOMAIN s = 1 .. last /\ \A i \in 1 .. last : s[i] \in FurlChars
  BY <1>1, SeqFacts
<1>3. none \in Seq(FurlChars)
  BY <1>1
<1>4. start \in Itemizings
  <2>1. Hash \in FurlChars
    BY DEF Hash, FurlChars
  <2> QED
    BY <1>1, <1>3, <2>1, ItemizingIs, Zenon
<1>5. PICK f : Walked(f, ItemStep, start, s, Itemizings)
  BY <1>4, ItemStepType, WalkedFunction, Zenon
<1> DEFINE G == {n \in Nat : n <= last => f[n] = Itemizing(items, SubSeq(s, 1, n))}
<1>6. 0 \in G
  <2>1. f[0] = start /\ SubSeq(s, 1, 0) = none
    BY <1>1, <1>5 DEF Walked
  <2> QED
    BY <1>1, <2>1
<1>7. ASSUME NEW n \in 0 .. last - 1, n \in G
      PROVE  n + 1 \in G
  <2>1. PICK p, c, q : p = SubSeq(s, 1, n) /\ c = s[n + 1] /\ q = SubSeq(s, 1, n + 1)
    BY Zenon
  <2>2. p \in Seq(FurlChars) /\ q = Append(p, c)
    BY <1>1, <2>1, PrefixFacts
  <2>3. n + 1 \in 1 .. last /\ n + 1 \in Nat /\ n <= last
    BY <1>2
  <2>4. c \in FurlChars /\ c # Ampersand
    BY <1>2, <2>1, <2>3 DEF Occurs
  <2>5. f[n] = Itemizing(items, p)
    BY <1>7, <2>1, <2>3
  <2>6. f[n + 1] = ItemStep[<<f[n], c>>]
    BY <1>1, <1>5, <2>1 DEF Walked
  <2>7. f[n + 1] = Itemizing(items, q)
    <3>1. ItemStep[<<Itemizing(items, p), c>>] = Itemizing(items, Append(p, c))
      BY <2>2, <2>4, ItemizingIs
    <3> QED
      BY <2>2, <2>5, <2>6, <3>1, Zenon
  <2> QED
    BY <2>1, <2>3, <2>7
<1> HIDE DEF G
<1>8. Inductive(G, first, last)
  BY <1>1, <1>2, <1>6, <1>7 DEF Inductive
<1>9. last \in G
  <2>1. \A n \in first .. last : n \in G
    BY <1>8, RangeInduction
  <2> QED
    BY <1>1, <1>2, <2>1
<1>10. SubSeq(s, 1, last) = s
  BY <1>1
<1>11. f[last] = Itemizing(items, s)
  <2>1. last <= last
    BY <1>2
  <2> QED
    BY <1>9, <1>10, <2>1 DEF G
<1> QED
  BY <1>1, <1>5, <1>11, Zenon DEF Walked

\* A part of a query is closed by "&", and the next one is read.
LEMMA NextItem ==
  ASSUME NEW items, NEW item, NEW s, items \in Seq(Seq(FurlChars)), item \in Seq(FurlChars),
         item # <<>>, s \in Seq(FurlChars), ~Occurs(Ampersand, s)
  PROVE  Through(ItemStep, Itemizing(items, item), <<Ampersand>> \o s)
           = Itemizing(Append(items, item), s)
<1>1. PICK a, one, b, B, more : /\ a = Itemizing(items, item) /\ one = <<Ampersand>>
                                /\ more = Append(items, item) /\ b = Itemizing(more, <<>>)
                                /\ B = Seq(FurlChars)
  BY Zenon
<1>2. Ampersand \in FurlChars
  BY Reserved
<1>3. a \in Itemizings /\ KeepItem(a) = more
  BY <1>1, <1>2, ItemizingIs, Zenon
<1>4. ItemStep[<<a, Ampersand>>] = b
  <2>1. ItemStep[<<Itemizing(items, item), Ampersand>>]
          = Itemizing(KeepItem(Itemizing(items, item)), <<>>)
    BY <1>2, ItemizingIs
  <2> QED
    BY <1>1, <1>3, <2>1, Zenon
<1>5. Through(ItemStep, a, one) = b
  <2>1. Through(ItemStep, a, <<Ampersand>>) = ItemStep[<<a, Ampersand>>]
    BY <1>2, <1>3, ItemStepType, ThroughOne
  <2> QED
    BY <1>1, <1>4, <2>1, Zenon
<1>6. one \in Seq(FurlChars)
  BY <1>1, <1>2
<1>7. Through(ItemStep, a, one \o s) = Through(ItemStep, Through(ItemStep, a, one), s)
  BY <1>3, <1>6, ItemStepType, ThroughConcat
<1>8. more \in Seq(Seq(FurlChars))
  <2>1. items \in Seq(B) /\ item \in B
    BY <1>1
  <2>2. more \in Seq(B)
    BY <1>1, <2>1
  <2> QED
    BY <1>1, <2>2
<1>9. Through(ItemStep, b, s) = Itemizing(more, s)
  BY <1>1, <1>8, TextIsItem, Zenon
<1> QED
  BY <1>1, <1>5, <1>7, <1>9, Zenon

\* The texts of the parameters, and what is written of each.
ParamTexts(q) == [i \in DOMAIN q |-> ParamText(q[i])]
ParamPiece(q, i) == (IF i > 1 THEN <<Ampersand>> ELSE <<>>) \o ParamText(q[i])
ParamPieces(q) == [i \in DOMAIN q |-> ParamPiece(q, i)]

\* Every parameter has a name or a value.
AllNamed(q) == \A i \in DOMAIN q : q[i].name # <<>> \/ q[i].equal

LEMMA ParamPiecesFacts ==
  ASSUME NEW q, NEW n, q \in Seq(Params), AllNamed(q), n = Len(q)
  PROVE  /\ n \in Nat /\ ParamTexts(q) \in Seq(Seq(FurlChars)) /\ Len(ParamTexts(q)) = n
         /\ ParamPieces(q) \in Seq(Seq(QueryChars)) /\ Len(ParamPieces(q)) = n
         /\ QueryText(q) = FlattenSeq(ParamPieces(q))
         /\ \A i \in 1 .. n :
              /\ ParamTexts(q)[i] # <<>> /\ ~Occurs(Ampersand, ParamTexts(q)[i])
              /\ SplitParam(ParamTexts(q)[i]) = [ok |-> TRUE, param |-> q[i]]
              /\ ParamPieces(q)[i] = (IF i > 1 THEN <<Ampersand>> ELSE <<>>) \o ParamTexts(q)[i]
<1>1. n \in Nat /\ DOMAIN q = 1 .. n /\ \A i \in 1 .. n : q[i] \in Params
  BY SeqFacts
<1>2. PICK T, B, Q, t, p : /\ T = PlainChars \cup {Equals} /\ B = Seq(FurlChars)
                           /\ Q = Seq(QueryChars) /\ t = ParamTexts(q) /\ p = ParamPieces(q)
  BY Zenon
<1>3. t = [i \in 1 .. n |-> ParamText(q[i])] /\ p = [i \in 1 .. n |-> ParamPiece(q, i)]
  BY <1>1, <1>2, Zenon DEF ParamTexts, ParamPieces
<1>4. T \subseteq FurlChars /\ T \subseteq QueryChars /\ Ampersand \notin T
      /\ Ampersand \in QueryChars /\ QueryChars \subseteq FurlChars
  BY <1>2, Reserved DEF QueryChars
<1>5. Seq(T) \subseteq Q /\ Seq(T) \subseteq B
  BY <1>2, <1>4
<1>6. ASSUME NEW i \in 1 .. n
      PROVE  /\ t[i] \in Seq(T) /\ t[i] # <<>> /\ ~Occurs(Ampersand, t[i])
             /\ SplitParam(t[i]) = [ok |-> TRUE, param |-> q[i]]
             /\ p[i] = (IF i > 1 THEN <<Ampersand>> ELSE <<>>) \o t[i] /\ p[i] \in Q
  <2>1. q[i] \in Params /\ (q[i].name # <<>> \/ q[i].equal)
    BY <1>1, Zenon DEF AllNamed
  <2>2. t[i] = ParamText(q[i])
    BY <1>3
  <2>3. /\ t[i] \in Seq(T) /\ t[i] # <<>>
        /\ SplitParam(t[i]) = [ok |-> TRUE, param |-> q[i]]
    BY <1>2, <2>1, <2>2, ParamTextFacts, Zenon
  <2>4. ~Occurs(Ampersand, t[i])
    BY <1>4, <2>3, OccursNot, Zenon
  <2>5. p[i] = ParamPiece(q, i)
    BY <1>3
  <2>6. p[i] = (IF i > 1 THEN <<Ampersand>> ELSE <<>>) \o t[i]
    BY <2>2, <2>5, Zenon DEF ParamPiece
  <2>7. p[i] \in Q
    <3>1. PICK mark : mark = IF i > 1 THEN <<Ampersand>> ELSE <<>>
      BY Zenon
    <3>2. mark \in Seq(QueryChars)
      BY <1>4, <3>1
    <3>3. t[i] \in Seq(QueryChars)
      BY <1>2, <1>5, <2>3
    <3> QED
      BY <1>2, <2>6, <3>1, <3>2, <3>3, ConcatFacts
  <2> QED
    BY <2>3, <2>4, <2>6, <2>7, Zenon
<1>7. t \in Seq(B) /\ Len(t) = n
  <2>1. \A i \in 1 .. n : t[i] \in B
    BY <1>5, <1>6
  <2>2. t \in [1 .. n -> B]
    BY <1>3, <2>1
  <2> QED
    BY <1>1, <2>2, FunctionIsSeq
<1>8. p \in Seq(Q) /\ Len(p) = n
  <2>1. p \in [1 .. n -> Q]
    BY <1>3, <1>6
  <2> QED
    BY <1>1, <2>1, FunctionIsSeq
<1>9. QueryText(q) = FlattenSeq(p)
  BY <1>2, Zenon DEF QueryText, ParamPieces, ParamPiece
<1> QED
  BY <1>1, <1>2, <1>6, <1>7, <1>8, <1>9, Zenon

LEMMA QueryTextType ==
  ASSUME NEW q, q \in Seq(Params), AllNamed(q)
  PROVE  QueryText(q) \in Seq(QueryChars)
<1>1. PICK p : p = ParamPieces(q)
  BY Zenon
<1>2. p \in Seq(Seq(QueryChars)) /\ QueryText(q) = FlattenSeq(p)
  BY <1>1, ParamPiecesFacts, Zenon
<1> QED
  BY <1>2, FlattenType, Zenon

\* What has been read after k parameters.
ReadTo(p, t, k) ==
  Through(ItemStep, ItemStart, FlattenSeq(SubSeq(p, 1, k)))
    = Itemizing(SubSeq(t, 1, k - 1), t[k])

LEMMA ItemStartIs ==
  /\ ItemStart = Itemizing(<<>>, <<>>) /\ ItemStart \in Itemizings
  /\ <<>> \in Seq(Seq(FurlChars)) /\ <<>> \in Seq(FurlChars)
<1>1. <<>> \in Seq(Seq(FurlChars)) /\ <<>> \in Seq(FurlChars)
  OBVIOUS
<1>2. ItemStart = Itemizing(<<>>, <<>>)
  BY DEF ItemStart, Itemizing
<1>3. Itemizing(<<>>, <<>>) \in Itemizings
  <2>1. Hash \in FurlChars
    BY DEF Hash, FurlChars
  <2> QED
    BY <1>1, <2>1, ItemizingIs, Zenon
<1> QED
  BY <1>1, <1>2, <1>3, Zenon

LEMMA FirstRead ==
  ASSUME NEW p, NEW t, p \in Seq(Seq(FurlChars)), t \in Seq(Seq(FurlChars)),
         Len(p) >= 1, Len(t) >= 1, p[1] = <<>> \o t[1], ~Occurs(Ampersand, t[1])
  PROVE  ReadTo(p, t, 1)
<1>1. PICK B, s, none : B = Seq(FurlChars) /\ s = t[1] /\ none = <<>>
  BY Zenon
<1>2. s \in B /\ Len(p) \in Nat /\ 0 \in 0 .. Len(p) - 1 /\ p[1] \in B
  BY <1>1, SeqFacts
<1>3. s \in Seq(FurlChars)
  BY <1>1, <1>2, Zenon
<1>4. p[1] = s
  BY <1>1, <1>3, ConcatFacts
<1>5. PICK pre : pre = SubSeq(p, 1, 1)
  BY Zenon
<1>6. pre = Append(none, s)
  <2>1. p \in Seq(B) /\ SubSeq(p, 1, 0) = none
    BY <1>1
  <2>2. 0 + 1 = 1
    OBVIOUS
  <2>3. Append(SubSeq(p, 1, 0), p[0 + 1]) = SubSeq(p, 1, 0 + 1)
    BY <1>2, <2>1, PrefixFacts
  <2> QED
    BY <1>4, <1>5, <2>1, <2>2, <2>3, Zenon
<1>7. FlattenSeq(pre) = s
  <2>1. none \in Seq(Seq(FurlChars))
    BY <1>1, ItemStartIs, Zenon
  <2>2. FlattenSeq(Append(none, s)) = FlattenSeq(none) \o s
    BY <1>3, <2>1, FlattenAppend, ZenonT(40)
  <2>3. <<>> \o s = s
    BY <1>3, ConcatFacts
  <2> QED
    BY <1>1, <1>6, <2>2, <2>3, FlattenEmpty, Zenon
<1>8. Through(ItemStep, ItemStart, s) = Itemizing(<<>>, s)
  BY <1>1, <1>3, ItemStartIs, TextIsItem, Zenon
<1>9. SubSeq(t, 1, 1 - 1) = <<>>
  <2>1. t \in Seq(B)
    BY <1>1
  <2> QED
    BY <2>1
<1> QED
  BY <1>1, <1>5, <1>7, <1>8, <1>9, Zenon DEF ReadTo

Grown(T, s) ==
  \A n \in 0 .. Len(s) - 1 :
    SubSeq(s, 1, n) \in Seq(T) /\ Append(SubSeq(s, 1, n), s[n + 1]) = SubSeq(s, 1, n + 1)

LEMMA PrefixGrown ==
  ASSUME NEW T, NEW s, s \in Seq(T)
  PROVE  Grown(T, s)
<1>1. ASSUME NEW n \in 0 .. Len(s) - 1
      PROVE  SubSeq(s, 1, n) \in Seq(T) /\ Append(SubSeq(s, 1, n), s[n + 1]) = SubSeq(s, 1, n + 1)
  BY PrefixFacts
<1> QED
  BY <1>1, Zenon DEF Grown

LEMMA NextRead ==
  ASSUME NEW p, NEW t, NEW k, p \in Seq(Seq(FurlChars)), t \in Seq(Seq(FurlChars)),
         Len(p) = Len(t), k \in 1 .. Len(p) - 1, ReadTo(p, t, k),
         p[k + 1] = <<Ampersand>> \o t[k + 1], ~Occurs(Ampersand, t[k + 1]), t[k] # <<>>
  PROVE  ReadTo(p, t, k + 1)
<1>1. PICK B, n, j : B = Seq(FurlChars) /\ n = Len(p) /\ j = k - 1
  BY Zenon
<1>2. /\ n \in Nat /\ k \in 0 .. n - 1 /\ j \in 0 .. n - 1 /\ k = j + 1 /\ (k + 1) - 1 = k
      /\ k \in 1 .. n /\ k + 1 \in 1 .. n
  BY <1>1, SeqFacts
<1>3. p \in Seq(B) /\ t \in Seq(B)
  BY <1>1, Zenon
<1>4. PICK before, now, item, next, mark, items :
        /\ before = SubSeq(p, 1, k) /\ now = SubSeq(p, 1, k + 1)
        /\ item = t[k] /\ next = t[k + 1] /\ mark = p[k + 1] /\ items = SubSeq(t, 1, j)
  BY Zenon
<1>5. before \in Seq(B) /\ now = Append(before, mark)
  <2>1. k \in 0 .. Len(p) - 1
    BY <1>1, <1>2
  <2>2. /\ SubSeq(p, 1, k) \in Seq(B)
        /\ Append(SubSeq(p, 1, k), p[k + 1]) = SubSeq(p, 1, k + 1)
    BY <1>3, <2>1, PrefixGrown, Zenon DEF Grown
  <2> QED
    BY <1>4, <2>2, Zenon
<1>6. items \in Seq(B) /\ Append(items, item) = SubSeq(t, 1, k)
  <2>1. j \in 0 .. Len(t) - 1
    BY <1>1, <1>2
  <2>2. /\ SubSeq(t, 1, j) \in Seq(B)
        /\ Append(SubSeq(t, 1, j), t[j + 1]) = SubSeq(t, 1, j + 1)
    BY <1>3, <2>1, PrefixGrown, Zenon DEF Grown
  <2> QED
    BY <1>2, <1>4, <2>2, Zenon
<1>7. item \in B /\ next \in B /\ mark \in B
  BY <1>1, <1>2, <1>3, <1>4, SeqFacts
<1>8. PICK a, b : a = FlattenSeq(before) /\ b = FlattenSeq(now)
  BY Zenon
<1>9. b = a \o mark
  <2>1. before \in Seq(Seq(FurlChars)) /\ mark \in Seq(FurlChars)
    BY <1>1, <1>5, <1>7, Zenon
  <2>2. FlattenSeq(Append(before, mark)) = FlattenSeq(before) \o mark
    BY <2>1, FlattenAppend, ZenonT(40)
  <2> QED
    BY <1>5, <1>8, <2>2, Zenon
<1>10. a \in Seq(FurlChars) /\ mark \in Seq(FurlChars)
  <2>1. before \in Seq(Seq(FurlChars))
    BY <1>1, <1>5, Zenon
  <2> QED
    BY <1>1, <1>7, <1>8, <2>1, FlattenType, Zenon
<1>11. Through(ItemStep, ItemStart, a \o mark)
         = Through(ItemStep, Through(ItemStep, ItemStart, a), mark)
  <2>1. ItemStart \in Itemizings
    BY ItemStartIs, Zenon
  <2> QED
    BY <1>10, <2>1, ItemStepType, ThroughConcat
<1>12. Through(ItemStep, ItemStart, a) = Itemizing(items, item)
  BY <1>1, <1>4, <1>8, Zenon DEF ReadTo
<1>13. Through(ItemStep, Itemizing(items, item), mark) = Itemizing(Append(items, item), next)
  <2>1. items \in Seq(Seq(FurlChars)) /\ item \in Seq(FurlChars) /\ next \in Seq(FurlChars)
    BY <1>1, <1>6, <1>7, Zenon
  <2>2. item # <<>> /\ ~Occurs(Ampersand, next) /\ mark = <<Ampersand>> \o next
    BY <1>4, Zenon
  <2>3. Through(ItemStep, Itemizing(items, item), <<Ampersand>> \o next)
          = Itemizing(Append(items, item), next)
    BY <2>1, <2>2, NextItem, Zenon
  <2> QED
    BY <2>2, <2>3, Zenon
<1>14. Through(ItemStep, ItemStart, b) = Itemizing(SubSeq(t, 1, k), next)
  BY <1>6, <1>9, <1>11, <1>12, <1>13, Zenon
<1> QED
  BY <1>2, <1>4, <1>8, <1>14, Zenon DEF ReadTo

LEMMA ItemsOfQuery ==
  ASSUME NEW q, q \in Seq(Params), AllNamed(q), q # <<>>
  PROVE  QueryItems(QueryText(q)) = ParamTexts(q)
<1>1. PICK n, p, t, B, first : /\ n = Len(q) /\ p = ParamPieces(q) /\ t = ParamTexts(q)
                               /\ B = Seq(FurlChars) /\ first = 1
  BY Zenon
<1>2. /\ n \in Nat /\ t \in Seq(Seq(FurlChars)) /\ Len(t) = n
      /\ p \in Seq(Seq(QueryChars)) /\ Len(p) = n /\ QueryText(q) = FlattenSeq(p)
  BY <1>1, ParamPiecesFacts, Zenon
<1>3. ASSUME NEW i \in 1 .. n
      PROVE  /\ t[i] # <<>> /\ ~Occurs(Ampersand, t[i])
             /\ p[i] = (IF i > 1 THEN <<Ampersand>> ELSE <<>>) \o t[i]
  BY <1>1, ParamPiecesFacts, Zenon
<1>4. p \in Seq(Seq(FurlChars))
  <2>1. PICK Q : Q = Seq(QueryChars)
    BY Zenon
  <2>2. Q \subseteq B
    BY <1>1, <2>1, Reserved
  <2>3. p \in Seq(B)
    BY <1>2, <2>1, <2>2
  <2> QED
    BY <1>1, <2>3, Zenon
<1>5. 1 <= n
  BY <1>1, SeqFacts
<1> DEFINE G == {k \in Nat : k <= n => ReadTo(p, t, k)}
<1>6. 1 \in G
  <2>1. 1 \in 1 .. n /\ ~(1 > 1)
    BY <1>2, <1>5
  <2>2. p[1] = <<>> \o t[1] /\ ~Occurs(Ampersand, t[1])
    BY <1>3, <2>1, Zenon
  <2>3. Len(p) >= 1 /\ Len(t) >= 1
    BY <1>2, <1>5
  <2>4. ReadTo(p, t, 1)
    BY <1>2, <1>4, <2>2, <2>3, FirstRead, Zenon
  <2> QED
    BY <2>4
<1>7. ASSUME NEW k \in 1 .. n - 1, k \in G
      PROVE  k + 1 \in G
  <2>1. k + 1 \in 1 .. n /\ k \in 1 .. n /\ k <= n /\ k + 1 > 1 /\ k + 1 \in Nat
    BY <1>2
  <2>2. p[k + 1] = <<Ampersand>> \o t[k + 1] /\ ~Occurs(Ampersand, t[k + 1]) /\ t[k] # <<>>
    BY <1>3, <2>1, Zenon
  <2>3. ReadTo(p, t, k)
    BY <1>7, <2>1, Zenon
  <2>4. Len(p) = Len(t) /\ k \in 1 .. Len(p) - 1
    BY <1>2
  <2>5. ReadTo(p, t, k + 1)
    BY <1>2, <1>4, <2>2, <2>3, <2>4, NextRead, Zenon
  <2> QED
    BY <2>1, <2>5
<1> HIDE DEF G
<1>8. Inductive(G, first, n)
  BY <1>1, <1>2, <1>6, <1>7 DEF Inductive
<1>9. n \in G
  <2>1. \A k \in first .. n : k \in G
    BY <1>8, RangeInduction
  <2> QED
    BY <1>1, <1>2, <1>5, <2>1
<1>10. ReadTo(p, t, n)
  <2>1. n <= n
    BY <1>2
  <2> QED
    BY <1>9, <2>1, Zenon DEF G
<1>11. SubSeq(p, 1, n) = p
  <2>1. p \in Seq(B)
    BY <1>1, <1>4, Zenon
  <2> QED
    BY <1>2, <2>1
<1>12. PICK j, items, item : j = n - 1 /\ items = SubSeq(t, 1, j) /\ item = t[n]
  BY Zenon
<1>13. j \in 0 .. n - 1 /\ n = j + 1 /\ n \in 1 .. n
  BY <1>2, <1>5, <1>12
<1>14. /\ items \in Seq(Seq(FurlChars)) /\ item \in Seq(FurlChars) /\ item # <<>>
       /\ Append(items, item) = t
  <2>1. t \in Seq(B)
    BY <1>1, <1>2, Zenon
  <2>2. items \in Seq(B) /\ Append(items, item) = SubSeq(t, 1, n) /\ SubSeq(t, 1, n) = t
    BY <1>2, <1>12, <1>13, <2>1, PrefixFacts
  <2>3. item \in B
    BY <1>2, <1>12, <1>13, <2>1, SeqFacts
  <2> QED
    BY <1>1, <1>3, <1>12, <1>13, <2>2, <2>3, Zenon
<1>15. Through(ItemStep, ItemStart, QueryText(q)) = Itemizing(items, item)
  BY <1>2, <1>10, <1>11, <1>12, Zenon DEF ReadTo
<1>16. KeepItem(Itemizing(items, item)) = Append(items, item)
  BY <1>14, Reserved, ItemizingIs, Zenon
<1> QED
  BY <1>1, <1>14, <1>15, <1>16, Zenon DEF QueryItems

\* The parameters that are read are the ones that were written.
LEMMA QueryRead ==
  ASSUME NEW q, q \in Seq(Params), AllNamed(q), q # <<>>
  PROVE  ParseQuery(QueryText(q)) = [ok |-> TRUE, query |-> q]
<1>1. PICK n, t : n = Len(q) /\ t = ParamTexts(q)
  BY Zenon
<1>2. /\ n \in Nat /\ t \in Seq(Seq(FurlChars)) /\ Len(t) = n
  BY <1>1, ParamPiecesFacts, Zenon
<1>3. \A i \in 1 .. n : SplitParam(t[i]) = [ok |-> TRUE, param |-> q[i]]
  BY <1>1, ParamPiecesFacts, Zenon
<1>4. ASSUME NEW i \in 1 .. n
      PROVE  SplitParam(t[i]).ok = TRUE /\ SplitParam(t[i]).param = q[i]
  <2>1. SplitParam(t[i]) = [ok |-> TRUE, param |-> q[i]]
    BY <1>3, Zenon
  <2> QED
    BY <2>1
<1>5. DOMAIN t = 1 .. n
  <2>1. PICK B : B = Seq(FurlChars)
    BY Zenon
  <2> QED
    BY <1>2, <2>1, SeqFacts
<1>6. [i \in DOMAIN t |-> SplitParam(t[i]).param] = q
  <2>1. q = [i \in 1 .. n |-> q[i]]
    BY <1>1
  <2> QED
    BY <1>4, <1>5, <2>1
<1>7. QueryItems(QueryText(q)) = t
  BY <1>1, ItemsOfQuery, Zenon
<1>8. \A i \in DOMAIN t : SplitParam(t[i]).ok
  BY <1>4, <1>5, Zenon
<1> QED
  BY <1>6, <1>7, <1>8, Zenon DEF ParseQuery

-----------------------------------------------------------------------------
(* furl: hosts and URLs.                                                   *)

\* What follows a host.
PortPart(port) == IF port >= 0 THEN <<Colon>> \o PortText(port) ELSE <<>>
HostRead(host, port) == [ok |-> TRUE, host |-> host, port |-> port]

LEMMA DelimiterFacts ==
  ASSUME NEW c, c \in Delimiters
  PROVE  /\ c \in FurlChars /\ c # Colon /\ c \notin 48 .. 58
         /\ ~IsAlpha(c) /\ ~IsDigit(c) /\ c \notin {43, 45, 46}
  BY DEF Delimiters, Hash, Question, Slash, AtSign, OpenBracket, CloseBracket, FurlChars, Colon,
         IsAlpha, IsDigit

LEMMA DelimitersAre ==
  /\ Hash \in Delimiters /\ Question \in Delimiters /\ Slash \in Delimiters
  /\ AtSign \in Delimiters /\ OpenBracket \in Delimiters /\ CloseBracket \in Delimiters
  /\ OpenBracket # CloseBracket /\ Colon \in FurlChars /\ Colon \notin 48 .. 57
  /\ Colon \in 48 .. 58
  /\ \A c \in {Hash, Question, Slash, AtSign} : c # OpenBracket /\ c # CloseBracket /\ c \in Delimiters
  BY DEF Delimiters, Hash, Question, Slash, AtSign, OpenBracket, CloseBracket, FurlChars, Colon

LEMMA PortRange ==
  ASSUME NEW port, port \in Ports
  PROVE  port >= 0 /\ port # -1
  BY PortNumber

LEMMA PortPartIs ==
  ASSUME NEW port, port \in Ports \cup {-1}
  PROVE  /\ PortPart(port) \in Seq(48 .. 58)
         /\ \A host : host # <<>> => HostAndPort(host, PortPart(port)) = HostRead(host, port)
<1>1. PICK r : r = PortPart(port)
  BY Zenon
<1>2. CASE port \in Ports
  <2>1. PICK text, one : text = PortText(port) /\ one = <<Colon>>
    BY Zenon
  <2>2. text \in Seq(48 .. 57) /\ text # <<>> /\ ParsePort(text) = port
    BY <1>2, <2>1, PortRead, Zenon
  <2>3. text \in Seq(48 .. 58)
    <3>1. 48 .. 57 \subseteq 48 .. 58
      OBVIOUS
    <3> QED
      BY <2>2, <3>1
  <2>4. one \in Seq(48 .. 58) /\ Len(one) = 1 /\ one[1] = Colon
    BY <2>1, DelimitersAre
  <2>5. port >= 0 /\ port # -1
    BY <1>2, PortRange
  <2>6. r = one \o text
    BY <1>1, <2>1, <2>5, Zenon DEF PortPart
  <2>7. /\ r \in Seq(48 .. 58) /\ Len(r) = 1 + Len(text) /\ Len(text) \in Nat
        /\ \A i \in 1 .. 1 : r[i] = one[i]
    <3>1. PICK T : T = 48 .. 58
      BY Zenon
    <3>2. one \in Seq(T) /\ text \in Seq(T)
      BY <2>3, <2>4, <3>1, Zenon
    <3>3. /\ r \in Seq(T) /\ Len(r) = Len(one) + Len(text) /\ Len(text) \in Nat
          /\ \A i \in 1 .. Len(one) : r[i] = one[i]
      BY <2>6, <3>2, ConcatFacts
    <3> QED
      BY <2>4, <3>1, <3>3, Zenon
  <2>8. r # <<>> /\ r[1] = Colon
    BY <2>4, <2>7
  <2>9. Tail(r) = text
    <3>1. After(1, r) = text
      BY <2>3, <2>4, <2>6, AfterFirst
    <3>2. Tail(r) = SubSeq(r, 2, Len(r))
      BY <2>7, <2>8
    <3>3. 1 + 1 = 2
      OBVIOUS
    <3> QED
      BY <3>1, <3>2, <3>3, Zenon DEF After
  <2>10. ASSUME NEW host, host # <<>>
         PROVE  HostAndPort(host, r) = HostRead(host, port)
    <3>1. HostAndPort(host, r) = [ok |-> host # <<>>, host |-> host, port |-> port]
      BY <2>2, <2>5, <2>8, <2>9 DEF HostAndPort
    <3>2. (host # <<>>) = TRUE
      BY <2>10
    <3> QED
      BY <3>1, <3>2, Zenon DEF HostRead
  <2> QED
    BY <1>1, <2>7, <2>10, Zenon
<1>3. CASE port = -1
  <2>1. r = <<>>
    BY <1>1, <1>3 DEF PortPart
  <2>2. ASSUME NEW host, host # <<>>
        PROVE  HostAndPort(host, r) = HostRead(host, port)
    <3>1. HostAndPort(host, r) = [ok |-> host # <<>>, host |-> host, port |-> -1]
      BY <2>1, Zenon DEF HostAndPort
    <3>2. (host # <<>>) = TRUE
      BY <2>2
    <3> QED
      BY <1>3, <3>1, <3>2, Zenon DEF HostRead
  <2>3. r \in Seq(48 .. 58)
    BY <2>1
  <2> QED
    BY <1>1, <2>2, <2>3, Zenon
<1> QED
  BY <1>2, <1>3

LEMMA PortPartFacts ==
  ASSUME NEW port, port \in Ports \cup {-1}
  PROVE  /\ PortPart(port) \in Seq(FurlChars)
         /\ \A c \in Delimiters : ~Occurs(c, PortPart(port))
         /\ \A host : host # <<>> => HostAndPort(host, PortPart(port)) = HostRead(host, port)
<1>1. PICK r : r = PortPart(port)
  BY Zenon
<1>2. r \in Seq(48 .. 58)
  BY <1>1, PortPartIs, Zenon
<1>3. r \in Seq(FurlChars)
  <2>1. 48 .. 58 \subseteq FurlChars
    BY DEF FurlChars
  <2> QED
    BY <1>2, <2>1
<1>4. \A c \in Delimiters : ~Occurs(c, r)
  BY <1>2, DelimiterFacts, OccursNot, Zenon
<1> QED
  BY <1>1, <1>3, <1>4, PortPartIs, Zenon

\* The host and the port of a URL that is built.
PlacedHost(h) == h \in Seq(FurlChars) /\ h # <<>> /\ \A c \in Delimiters : ~Occurs(c, h)

HostPart(h) == IF Occurs(Colon, h) THEN <<OpenBracket>> \o h \o <<CloseBracket>> ELSE h

LEMMA BracketedRead ==
  ASSUME NEW h, NEW port, PlacedHost(h), Occurs(Colon, h), port \in Ports \cup {-1}
  PROVE  ParseHost(HostPart(h) \o PortPart(port)) = HostRead(h, port)
<1>1. PICK s, one, g, r : /\ s = HostPart(h) \o PortPart(port) /\ one = <<OpenBracket>>
                          /\ g = one \o h /\ r = PortPart(port)
  BY Zenon
<1>2. h \in Seq(FurlChars) /\ h # <<>> /\ ~Occurs(CloseBracket, h)
  BY DelimitersAre, Zenon DEF PlacedHost
<1>3. r \in Seq(FurlChars) /\ HostAndPort(h, r) = HostRead(h, port)
  BY <1>1, <1>2, PortPartFacts, Zenon
<1>4. OpenBracket \in FurlChars /\ CloseBracket \in FurlChars /\ OpenBracket # CloseBracket
  BY DelimitersAre, DelimiterFacts, Zenon
<1>5. one \in Seq(FurlChars) /\ Len(one) = 1 /\ one[1] = OpenBracket
  BY <1>1, <1>4
<1>6. ~Occurs(CloseBracket, one)
  BY <1>1, <1>4, OccursOne, Zenon
<1>7. PICK k : k = Len(g)
  BY Zenon
<1>8. /\ g \in Seq(FurlChars) /\ k = 1 + Len(h) /\ Len(h) \in Nat
      /\ \A i \in 1 .. 1 : g[i] = one[i]
  BY <1>1, <1>2, <1>5, <1>7, ConcatFacts
<1>9. ~Occurs(CloseBracket, g)
  <2>1. Occurs(CloseBracket, one \o h) <=> Occurs(CloseBracket, one) \/ Occurs(CloseBracket, h)
    BY <1>2, <1>5, OccursParts
  <2> QED
    BY <1>1, <1>2, <1>6, <2>1, Zenon
<1>10. s = (g \o <<CloseBracket>>) \o r
  BY <1>1, Zenon DEF HostPart
<1>11. SplitAt(s, g, CloseBracket, r, FurlChars)
  BY <1>3, <1>4, <1>8, <1>9, <1>10, Zenon DEF SplitAt
<1>12. /\ s \in Seq(FurlChars) /\ Occurs(CloseBracket, s) /\ FirstAt(CloseBracket, s) = k + 1
       /\ After(k + 1, s) = r /\ Before(k + 1, s) = g
  <2>1. /\ s \in Seq(FurlChars) /\ Occurs(CloseBracket, s)
        /\ FirstAt(CloseBracket, s) = Len(g) + 1
        /\ After(Len(g) + 1, s) = r /\ Before(Len(g) + 1, s) = g
    BY <1>11, SplitFirst
  <2> QED
    BY <1>7, <2>1, Zenon
<1>13. s # <<>> /\ s[1] = OpenBracket /\ Len(s) \in Nat /\ k <= Len(s)
  <2>1. SplitHas(s, g, CloseBracket, r, FurlChars, k, Len(r))
    BY <1>7, <1>11, SplitElements, Zenon
  <2>2. /\ Len(s) = k + 1 + Len(r) /\ Len(r) \in Nat /\ k \in Nat
        /\ \A i \in 1 .. k : s[i] = g[i]
    BY <2>1 DEF SplitHas
  <2>3. 1 \in 1 .. k /\ 1 \in 1 .. 1
    BY <1>8
  <2>4. s[1] = OpenBracket
    BY <1>5, <1>8, <2>2, <2>3
  <2> QED
    BY <1>12, <2>2, <2>4
<1>14. SubSeq(s, 2, (k + 1) - 1) = h
  <2>1. After(1, g) = h
    BY <1>1, <1>2, <1>5, AfterFirst
  <2>2. h = SubSeq(g, 2, k)
    BY <1>7, <2>1 DEF After
  <2>3. g = SubSeq(s, 1, k) /\ (k + 1) - 1 = k
    BY <1>8, <1>12 DEF Before
  <2>4. PICK p, q : p = SubSeq(s, 2, k) /\ q = SubSeq(g, 2, k)
    BY Zenon
  <2>5. ASSUME NEW i \in 2 .. k
        PROVE  g[i] = s[i]
    BY <1>8, <1>12, <1>13, <2>3
  <2>6. k \in Nat /\ k >= 2
    <3>1. Len(h) # 0
      BY <1>2
    <3> QED
      BY <1>8, <3>1
  <2>7. p = [i \in 1 .. k - 1 |-> s[i + 1]] /\ q = [i \in 1 .. k - 1 |-> g[i + 1]]
    BY <1>8, <1>12, <1>13, <2>4, <2>6
  <2>8. \A i \in 1 .. k - 1 : s[i + 1] = g[i + 1]
    BY <2>5, <2>6
  <2>9. p = q
    BY <2>7, <2>8
  <2> QED
    BY <2>2, <2>3, <2>4, <2>9, Zenon
<1>15. ParseHost(s) = HostAndPort(h, r)
  BY <1>12, <1>13, <1>14, Zenon DEF ParseHost
<1> QED
  BY <1>1, <1>3, <1>15, Zenon

LEMMA BareRead ==
  ASSUME NEW h, NEW port, PlacedHost(h), ~Occurs(Colon, h), port \in Ports \cup {-1}
  PROVE  ParseHost(HostPart(h) \o PortPart(port)) = HostRead(h, port)
<1>1. PICK s, r : s = h \o r /\ r = PortPart(port)
  BY Zenon
<1>2. s = HostPart(h) \o PortPart(port)
  BY <1>1, Zenon DEF HostPart
<1>3. h \in Seq(FurlChars) /\ h # <<>> /\ ~Occurs(OpenBracket, h)
  BY DelimitersAre, Zenon DEF PlacedHost
<1>4. r \in Seq(FurlChars) /\ HostAndPort(h, r) = HostRead(h, port)
  BY <1>1, <1>3, PortPartFacts, Zenon
<1>5. s # <<>> /\ s[1] # OpenBracket
  <2>1. /\ s \in Seq(FurlChars) /\ Len(s) = Len(h) + Len(r) /\ Len(h) \in Nat /\ Len(r) \in Nat
        /\ \A i \in 1 .. Len(h) : s[i] = h[i]
    BY <1>1, <1>3, <1>4, ConcatFacts
  <2>2. 1 \in DOMAIN h /\ 1 \in 1 .. Len(h)
    BY <1>3, SeqFacts
  <2>3. h[1] # OpenBracket
    BY <1>3, <2>2, Zenon DEF Occurs
  <2>4. s[1] = h[1]
    BY <2>1, <2>2, Zenon
  <2>5. s # <<>>
    BY <2>1, <2>2
  <2> QED
    BY <2>3, <2>4, <2>5, Zenon
<1>6. CASE port \in Ports
  <2>1. PICK text, one : text = PortText(port) /\ one = <<Colon>>
    BY Zenon
  <2>2. text \in Seq(48 .. 57)
    BY <1>6, <2>1, PortRead, Zenon
  <2>3. text \in Seq(FurlChars) /\ one \in Seq(FurlChars) /\ ~Occurs(Colon, text)
    <3>1. 48 .. 57 \subseteq FurlChars
      BY DEF FurlChars
    <3>2. text \in Seq(FurlChars)
      BY <2>2, <3>1
    <3>3. ~Occurs(Colon, text)
      BY <2>2, OccursNot, DelimitersAre, Zenon
    <3>4. one \in Seq(FurlChars)
      BY <2>1, DelimitersAre
    <3> QED
      BY <3>2, <3>3, <3>4, Zenon
  <2>4. r = one \o text
    <3>1. port >= 0
      BY <1>6, PortRange
    <3> QED
      BY <1>1, <2>1, <3>1, Zenon DEF PortPart
  <2>5. s = (h \o <<Colon>>) \o text
    <3>1. Concats(FurlChars)
      BY Associative, Zenon
    <3>2. (h \o one) \o text = h \o (one \o text)
      BY <1>3, <2>3, <3>1, Zenon DEF Concats
    <3> QED
      BY <1>1, <2>1, <2>4, <3>2, Zenon
  <2>6. SplitAt(s, h, Colon, text, FurlChars)
    BY <1>3, <2>3, <2>5, DelimitersAre, Zenon DEF SplitAt
  <2>7. /\ Occurs(Colon, s) /\ FirstAt(Colon, s) = Len(h) + 1
        /\ Before(Len(h) + 1, s) = h
        /\ SubSeq(s, Len(h) + 1, Len(s)) = <<Colon>> \o text
    BY <2>6, SplitFirst
  <2>8. FinalAt(Colon, s) = Len(h) + 1
    BY <2>3, <2>6, SplitFinal
  <2>9. ParseHost(s) = HostAndPort(h, r)
    BY <1>5, <2>1, <2>4, <2>7, <2>8, Zenon DEF ParseHost
  <2> QED
    BY <1>2, <1>4, <2>9, Zenon
<1>7. CASE port = -1
  <2>1. r = <<>>
    BY <1>1, <1>7 DEF PortPart
  <2>2. s = h
    BY <1>1, <1>3, <2>1, ConcatFacts
  <2>3. ParseHost(s) = HostAndPort(h, r)
    BY <1>5, <2>1, <2>2, Zenon DEF ParseHost
  <2> QED
    BY <1>2, <1>4, <2>3, Zenon
<1> QED
  BY <1>6, <1>7

AuthorityText(h, port) == HostPart(h) \o PortPart(port)

LEMMA AuthorityFacts ==
  ASSUME NEW h, NEW port, PlacedHost(h), port \in Ports \cup {-1}
  PROVE  /\ AuthorityText(h, port) \in Seq(FurlChars)
         /\ \A c \in {Hash, Question, Slash, AtSign} : ~Occurs(c, AuthorityText(h, port))
         /\ ParseAuthority(AuthorityText(h, port)) = HostRead(h, port)
<1>1. PICK s, g, r, C : /\ s = AuthorityText(h, port) /\ g = HostPart(h) /\ r = PortPart(port)
                        /\ C = {Hash, Question, Slash, AtSign}
  BY Zenon
<1>2. h \in Seq(FurlChars) /\ h # <<>> /\ \A c \in C : ~Occurs(c, h)
  BY <1>1, DelimitersAre, Zenon DEF PlacedHost
<1>3. r \in Seq(FurlChars) /\ \A c \in C : ~Occurs(c, r)
  <2>1. C \subseteq Delimiters
    BY <1>1, DelimitersAre
  <2>2. r \in Seq(FurlChars) /\ \A c \in Delimiters : ~Occurs(c, r)
    BY <1>1, PortPartFacts, Zenon
  <2> QED
    BY <2>1, <2>2, Zenon
<1>4. g \in Seq(FurlChars) /\ \A c \in C : ~Occurs(c, g)
  <2>1. CASE Occurs(Colon, h)
    <3>1. PICK one, two, b : one = <<OpenBracket>> /\ two = <<CloseBracket>> /\ b = one \o h
      BY Zenon
    <3>2. one \in Seq(FurlChars) /\ two \in Seq(FurlChars)
      BY <3>1, DelimitersAre, DelimiterFacts
    <3>3. b \in Seq(FurlChars)
      BY <1>2, <3>1, <3>2, ConcatFacts
    <3>4. g = b \o two
      BY <1>1, <2>1, <3>1, Zenon DEF HostPart
    <3>5. g \in Seq(FurlChars)
      BY <3>2, <3>3, <3>4, ConcatFacts
    <3>6. ASSUME NEW c \in C
          PROVE  ~Occurs(c, g)
      <4>1. c # OpenBracket /\ c # CloseBracket
        BY <1>1, DelimitersAre
      <4>2. ~Occurs(c, one) /\ ~Occurs(c, two)
        BY <3>1, <4>1, OccursOne, Zenon
      <4>3. Occurs(c, b \o two) <=> Occurs(c, b) \/ Occurs(c, two)
        BY <3>2, <3>3, OccursParts
      <4>4. Occurs(c, one \o h) <=> Occurs(c, one) \/ Occurs(c, h)
        BY <1>2, <3>2, OccursParts
      <4> QED
        BY <1>2, <3>1, <3>4, <4>2, <4>3, <4>4, Zenon
    <3> QED
      BY <3>5, <3>6, Zenon
  <2>2. CASE ~Occurs(Colon, h)
    BY <1>1, <1>2, <2>2, Zenon DEF HostPart
  <2> QED
    BY <2>1, <2>2
<1>5. s = g \o r
  BY <1>1, Zenon DEF AuthorityText
<1>6. s \in Seq(FurlChars)
  BY <1>3, <1>4, <1>5, ConcatFacts
<1>7. ASSUME NEW c \in C
      PROVE  ~Occurs(c, s)
  <2>1. Occurs(c, g \o r) <=> Occurs(c, g) \/ Occurs(c, r)
    BY <1>3, <1>4, OccursParts
  <2> QED
    BY <1>3, <1>4, <1>5, <2>1, Zenon
<1>8. ParseHost(s) = HostRead(h, port)
  BY <1>1, <1>5, BracketedRead, BareRead, Zenon
<1>9. ~Occurs(AtSign, s)
  BY <1>1, <1>7
<1>10. ParseAuthority(s) = HostRead(h, port)
  BY <1>8, <1>9, Zenon DEF ParseAuthority
<1> QED
  BY <1>1, <1>6, <1>7, <1>10, Zenon

LEMMA SchemeFacts ==
  ASSUME NEW p, p \in Seq(FurlChars), ValidScheme(p)
  PROVE  ~Occurs(Colon, p) /\ \A c \in Delimiters : ~Occurs(c, p)
<1>1. \A i \in DOMAIN p : IsAlpha(p[i]) \/ IsDigit(p[i]) \/ p[i] \in {43, 45, 46}
  BY Zenon DEF ValidScheme
<1>2. ~IsAlpha(Colon) /\ ~IsDigit(Colon) /\ Colon \notin {43, 45, 46}
  BY DEF Colon, IsAlpha, IsDigit
<1>3. ~Occurs(Colon, p)
  BY <1>1, <1>2 DEF Occurs
<1>4. ASSUME NEW c \in Delimiters
      PROVE  ~Occurs(c, p)
  <2>1. ~IsAlpha(c) /\ ~IsDigit(c) /\ c \notin {43, 45, 46}
    BY DelimiterFacts, Zenon
  <2> QED
    BY <1>1, <2>1 DEF Occurs
<1> QED
  BY <1>3, <1>4, Zenon

\* The path of a URL that is built.
PlacedPath(s) ==
  s \in Seq(FurlChars) /\ s # <<>> /\ s[1] = Slash /\ ~Occurs(Question, s) /\ ~Occurs(Hash, s)

MainText(p, h, port, path) ==
  ((p \o <<Colon, Slash, Slash>>) \o AuthorityText(h, port)) \o path

UrlRead(p, h, port, path, query) ==
  [ok |-> TRUE, protocol |-> p, host |-> h, port |-> port, path |-> path, query |-> query]

LEMMA MainRead ==
  ASSUME NEW p, NEW h, NEW port, NEW path, NEW query, p \in Seq(FurlChars), ValidScheme(p),
         PlacedHost(h), port \in Ports \cup {-1}, PlacedPath(path)
  PROVE  /\ MainText(p, h, port, path) \in Seq(FurlChars)
         /\ \A c \in {Hash, Question} : ~Occurs(c, MainText(p, h, port, path))
         /\ ParseMain(MainText(p, h, port, path), [ok |-> TRUE, query |-> query])
              = UrlRead(p, h, port, path, query)
<1>1. PICK s, sep, front, a, rest, m : /\ s = MainText(p, h, port, path)
                                       /\ sep = <<Colon, Slash, Slash>> /\ front = p \o sep
                                       /\ a = AuthorityText(h, port) /\ rest = a \o path
                                       /\ m = Len(p)
  BY Zenon
<1>2. /\ a \in Seq(FurlChars) /\ ParseAuthority(a) = HostRead(h, port)
      /\ \A c \in {Hash, Question, Slash, AtSign} : ~Occurs(c, a)
  BY <1>1, AuthorityFacts, Zenon
<1>3. /\ path \in Seq(FurlChars) /\ path # <<>> /\ path[1] = Slash
      /\ ~Occurs(Question, path) /\ ~Occurs(Hash, path)
  BY Zenon DEF PlacedPath
<1>4. ~Occurs(Colon, p) /\ ~Occurs(Hash, p) /\ ~Occurs(Question, p)
  BY SchemeFacts, DelimitersAre, Zenon
<1>5. Slash \in FurlChars /\ Colon \in FurlChars
  BY DelimitersAre, DelimiterFacts, Zenon
<1>6. sep \in Seq(FurlChars)
  BY <1>1, <1>5
<1>7. front \in Seq(FurlChars) /\ rest \in Seq(FurlChars)
  BY <1>1, <1>2, <1>3, <1>6, ConcatFacts
<1>8. s = front \o rest
  <2>1. Concats(FurlChars)
    BY Associative, Zenon
  <2>2. (front \o a) \o path = front \o (a \o path)
    BY <1>2, <1>3, <1>7, <2>1, ZenonT(40) DEF Concats
  <2> QED
    BY <1>1, <2>2, Zenon DEF MainText
<1>9. s \in Seq(FurlChars)
  BY <1>7, <1>8, ConcatFacts
<1>10. ASSUME NEW c \in {Hash, Question}
       PROVE  ~Occurs(c, s)
  <2>1. c # Colon /\ c # Slash /\ ~Occurs(c, p) /\ ~Occurs(c, a) /\ ~Occurs(c, path)
    BY <1>2, <1>3, <1>4 DEF Hash, Question, Colon, Slash
  <2>2. ~Occurs(c, sep)
    <3>1. sep \in Seq({Colon, Slash})
      BY <1>1
    <3>2. c \notin {Colon, Slash}
      BY <2>1
    <3> QED
      BY <3>1, <3>2, OccursNot, Zenon
  <2>3. Occurs(c, p \o sep) <=> Occurs(c, p) \/ Occurs(c, sep)
    BY <1>6, OccursParts
  <2>4. Occurs(c, a \o path) <=> Occurs(c, a) \/ Occurs(c, path)
    BY <1>2, <1>3, OccursParts
  <2>5. Occurs(c, front \o rest) <=> Occurs(c, front) \/ Occurs(c, rest)
    BY <1>7, OccursParts
  <2> QED
    BY <1>1, <1>8, <2>1, <2>2, <2>3, <2>4, <2>5, Zenon
<1>11. /\ SchemeEnds(s) # {} /\ Min(SchemeEnds(s)) = m + 1
       /\ Before(m + 1, s) = p /\ After((m + 1) + 2, s) = rest
  <2>1. SchemeText(s, p, rest)
    BY <1>1, <1>8, Zenon DEF SchemeText
  <2>2. SchemeAt(s, p, rest, m)
    BY <1>1, <1>4, <1>7, <2>1, SchemeFirst, Zenon
  <2> QED
    BY <2>2, Zenon DEF SchemeAt
<1>12. PICK k, one, tail : k = Len(a) + 1 /\ one = <<Slash>> /\ tail = Tail(path)
  BY Zenon
<1>13. tail \in Seq(FurlChars) /\ one \in Seq(FurlChars) /\ path = one \o tail
  <2>1. tail \in Seq(FurlChars) /\ one \in Seq(FurlChars)
    BY <1>3, <1>5, <1>12
  <2>2. path = one \o tail
    BY <1>3, <1>12
  <2> QED
    BY <2>1, <2>2
<1>14. rest = (a \o <<Slash>>) \o tail
  <2>1. Concats(FurlChars)
    BY Associative, Zenon
  <2>2. (a \o one) \o tail = a \o (one \o tail)
    BY <1>2, <1>13, <2>1, ZenonT(40) DEF Concats
  <2> QED
    BY <1>1, <1>12, <1>13, <2>2, Zenon
<1>15. SplitAt(rest, a, Slash, tail, FurlChars)
  BY <1>2, <1>5, <1>13, <1>14 DEF SplitAt
<1>16. /\ Occurs(Slash, rest) /\ FirstAt(Slash, rest) = k /\ Before(k, rest) = a
       /\ SubSeq(rest, k, Len(rest)) = path
  <2>1. /\ Occurs(Slash, rest) /\ FirstAt(Slash, rest) = Len(a) + 1
        /\ Before(Len(a) + 1, rest) = a
        /\ SubSeq(rest, Len(a) + 1, Len(rest)) = <<Slash>> \o tail
    BY <1>15, SplitFirst
  <2> QED
    BY <1>12, <1>13, <2>1, Zenon
<1>17. PICK qr, host : qr = [ok |-> TRUE, query |-> query] /\ host = HostRead(h, port)
  BY Zenon
<1>18. /\ qr.ok = TRUE /\ qr.query = query /\ host.ok = TRUE /\ host.host = h
       /\ host.port = port
  BY <1>17 DEF HostRead
<1>19. ParseMain(s, qr) = [ok |-> qr.ok /\ ValidScheme(p) /\ host.ok, protocol |-> p,
                           host |-> host.host, port |-> host.port, path |-> path,
                           query |-> qr.query]
  BY <1>2, <1>11, <1>16, <1>17, Zenon DEF ParseMain
<1>20. (qr.ok /\ ValidScheme(p) /\ host.ok) = TRUE
  BY <1>18
<1>21. ParseMain(s, qr) = UrlRead(p, h, port, path, query)
  BY <1>18, <1>19, <1>20, Zenon DEF UrlRead
<1> QED
  BY <1>1, <1>9, <1>10, <1>17, <1>21, Zenon

\* The parts of a URL that are read are the ones it was built of.
LEMMA BuiltRead ==
  ASSUME NEW p, NEW h, NEW port, NEW path, NEW query, p \in Seq(FurlChars), ValidScheme(p),
         PlacedHost(h), port \in Ports \cup {-1}, PlacedPath(path), query \in Seq(Params),
         AllNamed(query)
  PROVE  UrlParse(MainText(p, h, port, path)
                    \o (IF query # <<>> THEN <<Question>> \o QueryText(query) ELSE <<>>))
           = UrlRead(p, h, port, path, query)
<1>1. PICK main, read : main = MainText(p, h, port, path) /\ read = UrlRead(p, h, port, path, query)
  BY Zenon
<1>2. /\ main \in Seq(FurlChars) /\ ~Occurs(Hash, main) /\ ~Occurs(Question, main)
      /\ ParseMain(main, [ok |-> TRUE, query |-> query]) = read
  BY <1>1, MainRead
<1>3. CASE query = <<>>
  <2>1. main \o <<>> = main
    BY <1>2, ConcatFacts
  <2>2. UrlParse(main) = ParseMain(main, [ok |-> TRUE, query |-> <<>>])
    BY <1>2, Zenon DEF UrlParse
  <2> QED
    BY <1>1, <1>2, <1>3, <2>1, <2>2, Zenon
<1>4. CASE query # <<>>
  <2>1. PICK text, one, tail, s : /\ text = QueryText(query) /\ one = <<Question>>
                                  /\ tail = one \o text /\ s = main \o tail
    BY Zenon
  <2>2. text \in Seq(QueryChars) /\ ParseQuery(text) = [ok |-> TRUE, query |-> query]
    BY <1>4, <2>1, QueryTextType, QueryRead, Zenon
  <2>3. text \in Seq(FurlChars) /\ ~Occurs(Hash, text)
    <3>1. text \in Seq(FurlChars)
      BY <2>2, Reserved
    <3> QED
      BY <2>2, <3>1, OccursNot, Reserved, Zenon
  <2>4. Question \in FurlChars /\ Hash # Question
    BY DEF Question, Hash, FurlChars
  <2>5. one \in Seq(FurlChars) /\ ~Occurs(Hash, one)
    <3>1. one \in Seq(FurlChars)
      BY <2>1, <2>4
    <3> QED
      BY <2>1, <2>4, <3>1, OccursOne, Zenon
  <2>6. tail \in Seq(FurlChars)
    BY <2>1, <2>3, <2>5, ConcatFacts
  <2>7. ~Occurs(Hash, s)
    <3>1. Occurs(Hash, one \o text) <=> Occurs(Hash, one) \/ Occurs(Hash, text)
      BY <2>3, <2>5, OccursParts
    <3>2. Occurs(Hash, main \o tail) <=> Occurs(Hash, main) \/ Occurs(Hash, tail)
      BY <1>2, <2>6, OccursParts
    <3> QED
      BY <1>2, <2>1, <2>3, <2>5, <3>1, <3>2, Zenon
  <2>8. s = (main \o <<Question>>) \o text
    <3>1. Concats(FurlChars)
      BY Associative, Zenon
    <3>2. (main \o one) \o text = main \o (one \o text)
      BY <1>2, <2>3, <2>5, <3>1, Zenon DEF Concats
    <3> QED
      BY <2>1, <3>2, Zenon
  <2>9. SplitAt(s, main, Question, text, FurlChars)
    BY <1>2, <2>3, <2>4, <2>8, Zenon DEF SplitAt
  <2>10. /\ Occurs(Question, s) /\ Before(FirstAt(Question, s), s) = main
         /\ After(FirstAt(Question, s), s) = text
    BY <2>9, SplitFirst
  <2>11. UrlParse(s) = ParseMain(main, [ok |-> TRUE, query |-> query])
    BY <2>2, <2>7, <2>10, Zenon DEF UrlParse
  <2> QED
    BY <1>1, <1>2, <1>4, <2>1, <2>11, Zenon
<1> QED
  BY <1>3, <1>4

LEMMA ParsePortFacts ==
  ASSUME NEW s
  PROVE  ParsePort(s) \in Ports \cup {-1}
  BY DEF ParsePort

\* A host that is found.
FoundHost(r) == r.port \in Ports \cup {-1} /\ (r.ok => r.host # <<>>)

LEMMA HostAndPortFacts ==
  ASSUME NEW host, NEW rest
  PROVE  FoundHost(NoHost) /\ FoundHost(HostAndPort(host, rest))
<1>1. FoundHost(NoHost)
  BY DEF FoundHost, NoHost
<1>2. ASSUME NEW port \in Ports \cup {-1}
      PROVE  FoundHost([ok |-> host # <<>>, host |-> host, port |-> port])
  BY DEF FoundHost
<1>3. \/ HostAndPort(host, rest) = NoHost
      \/ HostAndPort(host, rest) = [ok |-> host # <<>>, host |-> host, port |-> -1]
      \/ HostAndPort(host, rest)
           = [ok |-> host # <<>>, host |-> host, port |-> ParsePort(Tail(rest))]
  BY Zenon DEF HostAndPort
<1>4. -1 \in Ports \cup {-1} /\ ParsePort(Tail(rest)) \in Ports \cup {-1}
  BY ParsePortFacts
<1> QED
  BY <1>1, <1>2, <1>3, <1>4, Zenon

LEMMA ParseHostFacts ==
  ASSUME NEW s
  PROVE  FoundHost(ParseAuthority(s))
<1>1. ASSUME NEW t
      PROVE  FoundHost(ParseHost(t))
  <2>1. CASE t = <<>>
    <3>1. ParseHost(t) = NoHost
      BY <2>1, Zenon DEF ParseHost
    <3> QED
      BY <3>1, HostAndPortFacts, Zenon
  <2>2. CASE t # <<>> /\ t[1] = OpenBracket
    BY <2>2, HostAndPortFacts, Zenon DEF ParseHost
  <2>3. CASE t # <<>> /\ t[1] # OpenBracket
    BY <2>3, HostAndPortFacts, Zenon DEF ParseHost
  <2> QED
    BY <2>1, <2>2, <2>3
<1> QED
  BY <1>1, Zenon DEF ParseAuthority

\* A URL that is accepted.
FoundUrl(r) ==
  r.ok => (r.protocol # <<>> => r.host # <<>>) /\ r.port \in Ports \cup {-1}

LEMMA ParsedFacts ==
  ASSUME NEW s
  PROVE  FoundUrl(UrlParse(s))
<1>1. ASSUME NEW main, NEW query
      PROVE  FoundUrl(ParseMain(main, query))
  <2>1. PICK colon, rest : colon = Min(SchemeEnds(main)) /\ rest = After(colon + 2, main)
    BY Zenon
  <2>2. PICK text : text = IF Occurs(Slash, rest) THEN Before(FirstAt(Slash, rest), rest) ELSE rest
    BY Zenon
  <2>3. PICK host, path, p :
          /\ host = ParseAuthority(text) /\ p = Before(colon, main)
          /\ path = IF Occurs(Slash, rest) THEN SubSeq(rest, FirstAt(Slash, rest), Len(rest))
                    ELSE <<Slash>>
    BY Zenon
  <2>4. FoundHost(host)
    BY <2>3, ParseHostFacts, Zenon
  <2>5. CASE SchemeEnds(main) = {}
    <3>1. ParseMain(main, query)
            = [ok |-> query.ok, protocol |-> <<>>, host |-> <<>>, port |-> -1, path |-> main,
               query |-> query.query]
      BY <2>5, Zenon DEF ParseMain
    <3> QED
      BY <3>1 DEF FoundUrl
  <2>6. CASE SchemeEnds(main) # {}
    <3>1. ParseMain(main, query)
            = [ok |-> query.ok /\ ValidScheme(p) /\ host.ok, protocol |-> p,
               host |-> host.host, port |-> host.port, path |-> path, query |-> query.query]
      BY <2>1, <2>2, <2>3, <2>6, Zenon DEF ParseMain
    <3>2. PICK r, ok : r = ParseMain(main, query) /\ ok = (query.ok /\ ValidScheme(p) /\ host.ok)
      BY Zenon
    <3>3. r.ok = ok /\ r.host = host.host /\ r.port = host.port
      <4>1. r = [ok |-> ok, protocol |-> p, host |-> host.host, port |-> host.port,
                 path |-> path, query |-> query.query]
        BY <3>1, <3>2, Zenon
      <4> QED
        BY <4>1
    <3>4. host.port \in Ports \cup {-1} /\ (host.ok => host.host # <<>>)
      BY <2>4, Zenon DEF FoundHost
    <3>5. FoundUrl(r)
      BY <3>2, <3>3, <3>4, Zenon DEF FoundUrl
    <3> QED
      BY <3>2, <3>5, Zenon
  <2> QED
    BY <2>5, <2>6
<1> QED
  BY <1>1, Zenon DEF UrlParse

-----------------------------------------------------------------------------
(* furl: its calls.                                                        *)

FinalPath(p) == IF p.path = <<>> /\ p.host # <<>> THEN <<Slash>> ELSE p.path
BuiltOf(p) == [p EXCEPT !.host = Unbracketed(p.host), !.path = FinalPath(p)]
UrlAccepted(p) ==
  ~((p.protocol # <<>> /\ ~ValidScheme(p.protocol)) \/ Unbracketed(p.host) = <<>>)

\* The parts that come back.
PartsRead(p) ==
  UrlRead(p.protocol, Unbracketed(p.host), p.port,
          IF p.path = <<>> THEN <<Slash>> ELSE p.path, p.query)

LEMMA ConstructedRead ==
  ASSUME NEW p, p \in FurlParts, UrlAccepted(p), WellPlaced(p)
  PROVE  UrlParse(UrlBuild(BuiltOf(p))) = PartsRead(p)
<1>1. PICK protocol \in Seq(FurlChars), whole \in Seq(FurlChars), given \in Seq(FurlChars),
           port \in Ports \cup {-1}, query \in Seq(Params) :
        p = [protocol |-> protocol, host |-> whole, path |-> given, port |-> port, query |-> query]
  BY FurlAssumption
<1>2. /\ p.protocol = protocol /\ p.host = whole /\ p.path = given /\ p.port = port
      /\ p.query = query
  BY <1>1
<1>3. PICK h, path : h = Unbracketed(whole) /\ path = FinalPath(p)
  BY Zenon
<1>4. /\ protocol # <<>> /\ ValidScheme(protocol) /\ h # <<>>
      /\ \A c \in Delimiters : ~Occurs(c, h)
      /\ given # <<>> => given[1] = Slash /\ ~Occurs(Question, given) /\ ~Occurs(Hash, given)
      /\ \A i \in DOMAIN query : query[i].name # <<>> \/ query[i].equal
  BY <1>2, <1>3, Zenon DEF UrlAccepted, WellPlaced
<1>5. h \in Seq(FurlChars) /\ whole # <<>>
  <2>1. Len(whole) \in Nat /\ whole = <<>> => Len(whole) = 0
    OBVIOUS
  <2>2. CASE Len(whole) >= 2 /\ whole[1] = OpenBracket /\ whole[Len(whole)] = CloseBracket
    <3>1. h = SubSeq(whole, 2, Len(whole) - 1)
      BY <1>3, <2>2, Zenon DEF Unbracketed
    <3>2. h \in Seq(FurlChars)
      BY <3>1
    <3>3. Len(whole) # 0
      BY <2>2
    <3> QED
      BY <2>1, <3>2, <3>3
  <2>3. CASE ~(Len(whole) >= 2 /\ whole[1] = OpenBracket /\ whole[Len(whole)] = CloseBracket)
    <3>1. h = whole
      BY <1>3, <2>3, Zenon DEF Unbracketed
    <3> QED
      BY <1>4, <3>1
  <2> QED
    BY <2>2, <2>3
<1>6. PlacedHost(h)
  BY <1>4, <1>5, Zenon DEF PlacedHost
<1>7. path = IF given = <<>> THEN <<Slash>> ELSE given
  BY <1>2, <1>3, <1>5, Zenon DEF FinalPath
<1>8. PlacedPath(path)
  <2>1. CASE given = <<>>
    <3>1. path = <<Slash>> /\ Slash \in FurlChars /\ Question # Slash /\ Hash # Slash
      BY <1>7, <2>1 DEF Slash, FurlChars, Question, Hash
    <3>2. ~Occurs(Question, path) /\ ~Occurs(Hash, path)
      BY <3>1, OccursOne, Zenon
    <3>3. path \in Seq(FurlChars) /\ path # <<>> /\ path[1] = Slash
      BY <3>1
    <3> QED
      BY <3>2, <3>3, Zenon DEF PlacedPath
  <2>2. CASE given # <<>>
    BY <1>4, <1>7, <2>2, Zenon DEF PlacedPath
  <2> QED
    BY <2>1, <2>2
<1>9. AllNamed(query)
  BY <1>4, Zenon DEF AllNamed
<1>10. PICK url : url = BuiltOf(p)
  BY Zenon
<1>11. /\ url.protocol = protocol /\ url.host = h /\ url.path = path /\ url.port = port
       /\ url.query = query
  BY <1>1, <1>2, <1>3, <1>10 DEF BuiltOf
<1>12. Authority(url) = AuthorityText(h, port)
  BY <1>11, Zenon DEF Authority, AuthorityText, HostPart, PortPart
<1>13. UrlBuild(url) = MainText(protocol, h, port, path)
                         \o (IF query # <<>> THEN <<Question>> \o QueryText(query) ELSE <<>>)
  BY <1>4, <1>11, <1>12, Zenon DEF UrlBuild, MainText
<1>14. UrlParse(UrlBuild(url)) = UrlRead(protocol, h, port, path, query)
  <2>1. UrlParse(MainText(protocol, h, port, path)
                   \o (IF query # <<>> THEN <<Question>> \o QueryText(query) ELSE <<>>))
          = UrlRead(protocol, h, port, path, query)
    BY <1>4, <1>6, <1>8, <1>9, BuiltRead
  <2> QED
    BY <1>13, <2>1, Zenon
<1> QED
  BY <1>2, <1>3, <1>7, <1>10, <1>14, Zenon DEF PartsRead

FurlFields(f) ==
  f = [op |-> f.op, parts |-> f.parts, text |-> f.text, pc |-> f.pc, printed |-> f.printed,
       asked |-> f.asked, answer |-> f.answer, exit |-> f.exit]

\* An extraction from a URL has told what it should.
Told(f, url) == f.answer = Reply(url, f.asked) /\ f.exit = ExtractStatus(url, f.asked)

\* What holds of furl between its two calls and after them.
FurlPhases(f) ==
  /\ FurlFields(f)
  /\ f.op = "encode" =>
       /\ f.text \in Seq(FurlChars)
       /\ f.pc = "second" => f.printed = UrlEncode(f.text)
       /\ f.pc = "done" => f.answer = UrlDecode(UrlEncode(f.text))
  /\ f.op = "construct" =>
       /\ f.parts \in FurlParts
       /\ f.pc = "first" => f.printed = <<>>
       /\ f.pc = "second" => UrlAccepted(f.parts) /\ f.printed = UrlBuild(BuiltOf(f.parts))
       /\ f.pc = "done" => \/ f.printed = <<>>
                           \/ /\ UrlAccepted(f.parts)
                              /\ Told(f, UrlParse(UrlBuild(BuiltOf(f.parts))))
  /\ f.op = "parse" /\ f.pc = "done" => Told(f, UrlParse(f.printed))

FurlInv == FurlPhases(furl)

LEMMA FurlInitInv == Init => FurlInv
<1> SUFFICES ASSUME Init
             PROVE  FurlInv
  OBVIOUS
<1>1. PICK f : f = furl
  OBVIOUS
<1>2. \/ f = FurlStart("encode", SomeParts, <<>>)
      \/ \E parts \in FurlParts : f = FurlStart("construct", parts, <<>>)
      \/ \E op \in {"encode", "parse"}, text \in FurlTexts : f = FurlStart(op, SomeParts, text)
  BY <1>1 DEF Init, FurlInit, FurlIdle
<1>3. ASSUME NEW op, NEW parts, NEW text, f = FurlStart(op, parts, text),
             text \in Seq(FurlChars), op = "construct" => parts \in FurlParts
      PROVE  FurlPhases(f)
  <2>1. /\ f.op = op /\ f.parts = parts /\ f.text = text /\ f.pc = "first"
        /\ f.printed = <<>> /\ FurlFields(f)
    BY <1>3 DEF FurlStart, FurlFields
  <2>2. f.pc # "second" /\ f.pc # "done"
    BY <2>1
  <2> QED
    BY <1>3, <2>1, <2>2, Zenon DEF FurlPhases
<1>4. FurlTexts \subseteq Seq(FurlChars) /\ <<>> \in Seq(FurlChars)
  BY FurlAssumption
<1>5. FurlPhases(f)
  <2>1. CASE f = FurlStart("encode", SomeParts, <<>>)
    <3>1. "encode" # "construct"
      OBVIOUS
    <3> QED
      BY <1>3, <1>4, <2>1, <3>1, Zenon
  <2>2. CASE \E parts \in FurlParts : f = FurlStart("construct", parts, <<>>)
    BY <1>3, <1>4, <2>2, Zenon
  <2>3. CASE \E op \in {"encode", "parse"}, text \in FurlTexts : f = FurlStart(op, SomeParts, text)
    <3>1. \A op \in {"encode", "parse"} : op # "construct"
      OBVIOUS
    <3>2. PICK op \in {"encode", "parse"}, text \in FurlTexts : f = FurlStart(op, SomeParts, text)
      BY <2>3, Zenon
    <3>3. text \in Seq(FurlChars)
      BY <1>4, <3>2
    <3> QED
      BY <1>3, <3>1, <3>2, <3>3, Zenon
  <2> QED
    BY <1>2, <2>1, <2>2, <2>3, Zenon
<1> QED
  BY <1>1, <1>5, Zenon DEF FurlInv

LEMMA FurlStepInv == FurlPhases(furl) /\ FurlStep => FurlPhases(furl')
<1> SUFFICES ASSUME FurlPhases(furl), FurlStep
             PROVE  FurlPhases(furl')
  OBVIOUS
<1>1. PICK f, g : f = furl /\ g = furl'
  OBVIOUS
<1>2. FurlFields(f)
  BY <1>1, Zenon DEF FurlPhases
<1>3. CASE Construct
  <2>1. PICK p : p = f.parts
    BY Zenon
  <2>2. f.op = "construct" /\ f.pc = "first" /\ p \in FurlParts /\ f.printed = <<>>
    BY <1>1, <1>3, <2>1, Zenon DEF FurlPhases, Construct
  <2>3. g = IF ~UrlAccepted(p) THEN [f EXCEPT !.pc = "done", !.exit = 2]
            ELSE [f EXCEPT !.pc = "second", !.exit = 0, !.printed = UrlBuild(BuiltOf(p))]
    BY <1>1, <1>3, <2>1, Zenon DEF Construct, UrlAccepted, BuiltOf, FinalPath
  <2>4. CASE ~UrlAccepted(p)
    <3>1. g = [f EXCEPT !.pc = "done", !.exit = 2]
      BY <2>3, <2>4
    <3>2. /\ FurlFields(g) /\ g.op = "construct" /\ g.parts = p /\ g.pc = "done"
          /\ g.printed = <<>>
      BY <1>2, <2>1, <2>2, <3>1, Zenon DEF FurlFields
    <3> QED
      BY <1>1, <2>2, <3>2 DEF FurlPhases
  <2>5. CASE UrlAccepted(p)
    <3>1. g = [f EXCEPT !.pc = "second", !.exit = 0, !.printed = UrlBuild(BuiltOf(p))]
      BY <2>3, <2>5
    <3>2. /\ FurlFields(g) /\ g.op = "construct" /\ g.parts = p /\ g.pc = "second"
          /\ g.printed = UrlBuild(BuiltOf(p))
      BY <1>2, <2>1, <2>2, <3>1, Zenon DEF FurlFields
    <3> QED
      BY <1>1, <2>2, <2>5, <3>2 DEF FurlPhases
  <2> QED
    BY <2>4, <2>5
<1>4. CASE Encode
  <2>1. f.op = "encode" /\ f.text \in Seq(FurlChars)
    BY <1>1, <1>4, Zenon DEF FurlPhases, Encode
  <2>2. g = [f EXCEPT !.pc = "second", !.exit = 0, !.printed = UrlEncode(f.text)]
    BY <1>1, <1>4, Zenon DEF Encode
  <2>3. /\ FurlFields(g) /\ g.op = "encode" /\ g.text = f.text /\ g.pc = "second"
        /\ g.printed = UrlEncode(f.text)
    BY <1>2, <2>1, <2>2, Zenon DEF FurlFields
  <2> QED
    BY <1>1, <2>1, <2>3 DEF FurlPhases
<1>5. CASE Given
  <2>1. g = [f EXCEPT !.pc = "second", !.printed = f.text] /\ f.op = "parse"
    BY <1>1, <1>5, Zenon DEF Given
  <2>2. FurlFields(g) /\ g.op = "parse" /\ g.pc = "second"
    BY <1>2, <2>1, Zenon DEF FurlFields
  <2> QED
    BY <1>1, <2>2 DEF FurlPhases
<1>6. CASE Decode
  <2>1. f.op = "encode" /\ f.text \in Seq(FurlChars) /\ f.printed = UrlEncode(f.text)
    BY <1>1, <1>6, Zenon DEF FurlPhases, Decode
  <2>2. PICK status : status = IF UrlDecode(f.printed).ok THEN 0 ELSE 2
    BY Zenon
  <2>3. g = [f EXCEPT !.pc = "done", !.answer = UrlDecode(f.printed), !.exit = status]
    BY <1>1, <1>6, <2>2, Zenon DEF Decode
  <2>4. /\ FurlFields(g) /\ g.op = "encode" /\ g.text = f.text /\ g.pc = "done"
        /\ g.answer = UrlDecode(f.printed)
    BY <1>2, <2>1, <2>3, Zenon DEF FurlFields
  <2> QED
    BY <1>1, <2>1, <2>4 DEF FurlPhases
<1>7. CASE Extract
  <2>1. PICK url : url = UrlParse(f.printed)
    BY Zenon
  <2>2. f.op # "encode" /\ f.pc = "second"
    BY <1>1, <1>7, Zenon DEF Extract
  <2>3. PICK asked \in Questions :
          g = [f EXCEPT !.pc = "done", !.asked = asked, !.answer = Reply(url, asked),
                        !.exit = ExtractStatus(url, asked)]
    BY <1>1, <1>7, <2>1, Zenon DEF Extract
  <2>4. PICK reply, status : reply = Reply(url, asked) /\ status = ExtractStatus(url, asked)
    BY Zenon
  <2>5. g = [f EXCEPT !.pc = "done", !.asked = asked, !.answer = reply, !.exit = status]
    BY <2>3, <2>4, Zenon
  <2>6. /\ FurlFields(g) /\ g.op = f.op /\ g.parts = f.parts /\ g.pc = "done"
        /\ g.printed = f.printed /\ g.asked = asked /\ g.answer = reply /\ g.exit = status
    BY <1>2, <2>5 DEF FurlFields
  <2>7. Told(g, url)
    BY <2>4, <2>6, Zenon DEF Told
  <2>8. f.op = "construct" =>
          /\ f.parts \in FurlParts /\ UrlAccepted(f.parts)
          /\ f.printed = UrlBuild(BuiltOf(f.parts))
    BY <1>1, <2>2, Zenon DEF FurlPhases
  <2> QED
    BY <1>1, <2>1, <2>2, <2>6, <2>7, <2>8 DEF FurlPhases
<1> QED
  BY <1>3, <1>4, <1>5, <1>6, <1>7 DEF FurlStep

LEMMA FurlInvRoundTrip == FurlInv => FurlRoundTrip
<1> SUFFICES ASSUME FurlInv
             PROVE  FurlRoundTrip
  OBVIOUS
<1>1. PICK f : f = furl
  OBVIOUS
<1>2. FurlPhases(f)
  BY <1>1 DEF FurlInv
<1>3. ASSUME f.pc = "done", f.op = "encode"
      PROVE  f.answer = [ok |-> TRUE, text |-> f.text]
  BY <1>2, <1>3, DecodesEncoded, Zenon DEF FurlPhases
<1>4. ASSUME f.pc = "done", f.op = "construct", f.printed # <<>>, WellPlaced(f.parts)
      PROVE  /\ f.answer = Reply(GivenUrl(f.parts), f.asked)
             /\ f.exit = IF Present(GivenUrl(f.parts), f.asked) THEN 0 ELSE 1
  <2>1. PICK url : url = GivenUrl(f.parts)
    BY Zenon
  <2>2. Told(f, url)
    <3>1. /\ Told(f, UrlParse(UrlBuild(BuiltOf(f.parts))))
          /\ f.parts \in FurlParts /\ UrlAccepted(f.parts)
      BY <1>2, <1>4, Zenon DEF FurlPhases
    <3>2. UrlParse(UrlBuild(BuiltOf(f.parts))) = url
      BY <1>4, <2>1, <3>1, ConstructedRead, Zenon DEF PartsRead, UrlRead, GivenUrl
    <3> QED
      BY <3>1, <3>2, Zenon
  <2>3. url.ok
    BY <2>1 DEF GivenUrl
  <2> QED
    BY <2>1, <2>2, <2>3, Zenon DEF Told, ExtractStatus
<1>5. ASSUME f.pc = "done", f.op = "parse"
      PROVE  /\ f.asked.part = "host" /\ f.exit = 1 => UrlParse(f.printed).protocol = <<>>
             /\ f.asked.part = "port" /\ f.exit = 0 => f.answer.part \in Ports
  <2>1. PICK url : url = UrlParse(f.printed)
    BY Zenon
  <2>2. /\ f.answer = Reply(url, f.asked)
        /\ f.exit = IF ~url.ok THEN 2 ELSE IF Present(url, f.asked) THEN 0 ELSE 1
    BY <1>2, <1>5, <2>1, Zenon DEF FurlPhases, Told, ExtractStatus
  <2>3. FoundUrl(url)
    BY <2>1, ParsedFacts, Zenon
  <2>4. ASSUME f.asked.part = "host", f.exit = 1 PROVE url.protocol = <<>>
    <3>1. url.ok /\ ~Present(url, f.asked)
      BY <2>2, <2>4
    <3>2. url.host = <<>>
      BY <2>4, <3>1 DEF Present
    <3> QED
      BY <2>3, <3>1, <3>2, Zenon DEF FoundUrl
  <2>5. ASSUME f.asked.part = "port", f.exit = 0 PROVE f.answer.part \in Ports
    <3>1. url.ok /\ Present(url, f.asked)
      BY <2>2, <2>5
    <3>2. url.port >= 0 /\ url.port \in Ports \cup {-1}
      BY <2>3, <2>5, <3>1 DEF Present, FoundUrl
    <3>3. PartOf(url, f.asked) = url["port"]
      BY <2>5, Zenon DEF PartOf
    <3>4. f.answer = [ok |-> TRUE, part |-> url.port]
      BY <2>2, <3>1, <3>3, Zenon DEF Reply
    <3> QED
      BY <3>2, <3>4
  <2> QED
    BY <2>1, <2>4, <2>5
<1> QED
  BY <1>1, <1>3, <1>4, <1>5, Zenon DEF FurlRoundTrip

\* Whatever text is encoded is given back by decoding, and a URL that is constructed gives
\* back its protocol, host, port, path and parameters, for parts of any length over all 256
\* bytes, with status 1 for what was not given; a URL from elsewhere that is accepted has a
\* host if it has a protocol, and a port in range.
THEOREM FurlFaithful == Spec => []FurlRoundTrip
<1>1. Init => FurlInv
  BY FurlInitInv
<1>2. FurlInv /\ [Next]_vars => FurlInv'
  <2> SUFFICES ASSUME FurlInv, [Next]_vars
               PROVE  FurlInv'
    OBVIOUS
  <2>1. CASE RunFurl
    <3>1. FurlStep
      BY <2>1 DEF RunFurl
    <3> QED
      BY <3>1, FurlStepInv DEF FurlInv
  <2>2. CASE UNCHANGED furl
    BY <2>2 DEF FurlInv
  <2> QED
    BY <2>1, <2>2 DEF Next, vars, files, Rest, RunBuniq, RunFill, RunKp, RunExe, RunBpatch,
                      RunBgrep, RunBhxx, RunSplitMerge
<1> QED
  BY <1>1, <1>2, FurlInvRoundTrip, PTL DEF Spec
=============================================================================
