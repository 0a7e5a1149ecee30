---------------------------- MODULE TimexProofs ----------------------------
(***************************************************************************)
(* Proofs about timex, while threads of one process select, detect and ask *)
(* for zones, others sleep and somebody sets the clock: of the selected    *)
(* zone and of what a query answers; of when a sleeping thread is woken,   *)
(* and that no call which says it has waited ends early, whatever signals  *)
(* come, timers fail and clocks are set.                                   *)
(***************************************************************************)
EXTENDS Timex, SequenceTheorems, NaturalsInduction, WellFoundedInduction, TLAPS

-----------------------------------------------------------------------------
(* The history of a zone.                                                  *)

\* Every second is in some period: the last one that has begun.
LEMMA PeriodExists ==
  ASSUME NEW zone \in Zones, NEW second \in Int
  PROVE  LET i == PeriodAt(zone, second)
         IN  /\ i \in DOMAIN History[zone]
             /\ i > 1 => History[zone][i].from <= second
             /\ i < Len(History[zone]) => second < History[zone][i + 1].from
<1> DEFINE h == History[zone]
           begun == {j \in DOMAIN h : j > 1 => h[j].from <= second}
           ahead == {n \in Nat : \E j \in begun : n = Len(h) - j}
<1>1. h \in Seq(Periods) /\ h # <<>>
  BY ZoneAssumption
<1>2. Len(h) \in Nat \ {0} /\ DOMAIN h = 1 .. Len(h)
  BY <1>1, EmptySeq, LenProperties
<1>3. 1 \in begun
  BY <1>2
<1>4. ahead \subseteq Nat /\ ahead # {}
  <2>1. Len(h) - 1 \in ahead
    BY <1>2, <1>3
  <2> QED
    BY <2>1
<1>5. PICK n \in ahead : \A m \in ahead : ~ (<<m, n>> \in OpToRel(<, Nat))
  BY <1>4, WFMin, NatLessThanWellFounded
<1>6. \A m \in ahead : ~ (m < n)
  BY <1>4, <1>5 DEF OpToRel
<1>7. PICK i \in begun : n = Len(h) - i
  BY <1>5
<1>8. ASSUME i < Len(h) PROVE second < h[i + 1].from
  <2>1. i + 1 \in DOMAIN h
    BY <1>2, <1>8
  <2>2. Len(h) - (i + 1) < n
    BY <1>2, <1>7
  <2>3. i + 1 \notin begun
    BY <1>6, <2>2
  <2>4. h[i + 1] \in Periods
    BY <1>1, <2>1
  <2> QED
    BY <2>1, <2>3, <2>4, <1>2 DEF Periods
<1>9. /\ i \in DOMAIN h
      /\ i > 1 => h[i].from <= second
      /\ i < Len(h) => second < h[i + 1].from
  BY <1>8
<1> QED
  BY <1>9 DEF PeriodAt

\* An answer is true of the second asked about, and of every second of the interval it
\* names.
LEMMA QueryIsSound ==
  ASSUME NEW zone \in Zones, NEW second \in Nat, NEW info \in QueryZone(zone, second)
  PROVE  /\ info \in [begin : Nat, end : Nat, offset : Int, save : Int]
         /\ info.offset = History[zone][PeriodAt(zone, second)].offset
         /\ second >= info.begin
         /\ second <= IF info.end = MaxSecond THEN MaxIcuSeconds ELSE info.end - 1
         /\ \A other \in info.begin .. (IF info.end = MaxSecond THEN MaxIcuSeconds
                                        ELSE info.end - 1) :
              PeriodAt(zone, other) = PeriodAt(zone, second)
         /\ info.save = History[zone][PeriodAt(zone, second)].save
<1> DEFINE h == History[zone]
           i == PeriodAt(zone, second)
<1> USE DEF TransitionSeconds
<1>1. /\ h \in Seq(Periods) /\ Len(h) \in Nat /\ DOMAIN h = 1 .. Len(h)
      /\ \A j \in 1 .. Len(h) : h[j] \in Periods
      /\ \A j, k \in 2 .. Len(h) : j < k => h[j].from < h[k].from
  BY ZoneAssumption, LenProperties, ElementOfSeq
<1> HIDE DEF h
<1>2. /\ i \in 1 .. Len(h)
      /\ i > 1 => h[i].from <= second
      /\ i < Len(h) => second < h[i + 1].from
  <2>1. LET k == PeriodAt(zone, second)
        IN  /\ k \in DOMAIN History[zone]
            /\ k > 1 => History[zone][k].from <= second
            /\ k < Len(History[zone]) => second < History[zone][k + 1].from
    BY PeriodExists
  <2> QED
    BY <1>1, <2>1 DEF h
<1> HIDE DEF i
<1> DEFINE begin == IntervalBegin(zone, second)
           end == IntervalEnd(zone, second)
<1>3. /\ ~(second > MaxIcuSeconds) /\ ~(begin > second)
      /\ ~(end # MaxSecond /\ end <= second)
      /\ info = [begin |-> begin, end |-> end,
                 offset |-> h[i].offset, save |-> h[i].save]
  BY DEF QueryZone, h, i
<1>4. /\ i = 1 => begin = 0
      /\ i > 1 => begin = TransitionSeconds(h[i].from)
      /\ i = Len(h) => end = MaxSecond
      /\ i < Len(h) => end = TransitionSeconds(h[i + 1].from)
  BY <1>2 DEF IntervalBegin, IntervalEnd, h, i
<1>5. MaxIcuSeconds \in Nat /\ MaxSecond \in Nat /\ MaxIcuSeconds < MaxSecond
  <2>1. MaxSecond \in Nat /\ MaxIcuSeconds \in 0 .. MaxSecond - 1
    BY ZoneAssumption, Zenon
  <2> QED
    BY <2>1
<1>6. begin \in Nat /\ end \in Nat
  <2>1. h[i] \in Periods /\ (i < Len(h) => h[i + 1] \in Periods)
    BY <1>1, <1>2
  <2> QED
    BY <2>1, <1>2, <1>4, <1>5 DEF Periods
<1>7. h[i].offset \in Int /\ h[i].save \in Int
  BY <1>1, <1>2 DEF Periods
<1>8. ASSUME NEW other \in begin .. (IF end = MaxSecond THEN MaxIcuSeconds ELSE end - 1)
      PROVE  PeriodAt(zone, other) = i
  <2> DEFINE j == PeriodAt(zone, other)
  <2>1. other \in Int /\ begin <= other
    BY <1>5, <1>6
  <2>2. /\ j \in 1 .. Len(h)
        /\ j > 1 => h[j].from <= other
        /\ j < Len(h) => other < h[j + 1].from
    BY <1>1, <2>1, PeriodExists DEF h
  <2>3. /\ other < end
        /\ end > second
    BY <1>3, <1>5, <1>6, <2>1
  <2> HIDE DEF j, begin, end
  <2>4. CASE j > i
    <3>1. end = h[i + 1].from
      BY <1>1, <1>2, <1>4, <2>2, <2>3, <2>4 DEF Periods
    <3>2. h[i + 1].from <= h[j].from
      <4>1. CASE j = i + 1
        BY <4>1, <1>1, <2>2 DEF Periods
      <4>2. CASE j > i + 1
        <5>1. i + 1 \in 2 .. Len(h) /\ j \in 2 .. Len(h) /\ i + 1 < j
          BY <4>2, <1>1, <1>2, <2>2
        <5>2. h[i + 1].from < h[j].from
          BY <5>1, <1>1
        <5>3. h[i + 1] \in Periods /\ h[j] \in Periods
          BY <5>1, <1>1
        <5> QED
          BY <5>2, <5>3 DEF Periods
      <4> QED
        BY <4>1, <4>2, <1>2, <2>2, <2>4
    <3>3. h[j] \in Periods /\ h[i + 1] \in Periods
      BY <1>1, <1>2, <2>2, <2>4
    <3> QED
      BY <3>1, <3>2, <3>3, <1>2, <2>1, <2>2, <2>3, <2>4 DEF Periods
  <2>5. CASE j < i
    <3>1. h[j + 1].from <= h[i].from
      <4>1. CASE i = j + 1
        BY <4>1, <1>1, <1>2 DEF Periods
      <4>2. CASE i > j + 1
        <5>1. j + 1 \in 2 .. Len(h) /\ i \in 2 .. Len(h) /\ j + 1 < i
          BY <4>2, <1>1, <1>2, <2>2
        <5>2. h[j + 1].from < h[i].from
          BY <5>1, <1>1
        <5>3. h[j + 1] \in Periods /\ h[i] \in Periods
          BY <5>1, <1>1
        <5> QED
          BY <5>2, <5>3 DEF Periods
      <4> QED
        BY <4>1, <4>2, <1>2, <2>2, <2>5
    <3>2. h[j + 1] \in Periods /\ h[i] \in Periods
      BY <1>1, <1>2, <2>2, <2>5
    <3>3. h[i].from <= begin
      BY <3>2, <1>2, <1>4, <2>2, <2>5 DEF Periods
    <3> QED
      BY <3>1, <3>2, <3>3, <1>2, <1>6, <2>1, <2>2, <2>5 DEF Periods
  <2> QED
    BY <1>1, <1>2, <2>2, <2>4, <2>5 DEF j
<1>9. /\ second >= begin
      /\ second <= IF end = MaxSecond THEN MaxIcuSeconds ELSE end - 1
  BY <1>3, <1>5, <1>6
<1> HIDE DEF begin, end
<1>10. info.begin = begin /\ info.end = end /\ info.offset = h[i].offset
       /\ info.save = h[i].save
  BY <1>3
<1> QED
  BY <1>3, <1>6, <1>7, <1>8, <1>9, <1>10 DEF h


-----------------------------------------------------------------------------
(* The calls.                                                              *)

Infos == [begin : Nat, end : Nat, offset : Int, save : Int]

Shape == ZonesTypeOK /\ mono \in Nat /\ offset \in Int

\* A thread is under the mutex when it holds it, and it detects only what nobody has
\* selected.
Exclusion ==
  /\ \A t \in Callers : mutex = t <=> caller[t].pc \in {"detect", "held"}
  /\ \A t \in Callers : caller[t].pc = "detect" => selected = ""
  /\ \A t \in Callers : caller[t].pc = "held" => selected # ""

\* What is stored or asked about is a zone, and it is stored when a selection was asked.
Named ==
  \A t \in Callers :
    /\ caller[t].pc \in {"store", "query"} => caller[t].zone # ""
    /\ caller[t].pc = "store" => caller[t].request.op = "select"

ZonesInv == Shape /\ Exclusion /\ Named /\ SelectionHolds /\ InfoIsSound

\* A canonical identifier is a zone's.
LEMMA NormalizeType == \A name \in Names : Normalize(name) \in Zones \cup {""}
  BY ZoneAssumption, Zenon DEF Normalize

\* What is asked about is a second, of a zone that has a name.
LEMMA RequestSeconds ==
  \A r \in Requests : /\ r.op \in {"info", "local"} => r.second \in Nat
                      /\ r.op = "info" => r.name \in Names
<1>1. Queries \subseteq Names \X (0 .. MaxSecond) /\ MaxSecond \in Nat
  BY ZoneAssumption, Zenon
<1>2. \A q \in Queries : q[1] \in Names /\ q[2] \in Nat
  BY <1>1
<1> QED
  BY <1>2 DEF Requests

LEMMA TurnType ==
  ASSUME caller \in [Callers -> Threads], NEW t \in Callers, NEW c \in Threads, Turn(t, c)
  PROVE  /\ caller' \in [Callers -> Threads]
         /\ caller'[t] = c
         /\ \A u \in Callers \ {t} : caller'[u] = caller[u]
  BY DEF Turn

\* What InfoIsSound says of one thread.
Sound(c) ==
  LET seconds == c.info.begin .. (IF c.info.end = MaxSecond THEN MaxIcuSeconds
                                  ELSE c.info.end - 1)
  IN  c.pc = "ready" /\ c.outcome = "ok" /\ c.request.op \in {"now", "info", "local"} =>
        /\ c.second \in seconds
        /\ \A second \in seconds :
             /\ History[c.zone][PeriodAt(c.zone, second)].offset = c.info.offset
             /\ History[c.zone][PeriodAt(c.zone, second)].save = c.info.save
        /\ c.request.op = "local" =>
             c.local = c.second + History[c.zone][PeriodAt(c.zone, c.second)].offset

LEMMA SoundAll == InfoIsSound <=> \A t \in Callers : Sound(caller[t])
  BY DEF InfoIsSound, Sound

-----------------------------------------------------------------------------
LEMMA InitZonesInv == Init => ZonesInv
<1> SUFFICES ASSUME Init PROVE ZonesInv
  OBVIOUS
<1>1. caller \in [Callers -> {[Resting EXCEPT !.made = n] : n \in 0 .. MaxRequests}]
  BY DEF Init, ZoneInit
<1>2. ASSUME NEW n \in 0 .. MaxRequests
      PROVE  /\ [Resting EXCEPT !.made = n] \in Threads
             /\ [Resting EXCEPT !.made = n].pc = "ready"
             /\ [Resting EXCEPT !.made = n].outcome = "none"
  <2>1. n \in Nat
    <3>1. MaxRequests \in Nat
      BY ZoneAssumption, Zenon
    <3> QED
      BY <3>1
  <2>2. [op |-> "current"] \in Requests
    BY DEF Requests
  <2>3. NoInfo \in Infos
    BY DEF NoInfo, Infos
  <2>4. Resting \in Threads /\ Resting.pc = "ready" /\ Resting.outcome = "none"
    BY <2>2, <2>3 DEF Resting, Threads, Infos
  <2> QED
    BY <2>1, <2>4 DEF Threads
<1>3. ASSUME NEW t \in Callers
      PROVE  caller[t] \in Threads /\ caller[t].pc = "ready" /\ caller[t].outcome = "none"
  <2>1. PICK n \in 0 .. MaxRequests : caller[t] = [Resting EXCEPT !.made = n]
    BY <1>1, Zenon
  <2> QED
    BY <1>2, <2>1
<1>4. caller \in [Callers -> Threads]
  BY <1>1, <1>3
<1>5. Shape
  <2>1. mono \in Nat /\ offset \in Int
    BY ClockAssumption DEF Init, ClockInit
  <2> QED
    BY <1>4, <2>1 DEF Shape, ZonesTypeOK, Init, ZoneInit
<1>6. Exclusion
  <2>1. NoCaller \notin Callers
    BY ZoneAssumption, Zenon
  <2> QED
    BY <2>1, <1>3 DEF Exclusion, Init, ZoneInit
<1>7. Named /\ SelectionHolds /\ InfoIsSound
  BY <1>3, SoundAll DEF Named, SelectionHolds, Sound, Init, ZoneInit
<1> QED
  BY <1>5, <1>6, <1>7 DEF ZonesInv

\* One thread's turn keeps the invariant if it does so for that thread, and if what
\* is selected changes only while no other thread is under the mutex.
LEMMA TurnZonesInv ==
  ASSUME ZonesInv, NEW t \in Callers, NEW c \in Threads, Turn(t, c), UNCHANGED clock,
         selected' \in Zones \cup {""}, chosen' \in Zones \cup {""}, SelectionHolds',
         mutex' \in {mutex, t, NoCaller},
         \A u \in Callers \ {t} : mutex' = u <=> mutex = u,
         mutex' = t <=> c.pc \in {"detect", "held"},
         selected' = selected \/ \A u \in Callers \ {t} : mutex # u,
         c.pc = "detect" => selected' = "",
         c.pc = "held" => selected' # "",
         c.pc \in {"store", "query"} => c.zone # "",
         c.pc = "store" => c.request.op = "select",
         Sound(c)
  PROVE  ZonesInv'
<1>1. /\ caller' \in [Callers -> Threads]
      /\ caller'[t] = c
      /\ \A u \in Callers \ {t} : caller'[u] = caller[u]
  BY TurnType DEF ZonesInv, Shape, ZonesTypeOK
<1>2. Shape'
  BY <1>1 DEF ZonesInv, Shape, ZonesTypeOK, clock
<1>3. ASSUME NEW u \in Callers
      PROVE  /\ mutex' = u <=> caller'[u].pc \in {"detect", "held"}
             /\ caller'[u].pc = "detect" => selected' = ""
             /\ caller'[u].pc = "held" => selected' # ""
             /\ caller'[u].pc \in {"store", "query"} => caller'[u].zone # ""
             /\ caller'[u].pc = "store" => caller'[u].request.op = "select"
  <2>1. CASE u = t
    BY <2>1, <1>1
  <2>2. CASE u # t
    BY <2>2, <1>1 DEF ZonesInv, Exclusion, Named
  <2> QED
    BY <2>1, <2>2
<1>4. Exclusion' /\ Named'
  BY <1>3 DEF Exclusion, Named
<1>5. ASSUME NEW u \in Callers PROVE Sound(caller'[u])
  BY <1>1, SoundAll DEF ZonesInv
<1>6. InfoIsSound'
  BY <1>5 DEF InfoIsSound, Sound
<1> QED
  BY <1>2, <1>4, <1>6 DEF ZonesInv

\* A thread that is not yet through, or failed, or was asked for no information, has
\* nothing to be sound about.
LEMMA NothingSaid ==
  \A c : \/ c.pc # "ready" \/ c.outcome # "ok"
         \/ c.request.op \notin {"now", "info", "local"}
         => Sound(c)
  BY DEF Sound

\* Calls: a zone's name is canonical before it is stored or asked about.
LEMMA CallZonesInv ==
  ASSUME ZonesInv, NEW t \in Callers, NEW r \in Requests, Call(t, r)
  PROVE  ZonesInv'
<1> DEFINE c == [caller[t] EXCEPT !.request = r, !.outcome = "none", !.info = NoInfo,
                                  !.made = @ + 1]
<1>1. caller[t] \in Threads
  BY DEF ZonesInv, Shape, ZonesTypeOK
<1>2. c \in Threads /\ c.outcome = "none" /\ c.request = r
  <2>1. NoInfo \in Infos
    BY DEF NoInfo, Infos
  <2>2. ASSUME NEW d \in Threads
        PROVE  LET e == [d EXCEPT !.request = r, !.outcome = "none", !.info = NoInfo,
                                  !.made = @ + 1]
               IN  e \in Threads /\ e.outcome = "none" /\ e.request = r
    <3> DEFINE f == [d EXCEPT !.request = r, !.outcome = "none"]
    <3>1. f \in Threads /\ f.outcome = "none" /\ f.request = r
      BY DEF Threads
    <3> DEFINE n == d.made + 1
    <3>2. n \in Nat
      <4>1. d.made \in Nat
        BY DEF Threads
      <4> QED
        BY <4>1
    <3> HIDE DEF f, n
    <3> DEFINE e == [f EXCEPT !.info = NoInfo, !.made = n]
    <3>3. e \in Threads /\ e.outcome = "none" /\ e.request = r
      BY <2>1, <3>1, <3>2 DEF Threads, Infos
    <3> QED
      BY <3>3, Zenon DEF f, n
  <2> QED
    BY <1>1, <2>2
<1> HIDE DEF c
<1>3. caller[t].pc = "ready" /\ UNCHANGED <<clock, selected, mutex, chosen>>
  BY DEF Call
<1>4. mutex # t /\ \A u \in Callers \ {t} : mutex' = u <=> mutex = u
  BY <1>3 DEF ZonesInv, Exclusion
<1>5. ASSUME NEW d \in Threads, Turn(t, d), d.pc \in {"ready", "lock", "store", "query"},
             d.outcome # "ok", d.pc \in {"store", "query"} => d.zone # "",
             d.pc = "store" => d.request.op = "select"
      PROVE  ZonesInv'
  <2>1. Sound(d)
    BY <1>5, NothingSaid
  <2>2. SelectionHolds'
    BY <1>3 DEF ZonesInv, SelectionHolds
  <2> QED
    BY <1>3, <1>4, <1>5, <2>1, <2>2, TurnZonesInv DEF ZonesInv, Shape, ZonesTypeOK
<1> DEFINE Told(second, zone) == [c EXCEPT !.zone = zone, !.second = second]
<1>6. ASSUME Turn(t, Answer(c, "error")) PROVE ZonesInv'
  <2>1. /\ Answer(c, "error") \in Threads /\ Answer(c, "error").pc = "ready"
        /\ Answer(c, "error").outcome = "error"
    BY <1>2 DEF Answer, Threads
  <2> QED
    BY <1>5, <1>6, <2>1
<1>7. CASE r.op = "select" /\ CallSelect(t, c, r.name)
  <2>1. r.name \in Names
    BY <1>7 DEF Requests
  <2> DEFINE d == Go([c EXCEPT !.zone = Normalize(r.name)], "store")
  <2>2. ASSUME Normalize(r.name) # "" /\ Turn(t, d) PROVE ZonesInv'
    <3>1. /\ d \in Threads /\ d.pc = "store" /\ d.outcome = "none"
          /\ d.zone = Normalize(r.name) /\ d.request = r
      BY <1>2, <2>1, NormalizeType DEF Go, Threads
    <3> QED
      BY <1>5, <1>7, <2>2, <3>1
  <2> QED
    BY <1>6, <1>7, <2>2 DEF CallSelect
<1>8. CASE \/ r.op = "current" /\ Turn(t, Go(c, "lock"))
           \/ r.op = "local" /\ Turn(t, Go([c EXCEPT !.second = r.second], "lock"))
           \/ r.op = "now" /\ CallNow(t, c)
  <2>1. ASSUME NEW second \in Nat, Turn(t, Go([c EXCEPT !.second = second], "lock"))
        PROVE  ZonesInv'
    <3> DEFINE d == Go([c EXCEPT !.second = second], "lock")
    <3>1. d \in Threads /\ d.pc = "lock" /\ d.outcome = "none"
      BY <1>2 DEF Go, Threads
    <3> QED
      BY <1>5, <2>1, <3>1
  <2>2. ASSUME Turn(t, Go(c, "lock")) PROVE ZonesInv'
    <3>1. Go(c, "lock") \in Threads /\ Go(c, "lock").pc = "lock"
          /\ Go(c, "lock").outcome = "none"
      BY <1>2 DEF Go, Threads
    <3> QED
      BY <1>5, <2>2, <3>1
  <2>3. r.op = "local" => r.second \in Nat
    BY RequestSeconds
  <2>4. ~(Wall < 0) => Wall \in Nat
    <3>1. mono \in Nat /\ offset \in Int
      BY DEF ZonesInv, Shape
    <3> QED
      BY <3>1 DEF Wall
  <2> QED
    BY <1>6, <1>8, <2>1, <2>2, <2>3, <2>4 DEF CallNow
<1>9. CASE r.op = "info" /\ CallInfo(t, c, r.name, r.second)
  <2> DEFINE d == Go([c EXCEPT !.zone = Normalize(r.name), !.second = r.second], "query")
  <2>1. r.name \in Names /\ r.second \in Nat
    BY <1>9, RequestSeconds
  <2>2. ASSUME Normalize(r.name) # "" /\ Turn(t, d) PROVE ZonesInv'
    <3>1. /\ d \in Threads /\ d.pc = "query" /\ d.outcome = "none"
          /\ d.zone = Normalize(r.name)
      BY <1>2, <2>1, NormalizeType DEF Go, Threads
    <3> QED
      BY <1>5, <2>2, <3>1
  <2> QED
    BY <1>6, <1>9, <2>2 DEF CallInfo
<1> QED
  BY <1>7, <1>8, <1>9 DEF Call, c

-----------------------------------------------------------------------------
\* What the thread t may do with its record: the parts a step does not name are kept.
LEMMA Parts ==
  ASSUME NEW c \in Threads
  PROVE  /\ \A o \in {"ok", "error"} :
              /\ Answer(c, o) \in Threads /\ Answer(c, o).pc = "ready"
              /\ Answer(c, o).outcome = o /\ Answer(c, o).request = c.request
         /\ \A pc \in {"detect", "held", "query"} :
              /\ Go(c, pc) \in Threads /\ Go(c, pc).pc = pc
              /\ Go(c, pc).zone = c.zone
  BY DEF Answer, Go, Threads

\* select_zone stores: no thread is under the mutex.
LEMMA StoreZonesInv == ASSUME ZonesInv, NEW t \in Callers, Store(t) PROVE ZonesInv'
<1> DEFINE c == caller[t]
<1>1. /\ c \in Threads /\ c.pc = "store" /\ c.zone \in Zones /\ c.zone # ""
      /\ c.request.op = "select"
  BY DEF ZonesInv, Shape, ZonesTypeOK, Named, Threads, Store
<1>2. /\ mutex = NoCaller /\ NoCaller \notin Callers /\ mutex' = mutex
      /\ selected' = c.zone /\ chosen' = c.zone /\ UNCHANGED clock
  BY ZoneAssumption, Zenon DEF Store
<1> DEFINE d == Answer(c, "ok")
<1>3. Turn(t, d)
  BY DEF Store
<1>4. d \in Threads /\ d.pc = "ready" /\ d.request = c.request
  BY <1>1, Parts
<1> HIDE DEF d
<1>5. Sound(d)
  BY <1>1, <1>4, NothingSaid
<1>6. SelectionHolds'
  BY <1>2 DEF SelectionHolds
<1> HIDE DEF c
<1> QED
  BY <1>1, <1>2, <1>3, <1>4, <1>5, <1>6, TurnZonesInv

LEMMA LockZonesInv == ASSUME ZonesInv, NEW t \in Callers, Lock(t) PROVE ZonesInv'
<1> DEFINE d == Go(caller[t], IF selected = "" THEN "detect" ELSE "held")
<1>1. /\ mutex = NoCaller /\ NoCaller \notin Callers /\ mutex' = t
      /\ UNCHANGED <<clock, selected, chosen>> /\ Turn(t, d)
  BY ZoneAssumption, Zenon DEF Lock
<1>2. /\ d \in Threads
      /\ d.pc = IF selected = "" THEN "detect" ELSE "held"
  BY Parts DEF ZonesInv, Shape, ZonesTypeOK
<1> HIDE DEF d
<1>3. Sound(d) /\ SelectionHolds'
  BY <1>1, <1>2, NothingSaid DEF ZonesInv, SelectionHolds
<1> QED
  BY <1>1, <1>2, <1>3, TurnZonesInv DEF ZonesInv, Shape, ZonesTypeOK

\* The zone detected is stored under the mutex: nobody has selected one since the
\* thread looked, since whoever stores one waits for the mutex.
LEMMA DetectZonesInv == ASSUME ZonesInv, NEW t \in Callers, Detect(t) PROVE ZonesInv'
<1> DEFINE d == Go(caller[t], "held")
<1>1. /\ caller[t].pc = "detect" /\ selected' \in Zones
      /\ UNCHANGED <<clock, mutex, chosen>> /\ Turn(t, d)
  BY DEF Detect
<1>2. d \in Threads /\ d.pc = "held"
  BY Parts DEF ZonesInv, Shape, ZonesTypeOK
<1> HIDE DEF d
<1>3. mutex = t /\ selected = ""
  BY <1>1 DEF ZonesInv, Exclusion
<1>4. Sound(d) /\ SelectionHolds'
  BY <1>1, <1>2, <1>3, NothingSaid DEF ZonesInv, SelectionHolds
<1>5. selected' # ""
  BY <1>1, ZoneAssumption, Zenon
<1> QED
  BY <1>1, <1>2, <1>3, <1>4, <1>5, TurnZonesInv DEF ZonesInv, Shape, ZonesTypeOK

\* Where the mutex is given back.
LEMMA ReleaseZonesInv ==
  ASSUME ZonesInv, NEW t \in Callers, NEW d \in Threads, Turn(t, d),
         caller[t].pc \in {"detect", "held"}, mutex' = NoCaller,
         UNCHANGED <<clock, selected, chosen>>,
         d.pc \in {"ready", "query"}, d.pc = "query" => d.zone # "", Sound(d)
  PROVE  ZonesInv'
<1>1. NoCaller \notin Callers
  BY ZoneAssumption, Zenon
<1>2. mutex = t
  BY DEF ZonesInv, Exclusion
<1>3. SelectionHolds'
  BY DEF ZonesInv, SelectionHolds
<1> QED
  BY <1>1, <1>2, <1>3, TurnZonesInv DEF ZonesInv, Shape, ZonesTypeOK

LEMMA DetectFailsZonesInv == ASSUME ZonesInv, NEW t \in Callers, DetectFails(t) PROVE ZonesInv'
<1> DEFINE d == Answer(caller[t], "error")
<1>1. /\ caller[t].pc = "detect" /\ mutex' = NoCaller
      /\ UNCHANGED <<clock, selected, chosen>> /\ Turn(t, d)
  BY DEF DetectFails
<1>2. d \in Threads /\ d.pc = "ready" /\ d.outcome = "error"
  BY Parts DEF ZonesInv, Shape, ZonesTypeOK
<1> HIDE DEF d
<1>3. Sound(d)
  BY <1>2, NothingSaid
<1> QED
  BY <1>1, <1>2, <1>3, ReleaseZonesInv

LEMMA UnlockZonesInv == ASSUME ZonesInv, NEW t \in Callers, Unlock(t) PROVE ZonesInv'
<1> DEFINE c == [caller[t] EXCEPT !.zone = selected]
           d == IF c.request.op = "current" THEN Answer(c, "ok") ELSE Go(c, "query")
<1>1. /\ c.pc = "held" /\ mutex' = NoCaller
      /\ UNCHANGED <<clock, selected, chosen>> /\ Turn(t, d)
  BY DEF Unlock
<1>2. /\ caller[t] \in Threads /\ caller[t].pc = "held"
      /\ c \in Threads /\ c.zone = selected
  BY <1>1 DEF ZonesInv, Shape, ZonesTypeOK, Threads
<1>3. selected # ""
  BY <1>2 DEF ZonesInv, Exclusion
<1> HIDE DEF c
<1>4. /\ d \in Threads /\ d.pc \in {"ready", "query"}
      /\ d.pc = "query" => d.zone = selected
      /\ d.pc = "ready" => d.request.op = "current"
  BY <1>2, Parts
<1> HIDE DEF d
<1>5. Sound(d)
  BY <1>4, NothingSaid
<1> QED
  BY <1>1, <1>2, <1>3, <1>4, <1>5, ReleaseZonesInv

LEMMA QueryZonesInv == ASSUME ZonesInv, NEW t \in Callers, Query(t) PROVE ZonesInv'
<1> DEFINE c == caller[t]
<1>1. /\ c \in Threads /\ c.pc = "query" /\ c.zone \in Zones
      /\ UNCHANGED <<clock, selected, mutex, chosen>>
  BY DEF ZonesInv, Shape, ZonesTypeOK, Named, Threads, Query
<1>2. mutex # t /\ SelectionHolds'
  BY <1>1 DEF ZonesInv, Exclusion, SelectionHolds
<1>3. ASSUME NEW d \in Threads, Turn(t, d), d.pc = "ready", Sound(d) PROVE ZonesInv'
  BY <1>1, <1>2, <1>3, TurnZonesInv DEF ZonesInv, Shape, ZonesTypeOK
<1>4. ASSUME Turn(t, Answer(c, "error")) PROVE ZonesInv'
  <2> DEFINE d == Answer(c, "error")
  <2>1. d \in Threads /\ d.pc = "ready" /\ d.outcome = "error"
    BY <1>1, Parts
  <2>2. Sound(d)
    BY <2>1, NothingSaid
  <2> QED
    BY <1>3, <1>4, <2>1, <2>2
<1>5. ASSUME NEW info \in QueryZone(c.zone, c.second),
             Turn(t, Answer([c EXCEPT !.info = info,
                                      !.local = c.second + info.offset], "ok"))
      PROVE  ZonesInv'
  <2> DEFINE local == c.second + info.offset
             e == [c EXCEPT !.info = info, !.local = local]
             d == Answer(e, "ok")
  <2>1. c.second \in Nat
    BY <1>1 DEF Threads
  <2>2. /\ info \in Infos
        /\ info.offset = History[c.zone][PeriodAt(c.zone, c.second)].offset
        /\ info.save = History[c.zone][PeriodAt(c.zone, c.second)].save
        /\ c.second >= info.begin
        /\ c.second <= IF info.end = MaxSecond THEN MaxIcuSeconds ELSE info.end - 1
        /\ \A other \in info.begin .. (IF info.end = MaxSecond THEN MaxIcuSeconds
                                       ELSE info.end - 1) :
             PeriodAt(c.zone, other) = PeriodAt(c.zone, c.second)
    BY <1>1, <2>1, QueryIsSound DEF Infos
  <2>3. local \in Int
    BY <2>1, <2>2 DEF Infos
  <2>4. local = c.second + info.offset
    OBVIOUS
  <2> HIDE DEF local
  <2>5. /\ e \in Threads /\ e.info = info /\ e.local = local
        /\ e.zone = c.zone /\ e.second = c.second
    BY <1>1, <2>2, <2>3 DEF Threads, Infos
  <2> HIDE DEF e
  <2>6. /\ d \in Threads /\ d.pc = "ready" /\ d.info = info /\ d.local = local
        /\ d.zone = c.zone /\ d.second = c.second
    BY <2>5 DEF Answer, Threads
  <2> HIDE DEF d, c
  <2>7. c.second \in info.begin .. (IF info.end = MaxSecond THEN MaxIcuSeconds
                                    ELSE info.end - 1)
    <3>1. MaxIcuSeconds \in Int
      <4>1. MaxIcuSeconds \in 0 .. MaxSecond - 1
        BY ZoneAssumption, Zenon
      <4> QED
        BY <4>1
    <3> QED
      BY <2>1, <2>2, <3>1 DEF Infos
  <2>8. Sound(d)
    BY <2>2, <2>4, <2>6, <2>7 DEF Sound
  <2> QED
    BY <1>3, <1>5, <2>6, <2>8 DEF d, e, local
<1> QED
  BY <1>4, <1>5 DEF Query

-----------------------------------------------------------------------------
(* The specification.                                                      *)

LEMMA NextZonesInv == ZonesInv /\ [Next]_vars => ZonesInv'
<1> SUFFICES ASSUME ZonesInv, [Next]_vars PROVE ZonesInv'
  OBVIOUS
<1>1. ASSUME NEW t \in Callers, ZoneCall(t) PROVE ZonesInv'
  BY <1>1, CallZonesInv, StoreZonesInv, LockZonesInv, DetectZonesInv,
     DetectFailsZonesInv, UnlockZonesInv,
     QueryZonesInv DEF ZoneCall, ZoneStep, Proceed
<1>2. ASSUME UNCHANGED zoneVars, mono' \in Nat, offset' \in Int PROVE ZonesInv'
  BY <1>2 DEF zoneVars, ZonesInv, Shape, ZonesTypeOK, Exclusion, Named, SelectionHolds,
     InfoIsSound
<1>3. mono \in Nat /\ offset \in Int
  BY DEF ZonesInv, Shape
<1>4. ASSUME NEW t \in Sleepers, SleepCall(t) PROVE ZonesInv'
  <2>1. UNCHANGED <<clock, zoneVars>>
    BY <1>4 DEF SleepCall, SleepStep, SleepOn, Begin, Wake, Resume, StartSleep,
       StartTimer, SleepEnds, TimerEnds, Check, Interrupt, Fail, NoTimer
  <2> QED
    BY <1>2, <1>3, <2>1 DEF clock
<1>5. ASSUME Passing \/ Setting PROVE ZonesInv'
  <2>1. UNCHANGED zoneVars
    BY <1>5 DEF Passing, Setting
  <2>2. mono' \in Nat /\ offset' \in Int
    BY <1>3, <1>5, ClockAssumption DEF Passing, Setting, SleepTick, Tick, Adjust
  <2> QED
    BY <1>2, <2>1, <2>2
<1>6. ASSUME UNCHANGED vars PROVE ZonesInv'
  <2>1. UNCHANGED <<clock, zoneVars>>
    BY <1>6 DEF vars
  <2> QED
    BY <1>2, <1>3, <2>1 DEF clock
<1> QED
  BY <1>1, <1>4, <1>5, <1>6 DEF Next, Quiet

LEMMA AlwaysZonesInv == Spec => []ZonesInv
  BY InitZonesInv, NextZonesInv, PTL DEF Spec

\* The zone selected, the mutex and what the threads do keep their types.
THEOREM ZonesTypeCorrect == Spec => []ZonesTypeOK
  BY AlwaysZonesInv, PTL DEF ZonesInv, Shape

\* However many threads select a zone and detect the system's: what was selected last
\* is what is used.
THEOREM ZoneStaysSelected == Spec => []SelectionHolds
  BY AlwaysZonesInv, PTL DEF ZonesInv

\* Whatever histories the zones have: an answer about a timestamp holds for it and for
\* the whole of the interval the answer names.
THEOREM IntervalsAreSound == Spec => []InfoIsSound
  BY AlwaysZonesInv, PTL DEF ZonesInv

-----------------------------------------------------------------------------
(* The constants and the arguments of the calls.                           *)

LEMMA Constants ==
  /\ TicksPerDay \in Nat \ {0} /\ TicksPerMs \in Nat \ {0} /\ DaysPerWeek \in Nat \ {0}
  /\ TicksPerDay % TicksPerMs = 0
  /\ LongestTimer \in Nat \ {0} /\ LongestSleep \in Nat \ {0}
  /\ LongestSleep % TicksPerMs = 0 /\ TicksPerDay + TicksPerMs <= LongestSleep
  /\ LastConvertible \in Nat /\ LastDay \in Nat /\ MaxCount \in Nat
  /\ LastConvertible + MaxCount <= LastDay
  BY SleepAssumption

\* A relative call names a time, the others a date, or the parts of one, and a time of day.
LEMMA Arguments ==
  ASSUME NEW c \in Calls
  PROVE  /\ Relative(c) <=> c \in RelativeCalls
         /\ Relative(c) => c.ticks \in Nat /\ c.ticks < TicksPerDay
         /\ ~Relative(c) => c.time \in 0 .. TicksPerDay - 1 /\ c.op \in {"long", "all"}
         /\ HasParts(c) => /\ c.first \in 0 .. LastDay
                           /\ c.weeks \in 0 .. MaxCount /\ c.days \in 0 .. MaxCount
         /\ ~Relative(c) /\ ~HasParts(c) => c.day \in 0 .. LastDay
<1>1. /\ Durations \subseteq 0 .. TicksPerDay - 1 /\ TicksPerDay \in Nat
      /\ Counts \subseteq 0 .. MaxCount
      /\ TimesOfDay \subseteq 0 .. TicksPerDay - 1
      /\ Days \subseteq 0 .. LastDay /\ MonthStarts \subseteq 0 .. LastDay
  BY SleepAssumption
<1>2. CASE c \in RelativeCalls
  <2>1. c.op \in {"basic", "exact"} /\ c.ticks \in 0 .. TicksPerDay - 1
    BY <1>1, <1>2 DEF RelativeCalls
  <2>2. c.ticks \in Nat /\ c.ticks < TicksPerDay
    BY <1>1, <2>1
  <2> QED
    BY <1>2, <2>1, <2>2 DEF Relative, HasParts
<1>3. CASE c \in DateCalls
  <2>1. DOMAIN c = {"op", "valid", "day", "time"}
    BY <1>3 DEF DateCalls
  <2>2. "first" \notin DOMAIN c
    BY <2>1
  <2>3. c.op \in {"long", "all"} /\ c.day \in 0 .. LastDay
        /\ c.time \in 0 .. TicksPerDay - 1
    BY <1>1, <1>3 DEF DateCalls
  <2> QED
    BY <2>2, <2>3 DEF Relative, HasParts, RelativeCalls
<1>4. CASE c \in PartsCalls
  <2>1. DOMAIN c = {"op", "valid", "first", "weeks", "days", "time"}
    BY <1>4 DEF PartsCalls
  <2>2. "first" \in DOMAIN c
    BY <2>1
  <2>3. /\ c.op \in {"long", "all"} /\ c.first \in 0 .. LastDay
        /\ c.weeks \in 0 .. MaxCount /\ c.days \in 0 .. MaxCount
        /\ c.time \in 0 .. TicksPerDay - 1
    BY <1>1, <1>4 DEF PartsCalls
  <2> QED
    BY <2>2, <2>3 DEF Relative, HasParts, RelativeCalls
<1> QED
  BY <1>2, <1>3, <1>4 DEF Calls

-----------------------------------------------------------------------------
(* The moment a date names.                                                *)

LEMMA MillisecondOfDay ==
  ASSUME NEW day \in Nat, NEW time \in Nat
  PROVE  (day * TicksPerDay + time) % TicksPerMs = time % TicksPerMs
<1>1. PICK k \in Nat : TicksPerDay = k * TicksPerMs
  <2>1. TicksPerDay = (TicksPerDay \div TicksPerMs) * TicksPerMs
    BY Constants
  <2>2. TicksPerDay \div TicksPerMs \in Nat
    BY Constants
  <2> QED
    BY <2>1, <2>2
<1>2. day * TicksPerDay = (day * k) * TicksPerMs
  BY <1>1, Constants
<1>3. day * k \in Nat
  BY <1>1
<1>4. ASSUME NEW n \in Nat, NEW b \in Nat \ {0}
      PROVE  (n * b + time) % b = time % b
  <2> DEFINE x == n * b + time
             q == time \div b
             p == x \div b
             r == time % b
             s == x % b
  <2>1. n * b \in Nat
    OBVIOUS
  <2>2. x \in Nat
    BY <2>1
  <2>3. time = q * b + r /\ q \in Nat /\ r \in 0 .. b - 1
    OBVIOUS
  <2>4. x = p * b + s /\ p \in Nat /\ s \in 0 .. b - 1
    <3> HIDE DEF x
    <3> QED
      BY <2>2
  <2>5. x = n * b + time
    OBVIOUS
  <2> HIDE DEF x, q, p, r, s
  <2> DEFINE d == p - n - q
  <2>6. d \in Int /\ d * b = r - s
    <3>1. d * b = p * b - n * b - q * b
      BY <2>3, <2>4
    <3> QED
      BY <2>1, <2>3, <2>4, <2>5, <3>1
  <2> HIDE DEF d
  <2>7. d < 1
    <3>1. d >= 1 => d * b >= b
      BY <2>6
    <3> QED
      BY <2>3, <2>4, <2>6, <3>1
  <2>8. d > -1
    <3>1. d <= -1 => d * b <= -b
      BY <2>6
    <3> QED
      BY <2>3, <2>4, <2>6, <3>1
  <2>9. d = 0
    BY <2>6, <2>7, <2>8
  <2>10. r = s
    BY <2>3, <2>4, <2>6, <2>9
  <2> QED
    BY <2>10 DEF r, s, x
<1> QED
  BY <1>2, <1>3, <1>4, Constants

\* The wall-clock time at which a call for a date may return: in milliseconds on Windows.
Moment(c) ==
  NamedTime(c) - (IF platform = "posix" THEN 0 ELSE NamedTime(c) % TicksPerMs)

\* A date that is not refused is the date named: the weeks and days neither wrap round
\* nor lead beyond the calendar, where add_day would leave the first of the month.
LEMMA DateIsNamed ==
  ASSUME NEW c \in Calls, ~Relative(c), NEW day \in TargetDate(c), ~(day > LastConvertible)
  PROVE  day = NamedDay(c) /\ day \in Nat
<1>1. CASE ~HasParts(c)
  BY <1>1, Arguments, Constants DEF TargetDate, NamedDay
<1>2. CASE HasParts(c)
  <2> DEFINE n == c.weeks * DaysPerWeek + c.days - 1
  <2>1. /\ c.first \in 0 .. LastDay
        /\ c.weeks \in 0 .. MaxCount /\ c.days \in 0 .. MaxCount
    BY <1>2, Arguments
  <2>2. /\ c.days # 0 /\ ~(c.weeks * DaysPerWeek > MaxCount - (c.days - 1))
        /\ day = AddDay(c.first, n)
    BY <1>2 DEF TargetDate, MakeTargetDate
  <2>3. c.weeks * DaysPerWeek \in Nat
    BY <2>1, Constants
  <2>4. n \in 0 .. MaxCount
    <3> DEFINE m == c.weeks * DaysPerWeek
    <3>1. n = m + c.days - 1 /\ m \in Nat /\ ~(m > MaxCount - (c.days - 1))
      BY <2>2, <2>3
    <3> HIDE DEF m, n
    <3> QED
      BY <2>1, <2>2, <3>1, Constants
  <2> HIDE DEF n
  <2>5. day = c.first + n /\ day \in Nat
    BY <2>1, <2>2, <2>4, Constants DEF AddDay
  <2> QED
    BY <1>2, <2>3, <2>1, <2>5 DEF NamedDay, n
<1> QED
  BY <1>1, <1>2

LEMMA GoalIsNamed ==
  ASSUME NEW c \in Calls, ~Relative(c), NEW goal \in Goal(c)
  PROVE  /\ goal = Moment(c) /\ goal \in Int
         /\ platform = "posix" => goal = NamedTime(c)
         /\ platform # "posix" => goal = NamedTime(c) - (NamedTime(c) % TicksPerMs)
<1>1. PICK day \in TargetDate(c) : goal \in Convert(day, c.time)
  BY Zenon DEF Goal
<1>2. /\ ~(day > LastConvertible)
      /\ goal = day * TicksPerDay + (IF platform = "posix" THEN c.time
                                     ELSE c.time - (c.time % TicksPerMs))
  BY <1>1, Constants DEF Convert
<1>3. day = NamedDay(c) /\ day \in Nat
  BY <1>2, DateIsNamed
<1>4. c.time \in Nat
  BY Arguments, Constants
<1> DEFINE ticks == day * TicksPerDay
<1>5. ticks \in Nat /\ NamedTime(c) = ticks + c.time
  BY <1>3, Constants DEF NamedTime
<1>6. (ticks + c.time) % TicksPerMs = c.time % TicksPerMs
  BY <1>3, <1>4, MillisecondOfDay
<1>7. c.time % TicksPerMs \in Nat
  BY <1>4, Constants
<1> HIDE DEF ticks
<1> QED
  BY <1>2, <1>4, <1>5, <1>6, <1>7 DEF Moment, ticks

-----------------------------------------------------------------------------
(* The invariant.                                                          *)

SleepersType ==
  [pc : {"idle", "nanosleep", "deadline", "until", "interrupted", "check", "basic",
         "exact", "Sleep", "timer", "forever", "returned"},
   call : Calls, begun : Nat, wake : Int, left : Int, lost : Nat,
   outcome : {"none", "slept", "failed", "refused", "thrown"}]

\* Linux and the BSDs: a signal handler's time is added to what nanosleep waits for,
\* and to nothing else.
Posix(s) ==
  LET c == s.call
  IN  /\ s.pc = "nanosleep" =>
           /\ c.op = "basic" /\ s.wake >= s.begun + c.ticks
           /\ ~(s.wake <= mono) => s.wake = s.begun + c.ticks + s.lost
      /\ s.pc = "deadline" => c.op = "exact" /\ s.wake = s.begun + c.ticks
      /\ s.pc = "until" => ~Relative(c) /\ s.wake = NamedTime(c)
      /\ s.pc = "interrupted" =>
           /\ c.op = "basic" => mono + s.left = s.begun + c.ticks + s.lost
           /\ c.op = "exact" => s.wake = s.begun + c.ticks
           /\ ~Relative(c) => s.wake = NamedTime(c)

\* Windows: of a relative call, the time spent and the time left are at least what was
\* asked, before, in and after each wait, and the time left is never more than that, too
\* little for Sleep to take it for INFINITE.
Windows(s) ==
  LET c == s.call
  IN  /\ Relative(c) =>
           /\ s.pc \in {"basic", "exact", "timer"} =>
                mono + s.left >= s.begun + c.ticks /\ s.left <= c.ticks
           /\ s.pc = "Sleep" => s.wake >= s.begun + c.ticks
           /\ s.pc = "timer" =>
                s.wake + (s.left - AtMost(s.left, LongestTimer)) >= s.begun + c.ticks
           /\ s.pc \notin {"check", "forever"}
      /\ ~Relative(c) /\ s.pc \in {"check", "basic", "exact", "Sleep", "timer"} =>
           Goal(c) # {}
      /\ s.pc = "forever" => s.left > LongestSleep - TicksPerMs

OnPlatform(s) ==
  /\ s.pc \in {"nanosleep", "deadline", "until", "interrupted"} => platform = "posix"
  /\ s.pc \in {"check", "basic", "exact", "Sleep", "timer", "forever"} =>
       platform = "windows"
  /\ s.pc # "returned" => s.outcome = "none"
  /\ s.pc = "idle" => s.lost = 0

Good(s) == s \in SleepersType /\ Posix(s) /\ Windows(s) /\ OnPlatform(s)

SleepInv ==
  /\ mono \in Nat /\ offset \in Int /\ platform \in {"posix", "windows"}
  /\ sleeper \in [Sleepers -> SleepersType]
  /\ \A t \in Sleepers : Good(sleeper[t])

\* What NeverEarly says of a thread that becomes s at a step: it may say it has slept.
MaySay(s) ==
  s.outcome = "slept" =>
    IF Relative(s.call) THEN mono - s.begun >= s.call.ticks ELSE Wall >= Moment(s.call)

LEMMA InitSleepInv == Init => SleepInv
<1> SUFFICES ASSUME Init PROVE SleepInv
  OBVIOUS
<1>1. /\ mono \in Nat /\ offset \in Int /\ platform \in {"posix", "windows"}
      /\ sleeper \in [Sleepers -> {Idle(c) : c \in Calls}]
  BY ClockAssumption DEF Init, ClockInit, SleepInit
<1>2. ASSUME NEW c \in Calls
      PROVE  Good(Idle(c))
  BY DEF Idle, Good, SleepersType, Posix, Windows, OnPlatform
<1>3. ASSUME NEW t \in Sleepers PROVE Good(sleeper[t])
  <2>1. PICK c \in Calls : sleeper[t] = Idle(c)
    BY <1>1, Zenon
  <2> QED
    BY <1>2, <2>1
<1>4. sleeper \in [Sleepers -> SleepersType]
  BY <1>1, <1>3 DEF Good
<1> QED
  BY <1>1, <1>3, <1>4 DEF SleepInv

\* A step of one thread keeps the invariant if it does so for that thread.
LEMMA BecomeZonesInv ==
  ASSUME SleepInv, NEW t \in Sleepers, NEW s, Become(t, s), UNCHANGED clock, Good(s)
  PROVE  /\ SleepInv'
         /\ sleeper'[t] = s
         /\ \A u \in Sleepers \ {t} : sleeper'[u] = sleeper[u]
<1>1. s \in SleepersType
  BY DEF Good
<1>2. /\ sleeper' = [sleeper EXCEPT ![t] = s] /\ sleeper \in [Sleepers -> SleepersType]
      /\ UNCHANGED <<platform, mono, offset>>
  BY DEF Become, SleepInv, clock
<1>3. /\ sleeper' \in [Sleepers -> SleepersType]
      /\ sleeper'[t] = s /\ \A u \in Sleepers \ {t} : sleeper'[u] = sleeper[u]
  BY <1>1, <1>2
<1>4. ASSUME NEW u \in Sleepers PROVE Good(sleeper[u])'
  <2>1. Good(sleeper'[u])
    BY <1>3 DEF SleepInv
  <2> QED
    BY <1>2, <2>1 DEF Good, Posix, Windows, OnPlatform, Goal, Convert, TargetDate,
       MakeTargetDate
<1> QED
  BY <1>2, <1>3, <1>4 DEF SleepInv

\* The step that NeverEarly allows.
NotEarly ==
  \A t \in Sleepers :
    LET c == sleeper[t].call
    IN  sleeper[t].outcome = "none" /\ sleeper'[t].outcome = "slept" =>
          IF Relative(c) THEN mono' - sleeper'[t].begun >= c.ticks
          ELSE Wall' >= NamedTime(c) - (IF platform = "posix" THEN 0
                                        ELSE NamedTime(c) % TicksPerMs)

LEMMA TurnIsFair ==
  ASSUME SleepInv, NEW t \in Sleepers, NEW s, Become(t, s), UNCHANGED clock, Good(s),
         s.call = sleeper[t].call, MaySay(s)
  PROVE  SleepInv' /\ NotEarly
<1>1. /\ SleepInv' /\ sleeper'[t] = s
      /\ \A u \in Sleepers \ {t} : sleeper'[u] = sleeper[u]
  BY BecomeZonesInv
<1>2. UNCHANGED <<mono, offset>> /\ Wall' = Wall
  BY DEF clock, Wall
<1>3. ASSUME NEW u \in Sleepers, sleeper[u].outcome = "none", sleeper'[u].outcome = "slept"
      PROVE  IF Relative(sleeper[u].call)
             THEN mono' - sleeper'[u].begun >= sleeper[u].call.ticks
             ELSE Wall' >= Moment(sleeper[u].call)
  <2>1. u = t
    BY <1>1, <1>3
  <2> QED
    BY <2>1, <1>1, <1>2, <1>3 DEF MaySay
<1> QED
  BY <1>1, <1>3 DEF NotEarly, Moment

\* What a thread becomes, field by field.
LEMMA ReturnFields ==
  ASSUME NEW s \in SleepersType, NEW o \in {"slept", "failed", "refused", "thrown"}
  PROVE  /\ Return(s, o) \in SleepersType
         /\ Return(s, o).pc = "returned" /\ Return(s, o).outcome = o
         /\ Return(s, o).call = s.call /\ Return(s, o).begun = s.begun
  BY DEF Return, SleepersType

LEMMA WaitFields ==
  ASSUME NEW s \in SleepersType,
         NEW pc \in {"nanosleep", "deadline", "until", "interrupted", "check", "basic",
                     "exact", "Sleep", "timer"},
         NEW wake \in Int, NEW left \in Int
  PROVE  /\ WaitFor(s, pc, wake, left) \in SleepersType
         /\ WaitFor(s, pc, wake, left).pc = pc
         /\ WaitFor(s, pc, wake, left).wake = wake
         /\ WaitFor(s, pc, wake, left).left = left
         /\ WaitFor(s, pc, wake, left).call = s.call
         /\ WaitFor(s, pc, wake, left).begun = s.begun
         /\ WaitFor(s, pc, wake, left).lost = s.lost
         /\ WaitFor(s, pc, wake, left).outcome = s.outcome
  BY DEF WaitFor, SleepersType

\* A thread that returns is in no wait.
LEMMA ReturnIsGood ==
  ASSUME NEW s \in SleepersType, NEW o \in {"slept", "failed", "refused", "thrown"}
  PROVE  Good(Return(s, o)) /\ Return(s, o).call = s.call
         /\ (o # "slept" => MaySay(Return(s, o)))
<1> DEFINE r == Return(s, o)
<1>1. r \in SleepersType /\ r.pc = "returned" /\ r.outcome = o /\ r.call = s.call
  BY ReturnFields
<1> HIDE DEF r
<1>2. Good(r) /\ (o # "slept" => MaySay(r))
  BY <1>1 DEF Good, Posix, Windows, OnPlatform, MaySay
<1> QED
  BY <1>1, <1>2 DEF r

\* The call is made.
LEMMA BeginFair == ASSUME SleepInv, NEW t \in Sleepers, Begin(t) PROVE SleepInv' /\ NotEarly
<1> DEFINE s == [sleeper[t] EXCEPT !.begun = mono]
           c == s.call
           posix == platform = "posix"
<1>1. sleeper[t] \in SleepersType /\ Good(sleeper[t]) /\ mono \in Nat
      /\ platform \in {"posix", "windows"}
  BY DEF SleepInv
<1>2. UNCHANGED clock /\ sleeper[t].pc = "idle"
  BY DEF Begin
<1>3. /\ s \in SleepersType /\ s.begun = mono /\ c = sleeper[t].call
      /\ s.pc = "idle" /\ s.outcome = "none" /\ s.lost = 0
  BY <1>1, <1>2 DEF SleepersType, Good, OnPlatform
<1>4. c \in Calls
  BY <1>3 DEF SleepersType
<1>5. \/ ~c.valid /\ Become(t, Return(s, "thrown"))
      \/ Relative(c) /\ c.ticks = 0 /\ Become(t, Return(s, "slept"))
      \/ Relative(c) /\ c.ticks # 0 /\ ~posix /\ Become(t, WaitFor(s, c.op, 0, c.ticks))
      \/ Relative(c) /\ c.ticks # 0 /\ posix
           /\ Become(t, WaitFor(s, IF c.op = "basic" THEN "nanosleep" ELSE "deadline",
                                mono + c.ticks, 0))
      \/ ~Relative(c) /\ Goal(c) = {} /\ Become(t, Return(s, "refused"))
      \/ ~Relative(c) /\ Goal(c) # {}
           /\ Become(t, WaitFor(s, IF posix THEN "until" ELSE "check",
                                CHOOSE g \in Goal(c) : TRUE, 0))
  BY Zenon DEF Begin
<1> HIDE DEF s, c
<1>6. ASSUME NEW o \in {"refused", "thrown"}, Become(t, Return(s, o))
      PROVE  SleepInv' /\ NotEarly
  <2>1. Good(Return(s, o)) /\ Return(s, o).call = c /\ MaySay(Return(s, o))
    BY <1>3, ReturnIsGood DEF c
  <2> QED
    BY <1>2, <1>3, <1>6, <2>1, TurnIsFair
<1>7. ASSUME Relative(c), c.ticks = 0, Become(t, Return(s, "slept"))
      PROVE  SleepInv' /\ NotEarly
  <2>1. /\ Good(Return(s, "slept")) /\ Return(s, "slept").call = c
        /\ Return(s, "slept").begun = mono
    BY <1>3, ReturnIsGood, ReturnFields DEF c
  <2>2. MaySay(Return(s, "slept"))
    BY <1>1, <1>7, <2>1 DEF MaySay
  <2> QED
    BY <1>2, <1>3, <1>7, <2>1, <2>2, TurnIsFair
<1>8. ASSUME NEW pc \in {"nanosleep", "deadline", "until", "check", "basic", "exact"},
             NEW wake \in Int, NEW left \in Int, Become(t, WaitFor(s, pc, wake, left)),
             Good(WaitFor(s, pc, wake, left))
      PROVE  SleepInv' /\ NotEarly
  <2> DEFINE r == WaitFor(s, pc, wake, left)
  <2>1. r.call = sleeper[t].call /\ r.outcome = "none"
    BY <1>3, WaitFields DEF c
  <2> HIDE DEF r
  <2>2. MaySay(r)
    BY <2>1 DEF MaySay
  <2> QED
    BY <1>2, <1>8, <2>1, <2>2, TurnIsFair DEF r
<1>9. /\ Relative(c) => c.ticks \in Nat /\ c.op \in {"basic", "exact"}
      /\ ~Relative(c) => c.op \notin {"basic", "exact"}
  BY <1>4, Arguments DEF Relative
<1>10. ASSUME Relative(c), ~posix, Become(t, WaitFor(s, c.op, 0, c.ticks))
       PROVE  SleepInv' /\ NotEarly
  <2> DEFINE r == WaitFor(s, c.op, 0, c.ticks)
  <2>1. /\ r \in SleepersType /\ r.pc = c.op /\ r.left = c.ticks
        /\ r.call = c /\ r.begun = mono /\ r.outcome = "none"
    BY <1>3, <1>9, <1>10, WaitFields DEF c
  <2> HIDE DEF r
  <2>2. Good(r)
    BY <1>1, <1>9, <1>10, <2>1 DEF Good, Posix, Windows, OnPlatform
  <2> QED
    BY <1>8, <1>9, <1>10, <2>2 DEF r
<1>11. ASSUME Relative(c), posix,
              Become(t, WaitFor(s, IF c.op = "basic" THEN "nanosleep" ELSE "deadline",
                                mono + c.ticks, 0))
       PROVE  SleepInv' /\ NotEarly
  <2> DEFINE pc == IF c.op = "basic" THEN "nanosleep" ELSE "deadline"
             wake == mono + c.ticks
             r == WaitFor(s, pc, wake, 0)
  <2>1. pc \in {"nanosleep", "deadline"} /\ wake \in Int
    BY <1>1, <1>9, <1>11
  <2> HIDE DEF pc, wake
  <2>2. /\ r \in SleepersType /\ r.pc = pc /\ r.wake = wake
        /\ r.call = c /\ r.begun = mono /\ r.outcome = "none" /\ r.lost = 0
    <3>1. /\ r \in SleepersType /\ r.pc = pc /\ r.wake = wake
          /\ r.call = s.call /\ r.begun = s.begun /\ r.outcome = s.outcome
          /\ r.lost = s.lost
      BY <1>3, <2>1, WaitFields
    <3> QED
      BY <1>3, <3>1 DEF c
  <2> HIDE DEF r
  <2>3. Good(r)
    BY <1>1, <1>9, <1>11, <2>1, <2>2 DEF Good, Posix, Windows, OnPlatform, pc, wake
  <2> QED
    BY <1>8, <1>11, <2>1, <2>3 DEF r, pc, wake
<1>12. ASSUME ~Relative(c), Goal(c) # {},
              Become(t, WaitFor(s, IF posix THEN "until" ELSE "check",
                                CHOOSE g \in Goal(c) : TRUE, 0))
       PROVE  SleepInv' /\ NotEarly
  <2> DEFINE pc == IF posix THEN "until" ELSE "check"
             wake == CHOOSE g \in Goal(c) : TRUE
             r == WaitFor(s, pc, wake, 0)
  <2>1. wake \in Goal(c)
    BY <1>12, Zenon
  <2> HIDE DEF wake
  <2>2. wake \in Int /\ (posix => wake = NamedTime(c))
    BY <1>4, <1>12, <2>1, GoalIsNamed
  <2>3. /\ r \in SleepersType /\ r.pc = pc /\ r.wake = wake
        /\ r.call = c /\ r.outcome = "none"
    BY <1>3, <2>2, WaitFields DEF c
  <2> HIDE DEF r
  <2>4. Good(r)
    BY <1>1, <1>9, <1>12, <2>2, <2>3 DEF Good, Posix, Windows, OnPlatform
  <2> QED
    BY <1>8, <1>12, <2>2, <2>4 DEF r, wake
<1> QED
  BY <1>5, <1>6, <1>7, <1>10, <1>11, <1>12

-----------------------------------------------------------------------------
(* The other steps of a thread.                                            *)

LEMMA Current ==
  ASSUME SleepInv, NEW t \in Sleepers
  PROVE  /\ sleeper[t] \in SleepersType /\ Good(sleeper[t])
         /\ mono \in Nat /\ offset \in Int /\ platform \in {"posix", "windows"}
         /\ sleeper[t].call \in Calls /\ sleeper[t].begun \in Nat /\ sleeper[t].lost \in Nat
         /\ sleeper[t].wake \in Int /\ sleeper[t].left \in Int
         /\ Relative(sleeper[t].call) => /\ sleeper[t].call.ticks \in Nat
                                         /\ sleeper[t].call.op \in {"basic", "exact"}
<1>1. sleeper[t] \in SleepersType /\ sleeper[t].call \in Calls
  BY DEF SleepInv, SleepersType
<1>2. Relative(sleeper[t].call) => /\ sleeper[t].call.ticks \in Nat
                                   /\ sleeper[t].call.op \in {"basic", "exact"}
  BY <1>1, Arguments DEF Relative
<1> QED
  BY <1>1, <1>2 DEF SleepInv, SleepersType

\* A wait that is over, and says so.
LEMMA SleptFair ==
  ASSUME SleepInv, NEW t \in Sleepers, UNCHANGED clock, Become(t, Return(sleeper[t], "slept")),
         IF Relative(sleeper[t].call)
         THEN mono - sleeper[t].begun >= sleeper[t].call.ticks
         ELSE Wall >= Moment(sleeper[t].call)
  PROVE  SleepInv' /\ NotEarly
<1> DEFINE r == Return(sleeper[t], "slept")
<1>1. Good(r) /\ r.call = sleeper[t].call /\ r.begun = sleeper[t].begun
  BY Current, ReturnIsGood, ReturnFields
<1> HIDE DEF r
<1>2. MaySay(r)
  BY <1>1 DEF MaySay
<1> QED
  BY <1>1, <1>2, TurnIsFair DEF r

\* A wait that goes on.
LEMMA GoOnFair ==
  ASSUME SleepInv, NEW t \in Sleepers, UNCHANGED clock, NEW r \in SleepersType, Become(t, r),
         r.call = sleeper[t].call, r.outcome = "none", Good(r)
  PROVE  SleepInv' /\ NotEarly
<1>1. MaySay(r)
  BY DEF MaySay
<1> QED
  BY <1>1, TurnIsFair

LEMMA WakeFair == ASSUME SleepInv, NEW t \in Sleepers, Wake(t) PROVE SleepInv' /\ NotEarly
<1> DEFINE s == sleeper[t]
           c == s.call
<1>1. UNCHANGED clock /\ Become(t, Return(s, "slept")) /\ InSystemCall(s) /\ Due(s)
  BY DEF Wake
<1>2. CASE s.pc \in {"nanosleep", "deadline"}
  <2>1. s.wake >= s.begun + c.ticks /\ Relative(c)
    BY <1>2, Current DEF Good, Posix, Relative
  <2>2. mono >= s.wake
    BY <1>1, <1>2, Current DEF Due
  <2> QED
    BY <1>1, <2>1, <2>2, Current, SleptFair
<1>3. CASE s.pc = "until"
  <2>1. /\ ~Relative(c) /\ s.wake = NamedTime(c)
        /\ platform = "posix" /\ s.wake \in Int
    BY <1>3, Current DEF Good, Posix, OnPlatform
  <2>2. Wall >= s.wake
    BY <1>1, <1>3, Current DEF Due, Wall
  <2>3. Wall >= Moment(c)
    BY <2>1, <2>2, Current DEF Moment, Wall
  <2> QED
    BY <1>1, <2>1, <2>3, SleptFair
<1> QED
  BY <1>1, <1>2, <1>3 DEF InSystemCall

LEMMA FailFair == ASSUME SleepInv, NEW t \in Sleepers, Fail(t) PROVE SleepInv' /\ NotEarly
<1> DEFINE r == Return(sleeper[t], "failed")
<1>1. UNCHANGED clock /\ Become(t, r)
  BY DEF Fail
<1>2. Good(r) /\ r.call = sleeper[t].call /\ MaySay(r)
  BY Current, ReturnIsGood
<1> QED
  BY <1>1, <1>2, TurnIsFair

\* A signal: nanosleep reports the time that was left.
LEMMA InterruptFair ==
  ASSUME SleepInv, NEW t \in Sleepers, Interrupt(t) PROVE SleepInv' /\ NotEarly
<1> DEFINE s == sleeper[t]
           c == s.call
           left == s.wake - mono
           r == WaitFor(s, "interrupted", s.wake, left)
<1>1. UNCHANGED clock /\ InSystemCall(s) /\ ~Due(s) /\ Become(t, r)
  BY DEF Interrupt
<1>2. left \in Int
  BY Current
<1>3. s.outcome = "none" /\ platform = "posix"
  BY <1>1, Current DEF InSystemCall, Good, OnPlatform
<1>4. /\ r \in SleepersType /\ r.pc = "interrupted" /\ r.wake = s.wake /\ r.left = left
      /\ r.call = c /\ r.begun = s.begun /\ r.lost = s.lost /\ r.outcome = "none"
  BY <1>2, <1>3, Current, WaitFields
<1>5. /\ c.op = "basic" => mono + left = s.begun + c.ticks + s.lost
      /\ c.op = "exact" => s.wake = s.begun + c.ticks
      /\ ~Relative(c) => s.wake = NamedTime(c)
  BY <1>1, Current DEF InSystemCall, Due, Good, Posix, Relative
<1> HIDE DEF r, left
<1>6. Good(r)
  BY <1>3, <1>4, <1>5 DEF Good, Posix, Windows, OnPlatform
<1> QED
  BY <1>1, <1>4, <1>6, GoOnFair

LEMMA ResumeFair == ASSUME SleepInv, NEW t \in Sleepers, Resume(t) PROVE SleepInv' /\ NotEarly
<1> DEFINE s == sleeper[t]
           c == s.call
<1>1. UNCHANGED clock /\ s.pc = "interrupted"
  BY DEF Resume
<1>2. /\ s.outcome = "none" /\ platform = "posix"
      /\ c.op = "basic" => mono + s.left = s.begun + c.ticks + s.lost
      /\ c.op = "exact" => s.wake = s.begun + c.ticks
      /\ ~Relative(c) => s.wake = NamedTime(c)
  BY <1>1, Current DEF Good, Posix, OnPlatform
<1>3. ASSUME NEW pc \in {"nanosleep", "deadline", "until"}, NEW wake \in Int,
             Become(t, WaitFor(s, pc, wake, 0)),
             pc = "nanosleep" => c.op = "basic" /\ wake = mono + s.left,
             pc = "deadline" => c.op = "exact" /\ wake = s.wake,
             pc = "until" => ~Relative(c) /\ wake = s.wake
      PROVE  SleepInv' /\ NotEarly
  <2> DEFINE r == WaitFor(s, pc, wake, 0)
  <2>1. /\ r \in SleepersType /\ r.pc = pc /\ r.wake = wake
        /\ r.call = c /\ r.begun = s.begun /\ r.lost = s.lost /\ r.outcome = "none"
    <3>1. s \in SleepersType
      BY Current
    <3> HIDE DEF s
    <3>2. /\ r \in SleepersType /\ r.pc = pc /\ r.wake = wake
          /\ r.call = s.call /\ r.begun = s.begun /\ r.lost = s.lost
          /\ r.outcome = s.outcome
      BY <3>1, WaitFields
    <3> QED
      BY <1>2, <3>2
  <2> HIDE DEF r
  <2>2. pc = "nanosleep" => /\ wake = s.begun + c.ticks + s.lost
                            /\ wake >= s.begun + c.ticks
    BY <1>2, <1>3, Current DEF Relative
  <2>3. Good(r)
    BY <1>2, <1>3, <2>1, <2>2 DEF Good, Posix, Windows, OnPlatform
  <2> QED
    BY <1>1, <1>3, <2>1, <2>3, GoOnFair DEF r
<1>4. mono + s.left \in Int /\ s.wake \in Int
  BY Current
<1> QED
  BY <1>3, <1>4, Zenon DEF Resume

LEMMA SleepTicksType ==
  ASSUME NEW n \in Int
  PROVE  /\ SleepTicks(n) \in Int
         /\ SleepTicks(n) = LongestSleep => n > LongestSleep - TicksPerMs
         /\ SleepTicks(n) # LongestSleep => SleepTicks(n) >= n
<1> DEFINE up == (TicksPerMs - (n % TicksPerMs)) % TicksPerMs
<1>1. up \in Nat /\ up < TicksPerMs
  <2>1. TicksPerMs - (n % TicksPerMs) \in Int
    BY Constants
  <2> QED
    BY <2>1, Constants
<1>2. SleepTicks(n) = AtMost(n + up, LongestSleep)
  BY DEF SleepTicks
<1> HIDE DEF up
<1> QED
  BY <1>1, <1>2, Constants DEF AtMost

\* On Windows, a thread in a loop of waits.
LEMMA WindowsFacts ==
  ASSUME SleepInv, NEW t \in Sleepers,
         sleeper[t].pc \in {"check", "basic", "exact", "Sleep", "timer"}
  PROVE  LET s == sleeper[t]
             c == s.call
         IN  /\ platform = "windows" /\ s.outcome = "none" /\ Windows(s)
             /\ ~Relative(c) => Goal(c) # {}
  BY Current DEF Good, OnPlatform, Windows

\* The next wait of a loop, or its head.
LEMMA LoopFair ==
  ASSUME SleepInv, NEW t \in Sleepers, UNCHANGED clock, NEW r \in SleepersType, Become(t, r),
         sleeper[t].pc \in {"check", "basic", "exact", "Sleep", "timer"},
         r.pc \in {"check", "basic", "exact", "Sleep", "timer", "forever"},
         r.call = sleeper[t].call, r.outcome = sleeper[t].outcome, Windows(r)
  PROVE  SleepInv' /\ NotEarly
<1>1. Good(r) /\ r.outcome = "none"
  BY WindowsFacts DEF Good, Posix, OnPlatform
<1> QED
  BY <1>1, GoOnFair

LEMMA StartSleepFair ==
  ASSUME SleepInv, NEW t \in Sleepers, StartSleep(t) PROVE SleepInv' /\ NotEarly
<1> DEFINE s == sleeper[t]
           n == SleepTicks(s.left)
           wake == mono + n
           hung == [s EXCEPT !.pc = "forever"]
           r == WaitFor(s, "Sleep", wake, 0)
<1>1. s.pc = "basic" /\ UNCHANGED clock /\ Become(t, IF n = LongestSleep THEN hung ELSE r)
  BY DEF StartSleep
<1>2. /\ n \in Int
      /\ n = LongestSleep => s.left > LongestSleep - TicksPerMs
      /\ n # LongestSleep => n >= s.left
  BY Current, SleepTicksType
<1> HIDE DEF n
<1>3. CASE n = LongestSleep
  <2>1. /\ hung \in SleepersType /\ hung.pc = "forever" /\ hung.left = s.left
        /\ hung.call = s.call /\ hung.outcome = s.outcome
    BY Current DEF SleepersType
  <2>2. Become(t, hung)
    BY <1>1, <1>3
  <2> HIDE DEF hung
  <2>3. ~Relative(s.call)
    <3>1. Relative(s.call) => s.left <= s.call.ticks /\ s.call.ticks < TicksPerDay
                              /\ s.call.ticks \in Nat
      BY <1>1, Current, WindowsFacts, Arguments DEF Windows
    <3> QED
      BY <1>2, <1>3, <3>1, Current, Constants
  <2>4. Windows(hung)
    BY <1>2, <1>3, <2>1, <2>3 DEF Windows
  <2> QED
    BY <1>1, <2>1, <2>2, <2>4, LoopFair
<1>4. CASE n # LongestSleep
  <2>1. wake \in Int /\ wake >= mono + s.left
    BY <1>2, <1>4, Current
  <2>2. Become(t, r)
    BY <1>1, <1>4
  <2> HIDE DEF wake
  <2>3. /\ r \in SleepersType /\ r.pc = "Sleep" /\ r.wake = wake
        /\ r.call = s.call /\ r.begun = s.begun /\ r.outcome = s.outcome
    <3>1. s \in SleepersType
      BY Current
    <3> HIDE DEF s
    <3> QED
      BY <2>1, <3>1, WaitFields
  <2> HIDE DEF r
  <2>4. Windows(r)
    BY <1>1, <2>1, <2>3, Current, WindowsFacts DEF Windows
  <2> QED
    BY <1>1, <2>2, <2>3, <2>4, LoopFair
<1> QED
  BY <1>3, <1>4

LEMMA NoTimerFair == ASSUME SleepInv, NEW t \in Sleepers, NoTimer(t) PROVE SleepInv' /\ NotEarly
<1> DEFINE s == sleeper[t]
           r == [s EXCEPT !.pc = "basic"]
<1>1. s.pc \in {"exact", "timer"} /\ UNCHANGED clock /\ Become(t, r)
  BY DEF NoTimer
<1>2. /\ r \in SleepersType /\ r.pc = "basic" /\ r.left = s.left
      /\ r.call = s.call /\ r.begun = s.begun /\ r.outcome = s.outcome
  BY Current DEF SleepersType
<1> HIDE DEF r
<1>3. Windows(r)
  BY <1>1, <1>2, Current, WindowsFacts DEF Windows
<1> QED
  BY <1>1, <1>2, <1>3, LoopFair

LEMMA StartTimerFair ==
  ASSUME SleepInv, NEW t \in Sleepers, StartTimer(t) PROVE SleepInv' /\ NotEarly
<1> DEFINE s == sleeper[t]
           wake == mono + AtMost(s.left, LongestTimer)
           r == WaitFor(s, "timer", wake, s.left)
<1>1. s.pc = "exact" /\ UNCHANGED clock /\ Become(t, r)
  BY DEF StartTimer
<1>2. wake \in Int /\ wake + (s.left - AtMost(s.left, LongestTimer)) = mono + s.left
  BY Current, Constants DEF AtMost
<1> HIDE DEF wake
<1>3. /\ r \in SleepersType /\ r.pc = "timer" /\ r.wake = wake /\ r.left = s.left
      /\ r.call = s.call /\ r.begun = s.begun /\ r.outcome = s.outcome
  BY <1>2, Current, WaitFields
<1> HIDE DEF r
<1>4. Windows(r)
  BY <1>1, <1>2, <1>3, Current, WindowsFacts DEF Windows
<1> QED
  BY <1>1, <1>3, <1>4, LoopFair

\* A loop is over: a relative call has waited; one for a date looks at the clock again.
LEMMA WaitedFair ==
  ASSUME SleepInv, NEW t \in Sleepers, UNCHANGED clock, Become(t, Waited(sleeper[t])),
         sleeper[t].pc \in {"Sleep", "timer"},
         Relative(sleeper[t].call) => mono >= sleeper[t].begun + sleeper[t].call.ticks
  PROVE  SleepInv' /\ NotEarly
<1> DEFINE s == sleeper[t]
           r == [s EXCEPT !.pc = "check"]
<1>1. CASE Relative(s.call)
  <2>1. mono - s.begun >= s.call.ticks
    BY <1>1, Current
  <2> QED
    BY <1>1, <2>1, SleptFair DEF Waited
<1>2. CASE ~Relative(s.call)
  <2>1. Become(t, r)
    BY <1>2 DEF Waited
  <2>2. /\ r \in SleepersType /\ r.pc = "check"
        /\ r.call = s.call /\ r.outcome = s.outcome
    BY Current DEF SleepersType
  <2> HIDE DEF r
  <2>3. Windows(r)
    BY <1>2, <2>2, WindowsFacts DEF Windows
  <2> QED
    BY <2>1, <2>2, <2>3, LoopFair
<1> QED
  BY <1>1, <1>2

LEMMA SleepEndsFair ==
  ASSUME SleepInv, NEW t \in Sleepers, SleepEnds(t) PROVE SleepInv' /\ NotEarly
<1> DEFINE s == sleeper[t]
<1>1. s.pc = "Sleep" /\ mono >= s.wake /\ UNCHANGED clock /\ Become(t, Waited(s))
  BY DEF SleepEnds
<1>2. Relative(s.call) => mono >= s.begun + s.call.ticks
  BY <1>1, Current, WindowsFacts DEF Windows
<1> QED
  BY <1>1, <1>2, WaitedFair

LEMMA TimerEndsFair ==
  ASSUME SleepInv, NEW t \in Sleepers, TimerEnds(t) PROVE SleepInv' /\ NotEarly
<1> DEFINE s == sleeper[t]
           left == s.left - AtMost(s.left, LongestTimer)
           r == [s EXCEPT !.pc = "exact", !.left = left]
<1>1. s.pc = "timer" /\ mono >= s.wake /\ UNCHANGED clock
      /\ Become(t, IF left = 0 THEN Waited(s) ELSE r)
  BY DEF TimerEnds
<1>2. Relative(s.call) => s.wake + left >= s.begun + s.call.ticks
  BY <1>1, WindowsFacts DEF Windows
<1>3. left \in Int /\ (Relative(s.call) => left <= s.call.ticks)
  <2>1. Relative(s.call) => s.left <= s.call.ticks /\ s.call.ticks \in Nat
    BY <1>1, Current, WindowsFacts DEF Windows
  <2> QED
    BY <2>1, Current, Constants DEF AtMost
<1> HIDE DEF left
<1>4. CASE left = 0
  <2>1. Relative(s.call) => mono >= s.begun + s.call.ticks
    BY <1>1, <1>2, <1>4, Current
  <2> QED
    BY <1>1, <1>4, <2>1, WaitedFair
<1>5. CASE left # 0
  <2>1. /\ r \in SleepersType /\ r.pc = "exact" /\ r.left = left
        /\ r.call = s.call /\ r.begun = s.begun /\ r.outcome = s.outcome
    BY <1>3, Current DEF SleepersType
  <2>2. Become(t, r)
    BY <1>1, <1>5
  <2> HIDE DEF r
  <2>3. Windows(r)
    BY <1>1, <1>2, <1>3, <2>1, Current, WindowsFacts DEF Windows
  <2> QED
    BY <1>1, <2>1, <2>2, <2>3, LoopFair
<1> QED
  BY <1>4, <1>5

LEMMA CheckFair == ASSUME SleepInv, NEW t \in Sleepers, Check(t) PROVE SleepInv' /\ NotEarly
<1> DEFINE s == sleeper[t]
           c == s.call
           goal == CHOOSE g \in Goal(c) : TRUE
           left == (goal - Wall) % (MaxCount + 1)
           pc == IF c.op = "all" THEN "exact" ELSE "basic"
           r == [s EXCEPT !.pc = pc, !.left = left]
<1>1. /\ s.pc = "check" /\ UNCHANGED clock
      /\ \/ Wall >= goal /\ Become(t, Return(s, "slept"))
         \/ Become(t, s)
         \/ Become(t, r)
  BY DEF Check
<1>2. ~Relative(c) /\ goal \in Goal(c)
  <2>1. Windows(s) /\ s.pc = "check"
    BY <1>1, WindowsFacts
  <2>2. ~Relative(c) /\ Goal(c) # {}
    BY <2>1 DEF Windows
  <2> QED
    BY <2>2, Zenon
<1> HIDE DEF goal
<1>3. goal = Moment(c) /\ goal \in Int
  BY <1>2, Current, GoalIsNamed
<1>4. CASE Wall >= goal /\ Become(t, Return(s, "slept"))
  BY <1>1, <1>2, <1>3, <1>4, SleptFair
<1>5. CASE Become(t, s)
  BY <1>1, <1>5, Current, WindowsFacts, LoopFair
<1>6. CASE Become(t, r)
  <2>1. left \in Int
    <3>1. goal - Wall \in Int /\ MaxCount + 1 \in Nat \ {0}
      BY <1>3, Current, Constants DEF Wall
    <3> QED
      BY <3>1
  <2> HIDE DEF left
  <2>2. /\ r \in SleepersType /\ r.pc \in {"exact", "basic"}
        /\ r.call = c /\ r.outcome = s.outcome
    BY <2>1, Current DEF SleepersType
  <2> HIDE DEF r
  <2>3. Windows(r)
    BY <1>2, <2>2 DEF Windows
  <2> QED
    BY <1>1, <1>6, <2>2, <2>3, LoopFair
<1> QED
  BY <1>1, <1>4, <1>5, <1>6

-----------------------------------------------------------------------------
(* The rest of the process and of the machine.                             *)

\* Time passes: for a thread that is late or in a signal handler it is lost.
LEMMA TickFair == ASSUME SleepInv, SleepTick PROVE SleepInv' /\ NotEarly
<1> DEFINE lost(s) == [s EXCEPT !.lost = @ + 1]
           new(s) == IF Late(s) THEN lost(s) ELSE s
<1>1. sleeper' = [t \in Sleepers |-> new(sleeper[t])]
  BY DEF SleepTick
<1>2. mono' = mono + 1 /\ UNCHANGED <<offset, platform>>
  BY DEF SleepTick, Tick
<1> HIDE DEF new
<1>3. ASSUME NEW t \in Sleepers
      PROVE  /\ sleeper'[t] \in SleepersType /\ Good(sleeper[t])'
             /\ sleeper'[t].outcome = sleeper[t].outcome
  <2> DEFINE s == sleeper[t]
             c == s.call
  <2>1. /\ s' \in SleepersType /\ s'.pc = s.pc /\ s'.call = c
        /\ s'.wake = s.wake /\ s'.left = s.left /\ s'.begun = s.begun
        /\ s'.outcome = s.outcome
        /\ s'.lost = IF Late(s) THEN s.lost + 1 ELSE s.lost
    <3>1. s' = new(s)
      BY <1>1
    <3>2. s \in SleepersType
      BY Current
    <3>3. LET r == new(s)
          IN  /\ r \in SleepersType /\ r.pc = s.pc /\ r.call = c
              /\ r.wake = s.wake /\ r.left = s.left /\ r.begun = s.begun
              /\ r.outcome = s.outcome
              /\ r.lost = IF Late(s) THEN s.lost + 1 ELSE s.lost
      BY <3>2 DEF SleepersType, new
    <3> QED
      BY <3>1, <3>3, Zenon
  <2>2. /\ s.pc = "interrupted" => Late(s)
        /\ s.pc = "nanosleep" => (Late(s) <=> s.wake <= mono)
        /\ s.pc = "idle" => ~Late(s)
    BY DEF Late, Due
  <2>3. /\ Good(s) /\ mono \in Nat /\ s.wake \in Int /\ s.left \in Int /\ s.lost \in Nat
        /\ s.begun \in Nat
        /\ Relative(c) => c.ticks \in Nat
    BY Current
  <2>4. Posix(sleeper[t])'
    <3>1. CASE s.pc = "nanosleep"
      BY <1>2, <2>1, <2>2, <2>3, <3>1 DEF Good, Posix, Relative
    <3>2. CASE s.pc = "interrupted"
      BY <1>2, <2>1, <2>2, <2>3, <3>2 DEF Good, Posix, Relative, NamedTime, NamedDay
    <3>3. CASE s.pc \notin {"nanosleep", "interrupted"}
      BY <1>2, <2>1, <2>3, <3>3 DEF Good, Posix
    <3> QED
      BY <3>1, <3>2, <3>3
  <2>5. Windows(sleeper[t])'
    BY <1>2, <2>1, <2>3 DEF Good, Windows, Goal, Convert, TargetDate, MakeTargetDate
  <2>6. OnPlatform(sleeper[t])'
    BY <1>2, <2>1, <2>2, <2>3 DEF Good, OnPlatform
  <2> QED
    BY <2>1, <2>4, <2>5, <2>6 DEF Good
<1>4. sleeper' \in [Sleepers -> SleepersType]
  BY <1>1, <1>3
<1>5. SleepInv'
  <2>1. mono' \in Nat /\ offset' \in Int /\ platform' \in {"posix", "windows"}
    BY <1>2 DEF SleepInv
  <2> QED
    BY <1>3, <1>4, <2>1 DEF SleepInv
<1>6. NotEarly
  BY <1>3 DEF NotEarly
<1> QED
  BY <1>5, <1>6

\* The sleeping threads do not notice what the others do, or that the clock is set.
LEMMA OthersFair ==
  ASSUME SleepInv, UNCHANGED <<mono, platform, sleeper>>, offset' \in Int
  PROVE  SleepInv' /\ NotEarly
<1>1. ASSUME NEW t \in Sleepers PROVE Good(sleeper[t])'
  BY DEF SleepInv, Good, Posix, Windows, OnPlatform, Goal, Convert, TargetDate, MakeTargetDate
<1> QED
  BY <1>1 DEF SleepInv, NotEarly

LEMMA NextFair == SleepInv /\ [Next]_vars => SleepInv' /\ NotEarly
<1> SUFFICES ASSUME SleepInv, [Next]_vars PROVE SleepInv' /\ NotEarly
  OBVIOUS
<1>1. mono \in Nat /\ offset \in Int
  BY DEF SleepInv
<1>2. ASSUME NEW t \in Callers, ZoneCall(t) PROVE SleepInv' /\ NotEarly
  <2>1. UNCHANGED <<clock, sleepVars>>
    BY <1>2 DEF ZoneCall, ZoneStep, Proceed, Call, Store, Lock, Detect, DetectFails, Unlock,
       Query
  <2> QED
    BY <1>1, <2>1, OthersFair DEF clock, sleepVars
<1>3. ASSUME NEW t \in Sleepers, SleepCall(t) PROVE SleepInv' /\ NotEarly
  BY <1>3, BeginFair, WakeFair, FailFair, InterruptFair, ResumeFair, StartSleepFair,
     NoTimerFair, StartTimerFair, SleepEndsFair, TimerEndsFair, CheckFair
     DEF SleepCall, SleepStep, SleepOn
<1>4. CASE Passing
  BY <1>4, TickFair DEF Passing
<1>5. CASE Setting
  <2>1. UNCHANGED <<mono, sleepVars>> /\ offset' \in Int
    BY <1>5, ClockAssumption DEF Setting, Adjust
  <2> QED
    BY <2>1, OthersFair DEF sleepVars
<1>6. CASE UNCHANGED vars
  <2>1. UNCHANGED <<clock, sleepVars>>
    BY <1>6 DEF vars
  <2> QED
    BY <1>1, <2>1, OthersFair DEF clock, sleepVars
<1> QED
  BY <1>2, <1>3, <1>4, <1>5, <1>6 DEF Next, Quiet

-----------------------------------------------------------------------------
(* The theorems.                                                           *)

LEMMA AlwaysSleepInv == Spec => []SleepInv
  BY InitSleepInv, NextFair, PTL DEF Spec

\* A thread waits for the moment its call names: signals put it off by the time their
\* handlers take or not at all, and no date wraps round or becomes another one.
THEOREM WakesWhenAsked == Spec => []WakeIsExact
<1>1. SleepInv => WakeIsExact
  <2> SUFFICES ASSUME SleepInv, NEW t \in Sleepers
               PROVE  LET s == sleeper[t]
                          c == s.call
                      IN  /\ s.pc = "nanosleep" /\ ~Due(s) =>
                               s.wake = s.begun + c.ticks + s.lost
                          /\ s.pc = "deadline" => s.wake = s.begun + c.ticks
                          /\ s.pc = "until" => s.wake = NamedTime(c)
                          /\ s.pc = "check" =>
                               Goal(c) = {NamedTime(c) - (NamedTime(c) % TicksPerMs)}
                          /\ s.pc = "forever" =>
                               ~Relative(c) /\ platform = "windows"
                               /\ s.left > LongestSleep - TicksPerMs
    BY DEF WakeIsExact
  <2> DEFINE s == sleeper[t]
             c == s.call
  <2>1. Good(s) /\ c \in Calls
    BY Current
  <2>2. ASSUME s.pc = "check"
        PROVE  Goal(c) = {NamedTime(c) - (NamedTime(c) % TicksPerMs)}
    <3>1. ~Relative(c) /\ Goal(c) # {} /\ platform = "windows"
      BY <2>1, <2>2 DEF Good, Windows, OnPlatform
    <3>2. \A goal \in Goal(c) : goal = NamedTime(c) - (NamedTime(c) % TicksPerMs)
      BY <2>1, <3>1, GoalIsNamed
    <3> QED
      BY <3>1, <3>2, Zenon
  <2> QED
    BY <2>1, <2>2 DEF Good, Posix, Due, Windows, OnPlatform
<1> QED
  BY <1>1, AlwaysSleepInv, PTL

\* A call that says it has waited did not end early, on either kind of system.
THEOREM SleepsLongEnough == Spec => NeverEarly
<1>1. SleepInv /\ [Next]_vars => [NotEarly]_sleeper
  BY NextFair
<1>2. [NotEarly]_sleeper =>
        [\A t \in Sleepers :
           LET c == sleeper[t].call
           IN  sleeper[t].outcome = "none" /\ sleeper'[t].outcome = "slept" =>
                 IF Relative(c) THEN mono' - sleeper'[t].begun >= c.ticks
                 ELSE Wall' >= NamedTime(c) - (IF platform = "posix" THEN 0
                                               ELSE NamedTime(c) % TicksPerMs)]_sleeper
  BY DEF NotEarly
<1> QED
  BY <1>1, <1>2, AlwaysSleepInv, PTL DEF Spec, NeverEarly
=============================================================================
