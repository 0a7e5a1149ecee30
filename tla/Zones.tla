------------------------------- MODULE Zones -------------------------------
(***************************************************************************)
(* tx::zone of timex (func_zones.cpp): the time zone a process has         *)
(* selected, kept behind a mutex and detected when it is first asked for,  *)
(* and the interval of a zone's history that holds a timestamp; with the   *)
(* local time that func_time.cpp makes of the two.  ICU is external: its   *)
(* identifiers and the histories of its zones are constants.               *)
(***************************************************************************)
EXTENDS SysClock, Sequences

CONSTANTS
  Callers,        \* threads that call the library
  NoCaller,       \* the owner of a free mutex
  Names,          \* identifiers a caller may give
  SystemId,       \* ICU: name -> canonical identifier, or ""
  WindowsId,      \* ICU: name -> the IANA name it stands for on Windows, or ""
  History,        \* ICU: canonical identifier -> its periods, in order
  Queries,        \* names and timestamps asked about
  MaxIcuSeconds,  \* 8640000000000
  MaxSecond,      \* 2^64 - 1
  MaxRequests     \* bound on the calls each thread makes

Zones == DOMAIN History

\* A period begins at a second, and has an offset from UTC and its part that is
\* daylight saving; whole: both are whole seconds.  The first has no beginning.
Periods == [from : Int, offset : Int, save : Int, whole : BOOLEAN]

ASSUME ZoneAssumption ==
  /\ NoCaller \notin Callers
  /\ SystemId \in [Names -> Zones \cup {""}] /\ "" \notin Zones
  /\ WindowsId \in [Names -> Names \cup {""}] /\ "" \notin Names
  /\ History \in [Zones -> Seq(Periods)]
  /\ \A zone \in Zones :
       /\ zone \in Names /\ SystemId[zone] = zone
       /\ History[zone] # <<>>
       /\ \A i, j \in 2 .. Len(History[zone]) :
            i < j => History[zone][i].from < History[zone][j].from
  /\ MaxSecond \in Nat /\ MaxIcuSeconds \in 0 .. MaxSecond - 1
  /\ Queries \subseteq Names \X (0 .. MaxSecond)
  /\ MaxRequests \in Nat

VARIABLES
  selected,   \* selected_zone, or ""
  mutex,      \* the thread that holds selection_mutex
  caller,     \* what each thread is doing
  chosen      \* history: the zone select_zone stored last

zoneVars == <<selected, mutex, caller, chosen>>

-----------------------------------------------------------------------------
(* Identifiers.                                                            *)

\* normalize_zone: the canonical identifier, or "" for an exception.
Normalize(name) ==
  IF SystemId[name] # "" \/ WindowsId[name] = "" THEN SystemId[name]
  ELSE SystemId[WindowsId[name]]

-----------------------------------------------------------------------------
(* query_zone.                                                             *)

NoInfo == [begin |-> 0, end |-> 0, offset |-> 0, save |-> 0]

\* The period of a zone that holds a second.
PeriodAt(zone, second) ==
  CHOOSE i \in DOMAIN History[zone] :
    /\ i > 1 => History[zone][i].from <= second
    /\ i < Len(History[zone]) => second < History[zone][i + 1].from

\* transition_seconds: transitions before the epoch count as the epoch.
TransitionSeconds(from) == IF from < 0 THEN 0 ELSE from

\* Mutant: the transition asked for is the one before the timestamp, not the one at it.
IntervalBeginExclusive(zone, second) ==
  LET i == PeriodAt(zone, IF second > 0 THEN second - 1 ELSE second)
  IN  IF i = 1 THEN 0 ELSE TransitionSeconds(History[zone][i].from)

\* The transition at the timestamp, or the last one before it.
IntervalBegin(zone, second) ==
  LET i == PeriodAt(zone, second)
  IN  IF i = 1 THEN 0 ELSE TransitionSeconds(History[zone][i].from)

\* The first transition after the timestamp.
IntervalEnd(zone, second) ==
  LET i == PeriodAt(zone, second)
  IN  IF i = Len(History[zone]) THEN MaxSecond
      ELSE TransitionSeconds(History[zone][i + 1].from)

\* The answer, or none for an exception.
QueryZone(zone, second) ==
  LET period == History[zone][PeriodAt(zone, second)]
      begin == IntervalBegin(zone, second)
      end == IntervalEnd(zone, second)
  IN  IF \/ second > MaxIcuSeconds
         \/ ~period.whole
         \/ begin > second
         \/ end # MaxSecond /\ end <= second
      THEN {}
      ELSE {[begin |-> begin, end |-> end,
             offset |-> period.offset, save |-> period.save]}

-----------------------------------------------------------------------------
(* The calls.  Each thread makes a number of them; current_zone() is a     *)
(* call of its own and a part of zone_info() and of a local time.          *)

Requests ==
  [op : {"select"}, name : Names] \cup [op : {"current", "now"}]
    \cup {[op |-> "info", name |-> q[1], second |-> q[2]] : q \in Queries}
    \cup {[op |-> "local", second |-> q[2]] : q \in Queries}

\* pc: between calls, waiting for the mutex to select or to read, holding it,
\* detecting the zone under it, querying.
Resting == [pc |-> "ready", request |-> [op |-> "current"], zone |-> "", second |-> 0,
            outcome |-> "none", info |-> NoInfo, local |-> 0, made |-> 0]

ZoneInit ==
  /\ selected = "" /\ chosen = "" /\ mutex = NoCaller
  /\ caller \in [Callers -> {[Resting EXCEPT !.made = n] : n \in 0 .. MaxRequests}]

Turn(t, c) == caller' = [caller EXCEPT ![t] = c]

Answer(c, outcome) == [c EXCEPT !.pc = "ready", !.outcome = outcome]

Go(c, pc) == [c EXCEPT !.pc = pc]

\* select_zone(name) up to the mutex; opening the zone's calendar may fail.
CallSelect(t, c, name) ==
  \/ /\ Normalize(name) = "" /\ Turn(t, Answer(c, "error"))
  \/ /\ Normalize(name) # ""
     /\ \/ Turn(t, Go([c EXCEPT !.zone = Normalize(name)], "store"))
        \/ Turn(t, Answer(c, "error"))

\* zone_info(): the clock is read before the zone.
CallNow(t, c) ==
  Turn(t, IF Wall < 0 THEN Answer(c, "error") ELSE Go([c EXCEPT !.second = Wall], "lock"))

CallInfo(t, c, name, second) ==
  Turn(t, IF Normalize(name) = "" THEN Answer(c, "error")
          ELSE Go([c EXCEPT !.zone = Normalize(name), !.second = second], "query"))

Call(t, r) ==
  LET c == [caller[t] EXCEPT !.request = r, !.outcome = "none", !.info = NoInfo,
                             !.made = @ + 1]
  IN  /\ caller[t].pc = "ready" /\ caller[t].made < MaxRequests
      /\ \/ r.op = "select" /\ CallSelect(t, c, r.name)
         \/ r.op = "current" /\ Turn(t, Go(c, "lock"))
         \/ r.op = "now" /\ CallNow(t, c)
         \/ r.op = "info" /\ CallInfo(t, c, r.name, r.second)
         \/ r.op = "local" /\ Turn(t, Go([c EXCEPT !.second = r.second], "lock"))
      /\ UNCHANGED <<clock, selected, mutex, chosen>>

\* select_zone stores the zone.
Store(t) ==
  LET c == caller[t]
  IN  /\ c.pc = "store" /\ mutex = NoCaller
      /\ selected' = c.zone /\ chosen' = c.zone
      /\ Turn(t, Answer(c, "ok"))
      /\ UNCHANGED <<clock, mutex>>

\* Mutant: the mutex is not taken to see whether a zone has to be detected.
LockNothing(t) ==
  /\ caller[t].pc = "lock" /\ mutex = NoCaller
  /\ Turn(t, Go(caller[t], IF selected = "" THEN "detect" ELSE "held"))
  /\ UNCHANGED <<clock, selected, mutex, chosen>>

\* current_zone() takes the mutex and looks.
Lock(t) ==
  /\ caller[t].pc = "lock" /\ mutex = NoCaller
  /\ mutex' = t
  /\ Turn(t, Go(caller[t], IF selected = "" THEN "detect" ELSE "held"))
  /\ UNCHANGED <<clock, selected, chosen>>

\* get_default_zone() answers.
Detect(t) ==
  /\ caller[t].pc = "detect"
  /\ selected' \in Zones
  /\ Turn(t, Go(caller[t], "held"))
  /\ UNCHANGED <<clock, mutex, chosen>>

\* Mutant: the mutex is still held when the exception leaves current_zone().
DetectFailsHolding(t) ==
  /\ caller[t].pc = "detect"
  /\ Turn(t, Answer(caller[t], "error"))
  /\ UNCHANGED <<clock, selected, mutex, chosen>>

\* It throws: the guard gives the mutex back and nothing is selected.
DetectFails(t) ==
  /\ caller[t].pc = "detect"
  /\ mutex' = NoCaller
  /\ Turn(t, Answer(caller[t], "error"))
  /\ UNCHANGED <<clock, selected, chosen>>

\* The zone is copied and the mutex given back.
Unlock(t) ==
  LET c == [caller[t] EXCEPT !.zone = selected]
  IN  /\ c.pc = "held"
      /\ mutex' = NoCaller
      /\ Turn(t, IF c.request.op = "current" THEN Answer(c, "ok") ELSE Go(c, "query"))
      /\ UNCHANGED <<clock, selected, chosen>>

\* query_zone; timestamp_fields adds the offset.
Query(t) ==
  LET c == caller[t]
      answer == QueryZone(c.zone, c.second)
  IN  /\ c.pc = "query"
      /\ \/ /\ answer = {} /\ Turn(t, Answer(c, "error"))
         \/ \E info \in answer :
              Turn(t, Answer([c EXCEPT !.info = info,
                                       !.local = c.second + info.offset], "ok"))
      /\ UNCHANGED <<clock, selected, mutex, chosen>>

\* What a thread does by itself once it has called.
Proceed(t) ==
  Store(t) \/ Lock(t) \/ Detect(t) \/ DetectFails(t) \/ Unlock(t) \/ Query(t)

ZoneStep(t) ==
  \/ \E r \in Requests : Call(t, r)
  \/ Proceed(t)

-----------------------------------------------------------------------------
(* Properties.                                                             *)

Threads ==
  [pc : {"ready", "store", "lock", "detect", "held", "query"}, request : Requests,
   zone : Zones \cup {""}, second : Nat, outcome : {"none", "ok", "error"},
   info : [begin : Nat, end : Nat, offset : Int, save : Int], local : Int, made : Nat]

ZonesTypeOK ==
  /\ selected \in Zones \cup {""} /\ chosen \in Zones \cup {""}
  /\ mutex \in Callers \cup {NoCaller}
  /\ caller \in [Callers -> Threads]

\* A zone that was selected stays selected until another is: detecting the system's
\* zone, which another thread may have begun before, never takes its place.
SelectionHolds == chosen # "" => selected = chosen

\* An answer about a timestamp is true of it and of every second of the interval it
\* names, up to the end ICU knows; zone_info() answers for the time of its call, and
\* a local time is the timestamp and the offset that was in force at it.
InfoIsSound ==
  \A t \in Callers :
    LET c == caller[t]
        seconds == c.info.begin .. (IF c.info.end = MaxSecond THEN MaxIcuSeconds
                                    ELSE c.info.end - 1)
    IN  c.pc = "ready" /\ c.outcome = "ok" /\ c.request.op \in {"now", "info", "local"} =>
          /\ c.second \in seconds
          /\ \A second \in seconds :
               /\ History[c.zone][PeriodAt(c.zone, second)].offset = c.info.offset
               /\ History[c.zone][PeriodAt(c.zone, second)].save = c.info.save
          /\ c.request.op = "local" =>
               c.local = c.second + History[c.zone][PeriodAt(c.zone, c.second)].offset
=============================================================================
