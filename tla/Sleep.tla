------------------------------- MODULE Sleep -------------------------------
(***************************************************************************)
(* tx::sleep of timex: the calls of func_sleep.cpp and what they do on the *)
(* two kinds of system.  On Linux and the BSDs (zsleep/linux and its three *)
(* copies) a call is one system call, made again when a signal interrupts  *)
(* it; on Windows (zsleep/win) it is a wait or a loop of timers, and a     *)
(* wait for a date reads the wall clock again after them.                  *)
(*                                                                         *)
(* Time is counted in ticks of 100 ns; a date is the number of its day,    *)
(* and add_day, proved to be exact or to change nothing in module          *)
(* TimedateProofs, adds to that number.  Local time is UTC.                *)
(***************************************************************************)
EXTENDS SysClock

CONSTANTS
  Sleepers,            \* threads that sleep
  Durations,           \* relative times asked for
  Days, MonthStarts,   \* dates asked for, and first days of the months asked for
  Counts,              \* weeks and days asked for
  TimesOfDay,          \* times of day asked for
  TicksPerDay, TicksPerMs, DaysPerWeek,   \* 7, or 5 with _WEEK_NO_HOLIDAYS
  LastDay,             \* the calendar's last
  LastConvertible,     \* last day of the year INT_MAX - 1900, or of 30827 on Windows
  MaxCount,            \* largest 64-bit number
  LongestSleep, LongestTimer,   \* MAXDWORD milliseconds and 24 hours, in ticks
  MaxInterrupts,       \* bound on the number of signals
  LatestCall,          \* bound on the time of a call
  MaxLag               \* bound on the ticks a thread is late, or in a signal handler

ASSUME SleepAssumption ==
  /\ {TicksPerDay, TicksPerMs, DaysPerWeek} \subseteq Nat \ {0}
  /\ TicksPerDay % TicksPerMs = 0
  \* A Time is less than a day, and a day less than the 49.7 days of MAXDWORD.
  /\ Durations \cup TimesOfDay \subseteq 0 .. TicksPerDay - 1
  /\ TicksPerDay + TicksPerMs <= LongestSleep
  /\ Counts \subseteq 0 .. MaxCount
  /\ Days \cup MonthStarts \cup {LastConvertible} \subseteq 0 .. LastDay
  \* 2^64 days are less than 2^56 years, and the calendar ends with the year 2^64.
  /\ LastConvertible + MaxCount <= LastDay
  /\ LongestTimer \in Nat \ {0}
  /\ LongestSleep \in Nat \ {0} /\ LongestSleep % TicksPerMs = 0
  /\ {LastDay, MaxCount, MaxInterrupts, LatestCall, MaxLag} \subseteq Nat

VARIABLES
  platform,    \* "posix" or "windows"
  sleeper,     \* what each thread is doing
  interrupts   \* signals delivered so far

sleepVars == <<platform, sleeper, interrupts>>

-----------------------------------------------------------------------------
(* The calls.  valid: the arguments are a Date and a Time, or make them.   *)

RelativeCalls == [op : {"basic", "exact"}, valid : BOOLEAN, ticks : Durations]

DateCalls == [op : {"long", "all"}, valid : BOOLEAN, day : Days, time : TimesOfDay]

\* sleep_long by parts waits for midnight.
PartsCalls == {c \in [op : {"long", "all"}, valid : BOOLEAN, first : MonthStarts,
                      weeks : Counts, days : Counts, time : TimesOfDay] :
                 c.op = "long" => c.time = 0}

Calls == RelativeCalls \cup DateCalls \cup PartsCalls

Relative(c) == c.op \in {"basic", "exact"}
HasParts(c) == ~Relative(c) /\ "first" \in DOMAIN c

\* add_day; its result is not looked at, so that a day past the calendar's end
\* leaves the first of the month.
AddDay(day, n) == IF day + n <= LastDay THEN day + n ELSE day

\* The date, or none if it is refused.
MakeTargetDate(first, weeks, days) ==
  IF \/ days = 0
     \/ platform = "windows" /\ first > LastConvertible
     \/ weeks > MaxCount \div DaysPerWeek
     \/ weeks * DaysPerWeek > MaxCount - (days - 1)
  THEN {} ELSE {AddDay(first, weeks * DaysPerWeek + days - 1)}

TargetDate(c) ==
  IF HasParts(c) THEN MakeTargetDate(c.first, c.weeks, c.days) ELSE {c.day}

\* to_timespec and to_utc_filetime: a SYSTEMTIME has no more than milliseconds.
Convert(day, time) ==
  IF day > LastConvertible THEN {}
  ELSE {day * TicksPerDay + (IF platform = "posix" THEN time
                             ELSE time - (time % TicksPerMs))}

\* The wall-clock time waited for, or none if the call is refused.
Goal(c) == UNION {Convert(day, c.time) : day \in TargetDate(c)}

-----------------------------------------------------------------------------
(* A sleeper: where it is, its call, the monotonic time of the call, when  *)
(* it is to be woken, the ticks left to wait, the ticks spent in signal    *)
(* handlers and between waits, and how the call ended.                     *)

Idle(c) == [pc |-> "idle", call |-> c, begun |-> 0, wake |-> 0, left |-> 0,
            lost |-> 0, outcome |-> "none"]

SleepInit ==
  /\ platform \in {"posix", "windows"}
  /\ sleeper \in [Sleepers -> {Idle(c) : c \in Calls}]
  /\ interrupts = 0

Become(t, s) == sleeper' = [sleeper EXCEPT ![t] = s] /\ UNCHANGED platform

Return(s, outcome) == [s EXCEPT !.pc = "returned", !.outcome = outcome]

WaitFor(s, pc, wake, left) == [s EXCEPT !.pc = pc, !.wake = wake, !.left = left]

\* The call is made and its arguments looked at.  Parts that are no Date or Time: the
\* constructor throws.
Begin(t) ==
  LET s == [sleeper[t] EXCEPT !.begun = mono]
      c == s.call
      posix == platform = "posix"
  IN  /\ s.pc = "idle" /\ mono <= LatestCall
      /\ Become(t, IF ~c.valid THEN Return(s, "thrown")
                   ELSE IF Relative(c)
                   THEN IF c.ticks = 0 THEN Return(s, "slept")
                        ELSE IF ~posix THEN WaitFor(s, c.op, 0, c.ticks)
                        ELSE WaitFor(s, IF c.op = "basic" THEN "nanosleep" ELSE "deadline",
                                     mono + c.ticks, 0)
                   ELSE IF Goal(c) = {} THEN Return(s, "refused")
                   ELSE WaitFor(s, IF posix THEN "until" ELSE "check",
                                CHOOSE g \in Goal(c) : TRUE, 0))
      /\ UNCHANGED <<clock, interrupts>>

-----------------------------------------------------------------------------
(* Linux and the BSDs.                                                     *)

InSystemCall(s) == s.pc \in {"nanosleep", "deadline", "until"}

Due(s) == s.wake <= IF s.pc = "until" THEN Wall ELSE mono

Wake(t) ==
  /\ InSystemCall(sleeper[t]) /\ Due(sleeper[t])
  /\ Become(t, Return(sleeper[t], "slept"))
  /\ UNCHANGED <<clock, interrupts>>

\* EINTR.  nanosleep reports the time that was left.
Interrupt(t) ==
  /\ InSystemCall(sleeper[t]) /\ ~Due(sleeper[t])
  /\ interrupts < MaxInterrupts /\ interrupts' = interrupts + 1
  /\ Become(t, WaitFor(sleeper[t], "interrupted", sleeper[t].wake, sleeper[t].wake - mono))
  /\ UNCHANGED clock

\* Mutant: the whole time is waited for once more.
ResumeFromStart(t) ==
  /\ sleeper[t].pc = "interrupted"
  /\ LET s == sleeper[t] IN
       \/ s.call.op = "basic" /\ Become(t, WaitFor(s, "nanosleep", mono + s.call.ticks, 0))
       \/ s.call.op = "exact" /\ Become(t, WaitFor(s, "deadline", mono + s.call.ticks, 0))
       \/ ~Relative(s.call) /\ Become(t, WaitFor(s, "until", s.wake, 0))
  /\ UNCHANGED <<clock, interrupts>>

\* The system call is made again: nanosleep for the rest, the others for the same
\* absolute time.
Resume(t) ==
  /\ sleeper[t].pc = "interrupted"
  /\ LET s == sleeper[t] IN
       \/ s.call.op = "basic" /\ Become(t, WaitFor(s, "nanosleep", mono + s.left, 0))
       \/ s.call.op = "exact" /\ Become(t, WaitFor(s, "deadline", s.wake, 0))
       \/ ~Relative(s.call) /\ Become(t, WaitFor(s, "until", s.wake, 0))
  /\ UNCHANGED <<clock, interrupts>>

\* Any other error ends the call, and the caller cannot tell.
Fail(t) ==
  /\ InSystemCall(sleeper[t])
  /\ Become(t, Return(sleeper[t], "failed"))
  /\ UNCHANGED <<clock, interrupts>>

-----------------------------------------------------------------------------
(* Windows: "basic" and "exact" are the heads of the two loops, with the   *)
(* ticks still to wait; "check" that of wait_until.                        *)

AtMost(n, bound) == IF n < bound THEN n ELSE bound

\* Whole milliseconds, rounded up, and no more than Sleep's argument holds.
SleepTicks(n) == AtMost(n + ((TicksPerMs - (n % TicksPerMs)) % TicksPerMs), LongestSleep)

\* Sleep(MAXDWORD) is Sleep(INFINITE): it does not return.  Any shorter wait is the
\* whole rest, and the loop of basic_wait ends with it.
StartSleep(t) ==
  LET s == sleeper[t]
      n == SleepTicks(s.left)
  IN  /\ s.pc = "basic"
      /\ Become(t, IF n = LongestSleep THEN [s EXCEPT !.pc = "forever"]
                   ELSE WaitFor(s, "Sleep", mono + n, 0))
      /\ UNCHANGED <<clock, interrupts>>

\* The timer cannot be created, set or waited for: what is left is slept through.
NoTimer(t) ==
  /\ sleeper[t].pc \in {"exact", "timer"}
  /\ Become(t, [sleeper[t] EXCEPT !.pc = "basic"])
  /\ UNCHANGED <<clock, interrupts>>

StartTimer(t) ==
  LET s == sleeper[t]
  IN  /\ s.pc = "exact"
      /\ Become(t, WaitFor(s, "timer", mono + AtMost(s.left, LongestTimer), s.left))
      /\ UNCHANGED <<clock, interrupts>>

\* Mutant: the wall clock is not looked at again.
WaitedUnchecked(s) == Return(s, "slept")

\* The end of a loop of waits.
Waited(s) == IF Relative(s.call) THEN Return(s, "slept") ELSE [s EXCEPT !.pc = "check"]

SleepEnds(t) ==
  LET s == sleeper[t]
  IN  /\ s.pc = "Sleep" /\ mono >= s.wake
      /\ Become(t, Waited(s))
      /\ UNCHANGED <<clock, interrupts>>

TimerEnds(t) ==
  LET s == sleeper[t]
      left == s.left - AtMost(s.left, LongestTimer)
  IN  /\ s.pc = "timer" /\ mono >= s.wake
      /\ Become(t, IF left = 0 THEN Waited(s) ELSE [s EXCEPT !.pc = "exact", !.left = left])
      /\ UNCHANGED <<clock, interrupts>>

\* wait_until: the remaining time is converted to nanoseconds in 64 bits.
Check(t) ==
  LET s == sleeper[t]
      goal == CHOOSE g \in Goal(s.call) : TRUE
      left == (goal - Wall) % (MaxCount + 1)
  IN  /\ s.pc = "check"
      /\ Become(t, IF Wall >= goal THEN Return(s, "slept")
                   ELSE IF left = 0 THEN s
                   ELSE [s EXCEPT !.pc = IF s.call.op = "all" THEN "exact" ELSE "basic",
                                  !.left = left])
      /\ UNCHANGED <<clock, interrupts>>

-----------------------------------------------------------------------------
\* What a thread does by itself once it has called.
SleepOn(t) ==
  \/ Wake(t) \/ Resume(t)
  \/ StartSleep(t) \/ StartTimer(t) \/ SleepEnds(t) \/ TimerEnds(t) \/ Check(t)

SleepStep(t) == Begin(t) \/ SleepOn(t) \/ Interrupt(t) \/ Fail(t) \/ NoTimer(t)

\* Time passes, for threads that are not asleep too.
Late(s) ==
  \/ s.pc \in {"interrupted", "basic", "exact"}
  \/ s.pc \in {"nanosleep", "deadline", "until", "Sleep", "timer"} /\ Due(s)

SleepTick ==
  /\ Tick
  /\ \A t \in Sleepers : Late(sleeper[t]) => sleeper[t].lost < MaxLag
  /\ sleeper' = [t \in Sleepers |-> IF Late(sleeper[t])
                                    THEN [sleeper[t] EXCEPT !.lost = @ + 1]
                                    ELSE sleeper[t]]
  /\ UNCHANGED <<platform, interrupts>>

-----------------------------------------------------------------------------
(* Properties.                                                             *)

\* The date a call names by its parts, and the time it has to wait for.
NamedDay(c) == IF HasParts(c) THEN c.first + c.weeks * DaysPerWeek + c.days - 1 ELSE c.day
NamedTime(c) == NamedDay(c) * TicksPerDay + c.time

\* A call that has waited has waited long enough: a relative one for the time asked,
\* whatever signals came and however often the clock was set; one for a date until
\* the wall clock shows it (on Windows its millisecond).
NeverEarly ==
  [][\A t \in Sleepers :
       LET c == sleeper[t].call
       IN  sleeper[t].outcome = "none" /\ sleeper'[t].outcome = "slept" =>
             IF Relative(c) THEN mono' - sleeper'[t].begun >= c.ticks
             ELSE Wall' >= NamedTime(c) - (IF platform = "posix" THEN 0
                                           ELSE NamedTime(c) % TicksPerMs)]_sleeper

\* A thread waits for the right moment: nanosleep for what was asked and the time
\* spent in signal handlers, the monotonic deadline for exactly what was asked, a
\* date for exactly the date named, which never wraps round and is never the first of
\* the month in place of a date the calendar does not have.  No call for a time waits
\* for ever, and one for a date only on Windows, with 49.7 days to go.
WakeIsExact ==
  \A t \in Sleepers :
    LET s == sleeper[t]
        c == s.call
    IN  /\ s.pc = "nanosleep" /\ ~Due(s) => s.wake = s.begun + c.ticks + s.lost
        /\ s.pc = "deadline" => s.wake = s.begun + c.ticks
        /\ s.pc = "until" => s.wake = NamedTime(c)
        /\ s.pc = "check" => Goal(c) = {NamedTime(c) - (NamedTime(c) % TicksPerMs)}
        /\ s.pc = "forever" => ~Relative(c) /\ platform = "windows"
                                /\ s.left > LongestSleep - TicksPerMs
=============================================================================
