------------------------------ MODULE Timedate ------------------------------
(***************************************************************************)
(* A tx::Timedate object of timex (class_timedate.cpp) and the tx::Date    *)
(* and tx::Time in it (class_date.cpp, class_time.cpp), under any sequence *)
(* of calls.  add_day and sub_day, and everything built on them, work on a *)
(* copy of the date, day by day, and store it only at the end; each day is *)
(* a step here.                                                            *)
(*                                                                         *)
(* Of a time's six fields the last four (seconds to nanoseconds) are one,  *)
(* the ticks of a minute: the code treats all fields alike.                *)
(***************************************************************************)
EXTENDS Calendar

CONSTANTS
  HoursPerDay, MinutesPerHour, TicksPerMinute,  \* 24, 60, 60 * 10^9
  Starts,      \* dates an object is made with
  Amounts,     \* arguments of the calls that count years, months, weeks and days
  Durations,   \* arguments of those that count hours, minutes and ticks
  MaxCalls     \* bound on the number of calls

ASSUME TimeAssumption == /\ HoursPerDay \in Nat \ {0}
                         /\ MinutesPerHour \in Nat \ {0}
                         /\ TicksPerMinute \in Nat \ {0}
ASSUME CallAssumption == /\ \A date \in Starts : ValidDate(date)
                         /\ Amounts \subseteq 0 .. Max /\ Durations \subseteq 0 .. Max
                         /\ MaxCalls \in Nat

VARIABLES
  date, time,   \* the object
  pc,           \* between calls, or counting days
  work,         \* the copy of the date that add_day or sub_day changes
  left,         \* days still to count
  newTime,      \* the time to be stored with it
  call,         \* history: the last call, with the object it found
  ok,           \* what it returned
  calls         \* number of calls

vars == <<date, time, pc, work, left, newTime, call, ok, calls>>

counting == <<pc, work, left, newTime>>

-----------------------------------------------------------------------------
(* tx::Time                                                                *)

TicksPerHour == MinutesPerHour * TicksPerMinute
TicksPerDay == HoursPerDay * TicksPerHour

Time == [hour : 0 .. HoursPerDay - 1, minute : 0 .. MinutesPerHour - 1,
         tick : 0 .. TicksPerMinute - 1]

ToTicks(t) == t.hour * TicksPerHour + t.minute * TicksPerMinute + t.tick

FromTicks(n) == [hour |-> n \div TicksPerHour,
                 minute |-> (n % TicksPerHour) \div TicksPerMinute,
                 tick |-> n % TicksPerMinute]

\* The ticks of a unit: hour, minute or tick.
Units == {TicksPerHour, TicksPerMinute, 1}

\* add_time_units and sub_time_units of Time wrap round at midnight.
AddToTime(t, n, unit) ==
  FromTicks((ToTicks(t) + (n % (TicksPerDay \div unit)) * unit) % TicksPerDay)

SubFromTime(t, n, unit) ==
  FromTicks((ToTicks(t) + TicksPerDay - (n % (TicksPerDay \div unit)) * unit)
              % TicksPerDay)

-----------------------------------------------------------------------------
Call(op, n, unit) == [op |-> op, n |-> n, unit |-> unit, date |-> date, time |-> time]

Init ==
  /\ date \in Starts /\ time \in Time
  /\ pc = "ready"
  /\ work = date /\ left = 0 /\ newTime = time
  /\ call = Call("new", 0, 1)
  /\ ok = TRUE
  /\ calls = 0

\* A call that starts: the object is what earlier calls have left.
Begin(op, n, unit) ==
  /\ pc = "ready" /\ calls < MaxCalls
  /\ calls' = calls + 1
  /\ call' = Call(op, n, unit)

\* A method that is done at once with the given date, or fails.
ReturnDate(d) ==
  /\ ok' = (d # Failed)
  /\ date' = IF d = Failed THEN date ELSE d
  /\ UNCHANGED <<time, counting>>

CallAddYear(n) == Begin("add_year", n, 1) /\ ReturnDate(AddYear(date, n))
CallSubYear(n) == Begin("sub_year", n, 1) /\ ReturnDate(SubYear(date, n))
CallAddMonth(n) == Begin("add_month", n, 1) /\ ReturnDate(AddMonth(date, n))
CallSubMonth(n) == Begin("sub_month", n, 1) /\ ReturnDate(SubMonth(date, n))

\* set(), set_year(), set_month(), set_day(): refused unless the whole is a date.
CallSet(y, m, d) ==
  /\ Begin("set", 0, 1)
  /\ ReturnDate(IF IsValid(y, m, d) THEN MakeDate(y, m, d) ELSE Failed)

Setter ==
  \E n \in Amounts :
    \/ CallSet(n, date.month, date.day)
    \/ CallSet(date.year, n, date.day)
    \/ CallSet(date.year, date.month, n)

\* set(), set_time(), set_hour(), set_minute() and the setters of the parts of a
\* minute: refused out of range.
CallSetTime(t) ==
  /\ Begin("set_time", 0, 1)
  /\ ok' = (t \in Time)
  /\ time' = IF t \in Time THEN t ELSE time
  /\ UNCHANGED <<date, counting>>

TimeSetter ==
  \/ \E t \in Time : CallSetTime(t)
  \/ \E n \in Durations :
       \/ CallSetTime([time EXCEPT !.hour = n])
       \/ CallSetTime([time EXCEPT !.minute = n])
       \/ CallSetTime([time EXCEPT !.tick = n])

\* Time's own arithmetic, stored with set_time().
CallTime(n, unit) ==
  /\ \/ Begin("add_time", n, unit) /\ time' = AddToTime(time, n, unit)
     \/ Begin("sub_time", n, unit) /\ time' = SubFromTime(time, n, unit)
  /\ ok' = TRUE
  /\ UNCHANGED <<date, counting>>

-----------------------------------------------------------------------------
(* Counting days.                                                          *)

DaysPer400Years == 146097

\* Where the days of a call start to be counted: the whole cycles of 400 years are
\* taken first, as years.
Count(direction, base, days, t) ==
  IF base = Failed
  THEN ok' = FALSE /\ UNCHANGED counting
  ELSE /\ pc' = direction /\ work' = base /\ left' = days % DaysPer400Years
       /\ newTime' = t /\ ok' = ok

Cycles(days) == 400 * (days \div DaysPer400Years)

\* add_day(days) with a time to be stored along with the result.
StartAdding(days, t) ==
  /\ Count("adding", AddYear(date, Cycles(days)), days, t)
  /\ UNCHANGED <<date, time>>

StartSubtracting(days, t) ==
  /\ Count("subtracting", SubYear(date, Cycles(days)), days, t)
  /\ UNCHANGED <<date, time>>

Refuse == ok' = FALSE /\ UNCHANGED <<date, time, counting>>

CallAddDay(n) == Begin("add_day", n, TicksPerDay) /\ StartAdding(n, time)
CallSubDay(n) == Begin("sub_day", n, TicksPerDay) /\ StartSubtracting(n, time)

CallAddWeek(n) ==
  /\ Begin("add_week", n, 7 * TicksPerDay)
  /\ IF n > Max \div 7 THEN Refuse ELSE StartAdding(7 * n, time)

CallSubWeek(n) ==
  /\ Begin("sub_week", n, 7 * TicksPerDay)
  /\ IF n > Max \div 7 THEN Refuse ELSE StartSubtracting(7 * n, time)

\* add_time_units: whole days, and one more if the rest passes midnight.
CallAddUnits(n, unit) ==
  LET perDay == TicksPerDay \div unit
      combined == ToTicks(time) + (n % perDay) * unit
      carry == combined \div TicksPerDay
  IN  /\ Begin("add_units", n, unit)
      /\ IF n \div perDay > Max - carry THEN Refuse
         ELSE StartAdding(n \div perDay + carry, FromTicks(combined % TicksPerDay))

\* sub_time_units: whole days, and one more if the rest is more than the time of day.
CallSubUnits(n, unit) ==
  LET perDay == TicksPerDay \div unit
      rest == (n % perDay) * unit
      current == ToTicks(time)
  IN  /\ Begin("sub_units", n, unit)
      /\ IF current >= rest
         THEN StartSubtracting(n \div perDay, FromTicks(current - rest))
         ELSE IF n \div perDay = Max THEN Refuse
         ELSE StartSubtracting(n \div perDay + 1,
                               FromTicks(TicksPerDay - (rest - current)))

\* Mutant: the days are counted on the object itself and not on a copy.
CountDayInPlace(direction, step) ==
  /\ pc = direction /\ left > 0
  /\ IF step = Failed
     THEN /\ pc' = "ready" /\ ok' = FALSE
          /\ UNCHANGED <<date, work, left>>
     ELSE /\ work' = step /\ date' = step /\ left' = left - 1
          /\ UNCHANGED <<pc, ok>>
  /\ UNCHANGED <<time, newTime, call, calls>>

\* One turn of the loop; a day that cannot be taken ends the call.
CountDay(direction, step) ==
  /\ pc = direction /\ left > 0
  /\ IF step = Failed
     THEN /\ pc' = "ready" /\ ok' = FALSE
          /\ UNCHANGED <<work, left>>
     ELSE /\ work' = step /\ left' = left - 1
          /\ UNCHANGED <<pc, ok>>
  /\ UNCHANGED <<date, time, newTime, call, calls>>

\* *this = result, with Timedate::set for the calls that change the time.
Finish ==
  /\ pc \in {"adding", "subtracting"} /\ left = 0
  /\ pc' = "ready"
  /\ date' = work /\ time' = newTime /\ ok' = TRUE
  /\ UNCHANGED <<work, left, newTime, call, calls>>

NewCall ==
  \/ Setter \/ TimeSetter
  \/ \E n \in Amounts :
       \/ CallAddYear(n) \/ CallSubYear(n) \/ CallAddMonth(n) \/ CallSubMonth(n)
       \/ CallAddWeek(n) \/ CallSubWeek(n) \/ CallAddDay(n) \/ CallSubDay(n)
  \/ \E n \in Durations, unit \in Units :
       CallTime(n, unit) \/ CallAddUnits(n, unit) \/ CallSubUnits(n, unit)

Rest == pc = "ready" /\ calls = MaxCalls /\ UNCHANGED vars

Next ==
  \/ NewCall
  \/ CountDay("adding", NextDay(work))
  \/ CountDay("subtracting", PreviousDay(work))
  \/ Finish
  \/ Rest

Spec == Init /\ [][Next]_vars

-----------------------------------------------------------------------------
(* Properties.                                                             *)

\* The object is a date of the calendar and a time of day at every moment, whatever
\* calls were made, and so is the copy while days are counted.
TypeOK ==
  /\ ValidDate(date) /\ time \in Time
  /\ ValidDate(work) /\ newTime \in Time
  /\ pc \in {"ready", "adding", "subtracting"}
  /\ left \in 0 .. DaysPer400Years - 1
  /\ ok \in BOOLEAN
  /\ calls \in 0 .. MaxCalls

\* Ticks since midnight before the first of January of year 0.
Instant(d, t) == DayNumber(d) * TicksPerDay + ToTicks(t)

LastInstant == Instant(MakeDate(Max, 12, 31), FromTicks(TicksPerDay - 1))

Forward == {"add_day", "add_week", "add_units"}
Backward == {"sub_day", "sub_week", "sub_units"}

Shift == call.n * call.unit

\* Arithmetic is exact: a call that succeeds moves the instant by the amount asked
\* for, through month ends, leap years, centuries and whole cycles of 400 years; and
\* a Time alone moves by the amount modulo a day.
ExactArithmetic ==
  pc = "ready" /\ ok =>
    /\ call.op \in Forward => Instant(date, time) = Instant(call.date, call.time) + Shift
    /\ call.op \in Backward => Instant(date, time) = Instant(call.date, call.time) - Shift
    /\ call.op = "add_time" => ToTicks(time) = (ToTicks(call.time) + Shift) % TicksPerDay
    /\ call.op = "sub_time" => ToTicks(time) = (ToTicks(call.time) - Shift) % TicksPerDay

\* A call fails only if the result cannot be represented (or more weeks are asked for
\* than there are days in a Day), and then the object is what it was before; and it is
\* that as long as the call counts.
FailureIsClean ==
  /\ pc # "ready" \/ ~ok => date = call.date /\ time = call.time
  /\ pc = "ready" /\ ~ok =>
       /\ call.op \in Forward =>
            \/ Instant(call.date, call.time) + Shift > LastInstant
            \/ call.op = "add_week" /\ call.n > Max \div 7
       /\ call.op \in Backward =>
            \/ Instant(call.date, call.time) < Shift
            \/ call.op = "sub_week" /\ call.n > Max \div 7

MonthShift ==
  (IF call.op \in {"add_year", "add_month"} THEN 1 ELSE -1)
    * (IF call.op \in {"add_year", "sub_year"} THEN 12 ELSE 1) * call.n

\* Months and years are counted exactly, up to the limits, and the day is kept unless
\* the month is too short for it, when it is the month's last.
CalendarArithmetic ==
  LET target == MonthNumber(call.date) + MonthShift
      last == DaysInMonth(date.year, date.month)
  IN  pc = "ready" /\ call.op \in {"add_year", "sub_year", "add_month", "sub_month"} =>
        /\ ok <=> target \in 0 .. 12 * Max + 11
        /\ ok => /\ MonthNumber(date) = target
                 /\ date.day = IF call.date.day > last THEN last ELSE call.date.day

\* Both together: what a call that succeeds does to the date, in days or in months.
ArithmeticIsRight == ExactArithmetic /\ CalendarArithmetic
=============================================================================
