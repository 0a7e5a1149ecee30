------------------------------ MODULE Calendar ------------------------------
(***************************************************************************)
(* The calendar of timex, tx::Date (timex/src/class_date.cpp), as          *)
(* operators on dates: each returns the date afterwards, or Failed where   *)
(* the method returns false and leaves the object as it was.               *)
(*                                                                         *)
(* Years count from 0 to Max and are unsigned 64-bit numbers in the code.  *)
(* The guards keep every intermediate value below 2^64, so that arithmetic *)
(* here is exact.                                                          *)
(***************************************************************************)
EXTENDS Integers

CONSTANT Max   \* std::numeric_limits<Year>::max(), which is also Day's and Week's

ASSUME MaxAssumption == Max \in Nat

-----------------------------------------------------------------------------
Date == [year : 0 .. Max, month : 1 .. 12, day : 1 .. 31]

MakeDate(y, m, d) == [year |-> y, month |-> m, day |-> d]

Failed == [failed |-> TRUE]

\* Mutant: the Julian rule, without the centuries.
IsLeapYearJulian(year) == year % 4 = 0

IsLeapYear(year) == year % 400 = 0 \/ (year % 4 = 0 /\ year % 100 # 0)

DaysInMonth(year, month) ==
  CASE month \in {1, 3, 5, 7, 8, 10, 12} -> 31
    [] month \in {4, 6, 9, 11} -> 30
    [] month = 2 -> IF IsLeapYear(year) THEN 29 ELSE 28
    [] OTHER -> 0

\* set(), the constructor and is_valid()
IsValid(y, m, d) == m \in 1 .. 12 /\ d \in 1 .. DaysInMonth(y, m)

ValidDate(date) ==
  date \in Date /\ date.day <= DaysInMonth(date.year, date.month)

\* The same day of another month, or that month's last one.
ClampedDate(y, m, d) ==
  MakeDate(y, m, IF d > DaysInMonth(y, m) THEN DaysInMonth(y, m) ELSE d)

AddYear(date, n) ==
  IF n > Max - date.year THEN Failed
  ELSE ClampedDate(date.year + n, date.month, date.day)

SubYear(date, n) ==
  IF n > date.year THEN Failed
  ELSE ClampedDate(date.year - n, date.month, date.day)

AddMonth(date, n) ==
  LET index == (date.month - 1) + (n % 12)
      delta == n \div 12
      carry == index \div 12
  IN  IF delta > Max - date.year \/ carry > Max - (date.year + delta) THEN Failed
      ELSE ClampedDate(date.year + delta + carry, (index % 12) + 1, date.day)

SubMonth(date, n) ==
  LET rest == n % 12
      delta == n \div 12
      borrow == rest >= date.month
  IN  IF (borrow /\ date.year = 0)
         \/ delta > (IF borrow THEN date.year - 1 ELSE date.year) THEN Failed
      ELSE ClampedDate((IF borrow THEN date.year - 1 ELSE date.year) - delta,
                       IF borrow THEN 12 - (rest - date.month) ELSE date.month - rest,
                       date.day)

NextDay(date) ==
  IF date.day < DaysInMonth(date.year, date.month)
    THEN [date EXCEPT !.day = @ + 1]
  ELSE IF date.month < 12 THEN MakeDate(date.year, date.month + 1, 1)
  ELSE IF date.year = Max THEN Failed
  ELSE MakeDate(date.year + 1, 1, 1)

PreviousDay(date) ==
  IF date.day > 1 THEN [date EXCEPT !.day = @ - 1]
  ELSE IF date.month > 1
    THEN MakeDate(date.year, date.month - 1, DaysInMonth(date.year, date.month - 1))
  ELSE IF date.year = 0 THEN Failed
  ELSE MakeDate(date.year - 1, 12, 31)

-----------------------------------------------------------------------------
(* Reference: the proleptic Gregorian calendar as a count of days.         *)

\* Leap years before the given one (0 is a leap year).
LeapYearsBefore(y) == (((y + 3) \div 4) - ((y + 99) \div 100)) + ((y + 399) \div 400)

DaysBeforeMonth(y, m) ==
  LET common == CASE m = 1 -> 0   [] m = 2 -> 31  [] m = 3 -> 59  [] m = 4 -> 90
                  [] m = 5 -> 120 [] m = 6 -> 151 [] m = 7 -> 181 [] m = 8 -> 212
                  [] m = 9 -> 243 [] m = 10 -> 273 [] m = 11 -> 304 [] m = 12 -> 334
  IN  common + (IF m > 2 /\ IsLeapYear(y) THEN 1 ELSE 0)

\* Days from the first of January of year 0.
DayNumber(date) ==
  365 * date.year + LeapYearsBefore(date.year)
    + DaysBeforeMonth(date.year, date.month) + date.day - 1

\* Months from January of year 0.
MonthNumber(date) == 12 * date.year + date.month - 1
=============================================================================
