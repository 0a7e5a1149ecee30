--------------------------- MODULE TimedateProofs ---------------------------
(***************************************************************************)
(* Proofs about tx::Timedate for every range of years, every length of the *)
(* day, hour and minute, and any number of calls with any arguments: the   *)
(* object is always a date and a time, and its arithmetic is exact.        *)
(***************************************************************************)
EXTENDS Timedate, TLAPS

-----------------------------------------------------------------------------
(* The calendar: its operations never leave it, a step of the day loops of     *)
(* add_day and sub_day is exactly one day, and 400 years are the 146097 days   *)
(* the loops take in one go.                                                   *)

\* A month has between 28 and 31 days.
LEMMA MonthLength ==
  ASSUME NEW y \in Nat, NEW m \in 1 .. 12
  PROVE  DaysInMonth(y, m) \in 28 .. 31
  BY DEF DaysInMonth

\* What a date of the calendar is made of.
LEMMA Fields ==
  ASSUME NEW given, ValidDate(given)
  PROVE  /\ given.year \in 0 .. Max /\ given.year \in Nat
         /\ given.month \in 1 .. 12
         /\ given.day \in 1 .. DaysInMonth(given.year, given.month)
         /\ given.day \in 1 .. 31
  <1>1. /\ given.year \in 0 .. Max
        /\ given.month \in 1 .. 12
        /\ given.day \in 1 .. 31
        /\ given.day <= DaysInMonth(given.year, given.month)
    BY DEF ValidDate, Date
  <1>2. given.year \in Nat
    BY <1>1, MaxAssumption
  <1>3. DaysInMonth(given.year, given.month) \in 28 .. 31
    BY <1>1, <1>2, MonthLength
  <1> QED BY <1>1, <1>2, <1>3

\* MakeDate gives a date of the calendar if its arguments are one.
LEMMA Made ==
  ASSUME NEW y \in 0 .. Max, NEW m \in 1 .. 12, NEW d \in 1 .. DaysInMonth(y, m)
  PROVE  /\ ValidDate(MakeDate(y, m, d))
         /\ MakeDate(y, m, d).year = y
         /\ MakeDate(y, m, d).month = m
         /\ MakeDate(y, m, d).day = d
  <1>1. DaysInMonth(y, m) \in 28 .. 31
    BY MonthLength, MaxAssumption
  <1>2. d \in 1 .. 31 /\ d <= DaysInMonth(y, m)
    BY <1>1
  <1> QED BY <1>2 DEF MakeDate, ValidDate, Date

\* ClampedDate gives a date of the calendar.
LEMMA ClampedIsValid ==
  ASSUME NEW y \in 0 .. Max, NEW m \in 1 .. 12, NEW d \in 1 .. 31
  PROVE  ValidDate(ClampedDate(y, m, d))
  <1>1. DaysInMonth(y, m) \in 28 .. 31
    BY MonthLength, MaxAssumption
  <1>2. (IF d > DaysInMonth(y, m) THEN DaysInMonth(y, m) ELSE d) \in 1 .. DaysInMonth(y, m)
    BY <1>1
  <1> QED BY <1>2, Made DEF ClampedDate

\* The year methods stay within the calendar, or fail.
LEMMA AddYearIsValid ==
  ASSUME NEW given, ValidDate(given), NEW n \in Nat, AddYear(given, n) # Failed
  PROVE  ValidDate(AddYear(given, n))
  <1>1. ~(n > Max - given.year)
    BY DEF AddYear
  <1>2. given.year + n \in 0 .. Max
    BY <1>1, Fields, MaxAssumption
  <1> QED BY <1>1, <1>2, Fields, ClampedIsValid DEF AddYear

LEMMA SubYearIsValid ==
  ASSUME NEW given, ValidDate(given), NEW n \in Nat, SubYear(given, n) # Failed
  PROVE  ValidDate(SubYear(given, n))
  <1>1. ~(n > given.year)
    BY DEF SubYear
  <1>2. given.year - n \in 0 .. Max
    BY <1>1, Fields, MaxAssumption
  <1> QED BY <1>1, <1>2, Fields, ClampedIsValid DEF SubYear

-----------------------------------------------------------------------------
(* The count of days.                                                      *)

\* The counts are integers.
LEMMA CountsAreIntegers ==
  ASSUME NEW y \in Nat, NEW m \in 1 .. 12
  PROVE  LeapYearsBefore(y) \in Int /\ DaysBeforeMonth(y, m) \in Int
  <1>1. LeapYearsBefore(y) \in Int
    BY DEF LeapYearsBefore
  <1>2. DaysBeforeMonth(y, m) \in Int
    BY DEF DaysBeforeMonth
  <1> QED BY <1>1, <1>2

\* One year after another: the first of January moves by 365 days, or 366.
LEMMA YearLength ==
  ASSUME NEW y \in Nat
  PROVE  LeapYearsBefore(y + 1) = LeapYearsBefore(y) + (IF IsLeapYear(y) THEN 1 ELSE 0)
  <1>1. (y + 4) \div 4 = ((y + 3) \div 4) + (IF y % 4 = 0 THEN 1 ELSE 0)
    OBVIOUS
  <1>2. (y + 100) \div 100 = ((y + 99) \div 100) + (IF y % 100 = 0 THEN 1 ELSE 0)
    OBVIOUS
  <1>3. (y + 400) \div 400 = ((y + 399) \div 400) + (IF y % 400 = 0 THEN 1 ELSE 0)
    OBVIOUS
  <1>4. (y % 400 = 0 => y % 100 = 0) /\ (y % 100 = 0 => y % 4 = 0)
    OBVIOUS
  <1> QED BY <1>1, <1>2, <1>3, <1>4 DEF LeapYearsBefore, IsLeapYear

\* One month after another.
LEMMA MonthStarts ==
  ASSUME NEW y \in Nat, NEW m \in 1 .. 11
  PROVE  DaysBeforeMonth(y, m + 1) = DaysBeforeMonth(y, m) + DaysInMonth(y, m)
  BY DEF DaysBeforeMonth, DaysInMonth

\* The day after is in the calendar and is exactly one day later, over the ends of
\* months and of years (the step of add_day's loop, Date::next_day).
THEOREM NextDayCounts ==
  ASSUME NEW given, ValidDate(given), NextDay(given) # Failed
  PROVE  ValidDate(NextDay(given)) /\ DayNumber(NextDay(given)) = DayNumber(given) + 1
  <1> DEFINE y == given.year
             m == given.month
             d == given.day
  <1>0. /\ y \in 0 .. Max /\ y \in Nat /\ m \in 1 .. 12
        /\ d \in 1 .. DaysInMonth(y, m) /\ d \in 1 .. 31
        /\ DaysInMonth(y, m) \in 28 .. 31
    BY Fields, MonthLength
  <1>1. CASE d < DaysInMonth(y, m)
    <2>1. NextDay(given) = [given EXCEPT !.day = d + 1]
      BY <1>1 DEF NextDay
    <2>2. given \in Date
      BY DEF ValidDate
    <2>3. /\ NextDay(given).year = y /\ NextDay(given).month = m
          /\ NextDay(given).day = d + 1 /\ NextDay(given) \in Date
      BY <2>1, <2>2, <1>0, <1>1 DEF Date
    <2>4. /\ LeapYearsBefore(y) \in Int /\ DaysBeforeMonth(y, m) \in Int
      BY <1>0, CountsAreIntegers
    <2> QED BY <2>3, <2>4, <1>0, <1>1 DEF ValidDate, DayNumber
  <1>2. CASE ~(d < DaysInMonth(y, m)) /\ m < 12
    <2>1. NextDay(given) = MakeDate(y, m + 1, 1)
      BY <1>2 DEF NextDay
    <2>2. 1 \in 1 .. DaysInMonth(y, m + 1) /\ m + 1 \in 1 .. 12
      BY <1>0, <1>2, MonthLength
    <2>3. /\ ValidDate(NextDay(given)) /\ NextDay(given).year = y
          /\ NextDay(given).month = m + 1 /\ NextDay(given).day = 1
      BY <2>1, <2>2, <1>0, Made
    <2>4. DaysBeforeMonth(y, m + 1) = DaysBeforeMonth(y, m) + DaysInMonth(y, m)
      BY <1>0, <1>2, MonthStarts
    <2>5. /\ LeapYearsBefore(y) \in Int /\ DaysBeforeMonth(y, m) \in Int
      BY <1>0, CountsAreIntegers
    <2>6. d = DaysInMonth(y, m)
      BY <1>0, <1>2
    <2> QED BY <2>3, <2>4, <2>5, <2>6, <1>0 DEF DayNumber
  <1>3. CASE ~(d < DaysInMonth(y, m)) /\ ~(m < 12)
    <2>0. m = 12
      BY <1>3, <1>0
    <2>1. DaysInMonth(y, 12) = 31
      BY DEF DaysInMonth
    <2>2. d = 31
      BY <2>0, <2>1, <1>0, <1>3
    <2>3. y # Max /\ NextDay(given) = MakeDate(y + 1, 1, 1)
      BY <1>3 DEF NextDay
    <2>4. y + 1 \in 0 .. Max /\ y + 1 \in Nat
      BY <2>3, <1>0, MaxAssumption
    <2>5. 1 \in 1 .. DaysInMonth(y + 1, 1)
      BY <2>4, MonthLength
    <2>6. /\ ValidDate(NextDay(given)) /\ NextDay(given).year = y + 1
          /\ NextDay(given).month = 1 /\ NextDay(given).day = 1
      BY <2>3, <2>4, <2>5, Made
    <2>7. DaysBeforeMonth(y + 1, 1) = 0
      BY DEF DaysBeforeMonth
    <2>8. DaysBeforeMonth(y, 12) = 334 + (IF IsLeapYear(y) THEN 1 ELSE 0)
      BY DEF DaysBeforeMonth
    <2>9. LeapYearsBefore(y) \in Int
      BY <1>0, CountsAreIntegers
    <2>10. LeapYearsBefore(y + 1) = LeapYearsBefore(y) + (IF IsLeapYear(y) THEN 1 ELSE 0)
      BY <1>0, YearLength
    <2>11. DayNumber(NextDay(given)) = 365 * (y + 1) + LeapYearsBefore(y + 1) + 0 + 1 - 1
      BY <2>6, <2>7 DEF DayNumber
    <2>12. DayNumber(given) = 365 * y + LeapYearsBefore(y) + DaysBeforeMonth(y, 12) + 31 - 1
      BY <2>0, <2>2 DEF DayNumber
    <2> QED BY <2>6, <2>8, <2>9, <2>10, <2>11, <2>12, <1>0
  <1> QED BY <1>1, <1>2, <1>3

\* The day before is in the calendar and is exactly one day earlier, so that sub_day's
\* loop takes back what add_day's adds (Date::previous_day).
THEOREM PreviousDayCounts ==
  ASSUME NEW given, ValidDate(given), PreviousDay(given) # Failed
  PROVE  /\ ValidDate(PreviousDay(given))
         /\ DayNumber(PreviousDay(given)) = DayNumber(given) - 1
  <1> DEFINE y == given.year
             m == given.month
             d == given.day
  <1>0. /\ y \in 0 .. Max /\ y \in Nat /\ m \in 1 .. 12
        /\ d \in 1 .. DaysInMonth(y, m) /\ d \in 1 .. 31
        /\ DaysInMonth(y, m) \in 28 .. 31
    BY Fields, MonthLength
  <1>1. CASE d > 1
    <2>1. PreviousDay(given) = [given EXCEPT !.day = d - 1]
      BY <1>1 DEF PreviousDay
    <2>2. given \in Date
      BY DEF ValidDate
    <2>3. /\ PreviousDay(given).year = y /\ PreviousDay(given).month = m
          /\ PreviousDay(given).day = d - 1 /\ PreviousDay(given) \in Date
      BY <2>1, <2>2, <1>0, <1>1 DEF Date
    <2>4. /\ LeapYearsBefore(y) \in Int /\ DaysBeforeMonth(y, m) \in Int
      BY <1>0, CountsAreIntegers
    <2> QED BY <2>3, <2>4, <1>0, <1>1 DEF ValidDate, DayNumber
  <1>2. CASE ~(d > 1) /\ m > 1
    <2>0. d = 1 /\ m - 1 \in 1 .. 11 /\ m - 1 \in 1 .. 12 /\ (m - 1) + 1 = m
      BY <1>0, <1>2
    <2>1. PreviousDay(given) = MakeDate(y, m - 1, DaysInMonth(y, m - 1))
      BY <1>2 DEF PreviousDay
    <2>2. DaysInMonth(y, m - 1) \in 28 .. 31
      BY <2>0, <1>0, MonthLength
    <2>3. DaysInMonth(y, m - 1) \in 1 .. DaysInMonth(y, m - 1)
      BY <2>2
    <2>4. /\ ValidDate(PreviousDay(given)) /\ PreviousDay(given).year = y
          /\ PreviousDay(given).month = m - 1
          /\ PreviousDay(given).day = DaysInMonth(y, m - 1)
      BY <2>0, <2>1, <2>3, <1>0, Made
    <2>5. DaysBeforeMonth(y, (m - 1) + 1)
            = DaysBeforeMonth(y, m - 1) + DaysInMonth(y, m - 1)
      BY <2>0, <1>0, MonthStarts
    <2>6. DaysBeforeMonth(y, m) = DaysBeforeMonth(y, m - 1) + DaysInMonth(y, m - 1)
      BY <2>0, <2>5
    <2>7. /\ LeapYearsBefore(y) \in Int /\ DaysBeforeMonth(y, m - 1) \in Int
      BY <2>0, <1>0, CountsAreIntegers
    <2> QED BY <2>0, <2>2, <2>4, <2>6, <2>7, <1>0 DEF DayNumber
  <1>3. CASE ~(d > 1) /\ ~(m > 1)
    <2>0. d = 1 /\ m = 1
      BY <1>0, <1>3
    <2>1. y # 0 /\ PreviousDay(given) = MakeDate(y - 1, 12, 31)
      BY <1>3 DEF PreviousDay
    <2>2. y - 1 \in 0 .. Max /\ y - 1 \in Nat /\ (y - 1) + 1 = y
      BY <2>1, <1>0, MaxAssumption
    <2>3. DaysInMonth(y - 1, 12) = 31
      BY DEF DaysInMonth
    <2>4. /\ ValidDate(PreviousDay(given)) /\ PreviousDay(given).year = y - 1
          /\ PreviousDay(given).month = 12 /\ PreviousDay(given).day = 31
      BY <2>1, <2>2, <2>3, Made
    <2>5. DaysBeforeMonth(y, 1) = 0
      BY DEF DaysBeforeMonth
    <2>6. DaysBeforeMonth(y - 1, 12) = 334 + (IF IsLeapYear(y - 1) THEN 1 ELSE 0)
      BY DEF DaysBeforeMonth
    <2>7. LeapYearsBefore(y - 1) \in Int
      BY <2>2, CountsAreIntegers
    <2>8. LeapYearsBefore((y - 1) + 1)
            = LeapYearsBefore(y - 1) + (IF IsLeapYear(y - 1) THEN 1 ELSE 0)
      BY <2>2, YearLength
    <2>9. LeapYearsBefore(y)
            = LeapYearsBefore(y - 1) + (IF IsLeapYear(y - 1) THEN 1 ELSE 0)
      BY <2>2, <2>8
    <2>10. DayNumber(given) = 365 * y + LeapYearsBefore(y) + 0 + 1 - 1
      BY <2>0, <2>5 DEF DayNumber
    <2>11. DayNumber(PreviousDay(given))
             = 365 * (y - 1) + LeapYearsBefore(y - 1) + DaysBeforeMonth(y - 1, 12) + 31 - 1
      BY <2>4 DEF DayNumber
    <2> QED BY <2>4, <2>6, <2>7, <2>9, <2>10, <2>11, <1>0
  <1> QED BY <1>1, <1>2, <1>3

\* 400 years are 146097 days from any day on, the 29th of February included.
LEMMA CyclesOfYears ==
  ASSUME NEW y \in Nat, NEW c \in Nat, NEW m \in 1 .. 12
  PROVE  /\ LeapYearsBefore(y + 400 * c) = LeapYearsBefore(y) + 97 * c
         /\ IsLeapYear(y + 400 * c) <=> IsLeapYear(y)
         /\ DaysInMonth(y + 400 * c, m) = DaysInMonth(y, m)
         /\ DaysBeforeMonth(y + 400 * c, m) = DaysBeforeMonth(y, m)
  <1>1. ((y + 400 * c) + 3) \div 4 = ((y + 3) \div 4) + 100 * c
    OBVIOUS
  <1>2. ((y + 400 * c) + 99) \div 100 = ((y + 99) \div 100) + 4 * c
    OBVIOUS
  <1>3. ((y + 400 * c) + 399) \div 400 = ((y + 399) \div 400) + c
    OBVIOUS
  <1>4. LeapYearsBefore(y + 400 * c) = LeapYearsBefore(y) + 97 * c
    BY <1>1, <1>2, <1>3 DEF LeapYearsBefore
  <1>5. /\ (y + 400 * c) % 400 = y % 400
        /\ (y + 400 * c) % 100 = y % 100
        /\ (y + 400 * c) % 4 = y % 4
    OBVIOUS
  <1>6. IsLeapYear(y + 400 * c) <=> IsLeapYear(y)
    BY <1>5 DEF IsLeapYear
  <1>7. DaysInMonth(y + 400 * c, m) = DaysInMonth(y, m)
    BY <1>6 DEF DaysInMonth
  <1>8. DaysBeforeMonth(y + 400 * c, m) = DaysBeforeMonth(y, m)
    BY <1>6 DEF DaysBeforeMonth
  <1> QED BY <1>4, <1>6, <1>7, <1>8

\* The whole cycles of 400 years that add_day takes with add_year, instead of day by
\* day, are as many times 146097 days: no day is lost to the clamping of add_year.
THEOREM AddedCyclesCount ==
  ASSUME NEW given, ValidDate(given), NEW c \in Nat, AddYear(given, 400 * c) # Failed
  PROVE  DayNumber(AddYear(given, 400 * c)) = DayNumber(given) + 146097 * c
  <1> DEFINE y == given.year
             m == given.month
             d == given.day
  <1>0. /\ y \in Nat /\ m \in 1 .. 12 /\ d \in 1 .. DaysInMonth(y, m) /\ d \in 1 .. 31
        /\ DaysInMonth(y, m) \in 28 .. 31
        /\ LeapYearsBefore(y) \in Int /\ DaysBeforeMonth(y, m) \in Int
    BY Fields, MonthLength, CountsAreIntegers
  <1>1. AddYear(given, 400 * c) = ClampedDate(y + 400 * c, m, d)
    BY DEF AddYear
  <1>2. ~(d > DaysInMonth(y + 400 * c, m))
    BY <1>0, CyclesOfYears
  <1>3. AddYear(given, 400 * c) = MakeDate(y + 400 * c, m, d)
    BY <1>1, <1>2 DEF ClampedDate
  <1>4. DayNumber(AddYear(given, 400 * c))
          = 365 * (y + 400 * c) + LeapYearsBefore(y + 400 * c)
              + DaysBeforeMonth(y + 400 * c, m) + d - 1
    BY <1>3 DEF MakeDate, DayNumber
  <1>5. /\ LeapYearsBefore(y + 400 * c) = LeapYearsBefore(y) + 97 * c
        /\ DaysBeforeMonth(y + 400 * c, m) = DaysBeforeMonth(y, m)
    BY <1>0, CyclesOfYears
  <1> QED BY <1>0, <1>4, <1>5 DEF DayNumber

\* And so are those that sub_day takes with sub_year.
THEOREM SubtractedCyclesCount ==
  ASSUME NEW given, ValidDate(given), NEW c \in Nat, SubYear(given, 400 * c) # Failed
  PROVE  DayNumber(SubYear(given, 400 * c)) = DayNumber(given) - 146097 * c
  <1> DEFINE y == given.year - 400 * c
             m == given.month
             d == given.day
  <1>0. /\ given.year \in Nat /\ m \in 1 .. 12
        /\ d \in 1 .. DaysInMonth(given.year, m) /\ d \in 1 .. 31
        /\ DaysInMonth(given.year, m) \in 28 .. 31
    BY Fields, MonthLength
  <1>1. ~(400 * c > given.year) /\ SubYear(given, 400 * c) = ClampedDate(y, m, d)
    BY DEF SubYear
  <1>2. y \in Nat /\ given.year = y + 400 * c
    BY <1>0, <1>1
  <1>3. /\ LeapYearsBefore(given.year) = LeapYearsBefore(y) + 97 * c
        /\ DaysInMonth(given.year, m) = DaysInMonth(y, m)
        /\ DaysBeforeMonth(given.year, m) = DaysBeforeMonth(y, m)
    BY <1>0, <1>2, CyclesOfYears
  <1>4. SubYear(given, 400 * c) = MakeDate(y, m, d)
    BY <1>0, <1>1, <1>3 DEF ClampedDate
  <1>5. DayNumber(SubYear(given, 400 * c))
          = 365 * y + LeapYearsBefore(y) + DaysBeforeMonth(y, m) + d - 1
    BY <1>4 DEF MakeDate, DayNumber
  <1>6. LeapYearsBefore(y) \in Int /\ DaysBeforeMonth(y, m) \in Int
    BY <1>0, <1>2, CountsAreIntegers
  <1> QED BY <1>0, <1>2, <1>3, <1>5, <1>6 DEF DayNumber

-----------------------------------------------------------------------------
(* Division.                                                               *)

LEMMA Division ==
  ASSUME NEW x \in Nat, NEW k \in Nat \ {0}
  PROVE  x \div k \in Nat /\ x % k \in 0 .. k - 1 /\ x = (x \div k) * k + (x % k)
<1>1. x = (x \div k) * k + (x % k)
  OBVIOUS
<1>2. x \div k \in Nat /\ x % k \in 0 .. k - 1
  OBVIOUS
<1> QED
  BY <1>1, <1>2

LEMMA Quotient ==
  ASSUME NEW q \in Int, NEW k \in Nat \ {0}, NEW r \in 0 .. k - 1
  PROVE  (q * k + r) \div k = q /\ (q * k + r) % k = r
  OBVIOUS

LEMMA QuotientBound ==
  ASSUME NEW x \in Nat, NEW n \in Nat, NEW k \in Nat \ {0}, x < n * k
  PROVE  x \div k < n
<1> DEFINE q == x \div k
<1>1. q \in Nat /\ q * k <= x
  BY Division
<1> HIDE DEF q
<1>2. q >= n => q * k >= n * k
  BY <1>1
<1>3. q * k \in Nat /\ n * k \in Nat
  BY <1>1
<1>4. q < n
  BY <1>1, <1>2, <1>3
<1> QED
  BY <1>4 DEF q

\* Whole turns do not change a remainder.
LEMMA Turns ==
  ASSUME NEW x \in Int, NEW q \in Int, NEW k \in Nat \ {0}
  PROVE  (x + q * k) % k = x % k
<1> DEFINE a == x \div k
           r == x % k
<1>1. a \in Int /\ r \in 0 .. k - 1 /\ x = a * k + r
  <2>1. x = (x \div k) * k + (x % k)
    OBVIOUS
  <2> QED
    BY <2>1
<1> HIDE DEF a, r
<1>2. x + q * k = (a + q) * k + r
  <2>1. (a + q) * k = a * k + q * k /\ a * k \in Int /\ q * k \in Int
    BY <1>1
  <2> QED
    BY <1>1, <2>1
<1>3. a + q \in Int
  BY <1>1
<1>4. ((a + q) * k + r) % k = r
  BY <1>1, <1>3, Quotient
<1> QED
  BY <1>2, <1>4 DEF r

-----------------------------------------------------------------------------
(* tx::Time.                                                               *)

\* The lengths of the units, and how many there are in a day.
LEMMA TickFacts ==
  /\ TicksPerHour \in Nat \ {0} /\ TicksPerDay \in Nat \ {0}
  /\ \A unit \in Units : /\ unit \in Nat \ {0}
                         /\ TicksPerDay \div unit \in Nat \ {0}
                         /\ (TicksPerDay \div unit) * unit = TicksPerDay
<1>1. TicksPerHour \in Nat \ {0}
  BY TimeAssumption DEF TicksPerHour
<1>2. TicksPerDay \in Nat \ {0}
  BY <1>1, TimeAssumption DEF TicksPerDay
<1>3. ASSUME NEW a \in Nat \ {0}, NEW unit \in Nat \ {0}, TicksPerDay = a * unit
      PROVE  /\ TicksPerDay \div unit \in Nat \ {0}
             /\ (TicksPerDay \div unit) * unit = TicksPerDay
  <2>1. (a * unit + 0) \div unit = a
    BY <1>3, Quotient
  <2>2. a * unit + 0 = TicksPerDay
    BY <1>3
  <2> QED
    BY <1>3, <2>1, <2>2
<1>4. TicksPerDay = HoursPerDay * TicksPerHour
  BY DEF TicksPerDay
<1>5. TicksPerDay = (HoursPerDay * MinutesPerHour) * TicksPerMinute
  BY TimeAssumption DEF TicksPerDay, TicksPerHour
<1>6. HoursPerDay * MinutesPerHour \in Nat \ {0}
  BY TimeAssumption
<1>7. TicksPerDay = TicksPerDay * 1
  BY <1>2
<1>8. ASSUME NEW unit \in Units
      PROVE  unit \in Nat \ {0} /\ \E a \in Nat \ {0} : TicksPerDay = a * unit
  <2>1. CASE unit = TicksPerHour
    BY <1>1, <1>4, <2>1, TimeAssumption
  <2>2. CASE unit = TicksPerMinute
    BY <1>5, <1>6, <2>2, TimeAssumption
  <2>3. CASE unit = 1
    BY <1>2, <1>7, <2>3
  <2> QED
    BY <2>1, <2>2, <2>3 DEF Units
<1> QED
  BY <1>1, <1>2, <1>3, <1>8

LEMMA ToTicksRange ==
  ASSUME NEW t \in Time
  PROVE  ToTicks(t) \in 0 .. TicksPerDay - 1
<1> DEFINE h == t.hour
           m == t.minute
           s == t.tick
<1>1. /\ h \in 0 .. HoursPerDay - 1 /\ m \in 0 .. MinutesPerHour - 1
      /\ s \in 0 .. TicksPerMinute - 1
  BY DEF Time
<1>2. ToTicks(t) = h * TicksPerHour + m * TicksPerMinute + s
  BY DEF ToTicks
<1> HIDE DEF h, m, s
<1>3. m * TicksPerMinute + s \in 0 .. TicksPerHour - 1
  <2>1. m * TicksPerMinute + TicksPerMinute <= MinutesPerHour * TicksPerMinute
    BY <1>1, TimeAssumption
  <2>2. m * TicksPerMinute \in Nat
    BY <1>1, TimeAssumption
  <2> QED
    BY <1>1, <2>1, <2>2, TimeAssumption DEF TicksPerHour
<1>4. h * TicksPerHour + TicksPerHour <= TicksPerDay /\ h * TicksPerHour \in Nat
  BY <1>1, TickFacts, TimeAssumption DEF TicksPerDay
<1>5. h * TicksPerHour + (m * TicksPerMinute + s) \in 0 .. TicksPerDay - 1
  BY <1>3, <1>4, TickFacts
<1>6. m * TicksPerMinute \in Nat
  BY <1>1, TimeAssumption
<1> QED
  BY <1>1, <1>2, <1>4, <1>5, <1>6

LEMMA FromTicksExact ==
  ASSUME NEW n \in 0 .. TicksPerDay - 1
  PROVE  FromTicks(n) \in Time /\ ToTicks(FromTicks(n)) = n
<1> DEFINE h == n \div TicksPerHour
           r == n % TicksPerHour
           m == r \div TicksPerMinute
           s == r % TicksPerMinute
<1>1. n \in Nat /\ n < HoursPerDay * TicksPerHour
  BY TickFacts, TimeAssumption DEF TicksPerDay
<1>2. h \in Nat /\ r \in 0 .. TicksPerHour - 1 /\ n = h * TicksPerHour + r
  BY <1>1, Division, TickFacts
<1>3. h < HoursPerDay
  BY <1>1, QuotientBound, TickFacts, TimeAssumption
<1>4. r \in Nat /\ r < MinutesPerHour * TicksPerMinute
  BY <1>2, TickFacts DEF TicksPerHour
<1> HIDE DEF h, r
<1>5. m \in Nat /\ s \in 0 .. TicksPerMinute - 1 /\ r = m * TicksPerMinute + s
  BY <1>4, Division, TimeAssumption
<1>6. m < MinutesPerHour
  BY <1>4, QuotientBound, TimeAssumption
<1> HIDE DEF m, s
<1>7. n % TicksPerMinute = s
  <2>1. h * TicksPerHour = (h * MinutesPerHour) * TicksPerMinute
    BY <1>2, TimeAssumption DEF TicksPerHour
  <2>2. h * MinutesPerHour + m \in Nat
    BY <1>2, <1>5, TimeAssumption
  <2>3. (h * MinutesPerHour + m) * TicksPerMinute
          = (h * MinutesPerHour) * TicksPerMinute + m * TicksPerMinute
    BY <1>2, <1>5, TimeAssumption
  <2>4. n = (h * MinutesPerHour + m) * TicksPerMinute + s
    <3>1. m * TicksPerMinute \in Nat /\ h * TicksPerHour \in Nat
      BY <1>2, <1>5, TimeAssumption, TickFacts
    <3> QED
      BY <1>2, <1>5, <2>1, <2>3, <3>1
  <2> QED
    BY <1>5, <2>2, <2>4, Quotient, TimeAssumption
<1>8. FromTicks(n) = [hour |-> h, minute |-> m, tick |-> s]
  BY <1>7 DEF FromTicks, h, r, m
<1>9. FromTicks(n) \in Time
  BY <1>2, <1>3, <1>5, <1>6, <1>8, TimeAssumption DEF Time
<1>10. ToTicks(FromTicks(n)) = h * TicksPerHour + m * TicksPerMinute + s
  BY <1>8 DEF ToTicks
<1>11. h * TicksPerHour \in Nat /\ m * TicksPerMinute \in Nat
  BY <1>2, <1>5, TimeAssumption, TickFacts
<1> QED
  BY <1>2, <1>5, <1>9, <1>10, <1>11

-----------------------------------------------------------------------------
(* tx::Date.                                                               *)

\* What a call that counts months returns: the month asked for, or a failure.
Months(r, day, target) ==
  /\ r = Failed <=> target \notin 0 .. 12 * Max + 11
  /\ r # Failed =>
       /\ ValidDate(r) /\ MonthNumber(r) = target
       /\ r.day = IF day > DaysInMonth(r.year, r.month)
                  THEN DaysInMonth(r.year, r.month) ELSE day

LEMMA MonthsClamped ==
  ASSUME NEW r, NEW day \in 1 .. 31, NEW y \in Int, NEW m \in 1 .. 12,
         NEW target, target = 12 * y + m - 1,
         y \notin 0 .. Max => r = Failed,
         y \in 0 .. Max => r = ClampedDate(y, m, day)
  PROVE  Months(r, day, target)
<1>1. target \in 0 .. 12 * Max + 11 <=> y \in 0 .. Max
  BY MaxAssumption
<1>2. CASE y \in 0 .. Max
  <2>1. /\ ValidDate(r) /\ r # Failed /\ r.year = y /\ r.month = m
        /\ r.day = IF day > DaysInMonth(r.year, r.month)
                   THEN DaysInMonth(r.year, r.month) ELSE day
    <3>1. r = ClampedDate(y, m, day)
      BY <1>2
    <3>2. /\ ValidDate(ClampedDate(y, m, day)) /\ ClampedDate(y, m, day) # Failed
          /\ ClampedDate(y, m, day).year = y /\ ClampedDate(y, m, day).month = m
          /\ ClampedDate(y, m, day).day
               = IF day > DaysInMonth(y, m) THEN DaysInMonth(y, m) ELSE day
      BY <1>2, ClampedIsValid DEF ClampedDate, MakeDate, Failed
    <3> QED
      BY <3>1, <3>2
  <2>2. MonthNumber(r) = target
    BY <2>1 DEF MonthNumber
  <2> QED
    BY <1>1, <1>2, <2>1, <2>2 DEF Months
<1>3. CASE y \notin 0 .. Max
  BY <1>1, <1>3 DEF Months
<1> QED
  BY <1>2, <1>3

LEMMA YearsCounted ==
  ASSUME NEW d, ValidDate(d), NEW n \in Nat
  PROVE  /\ Months(AddYear(d, n), d.day, MonthNumber(d) + 12 * n)
         /\ Months(SubYear(d, n), d.day, MonthNumber(d) - 12 * n)
<1>1. d.year \in 0 .. Max /\ d.year \in Nat /\ d.month \in 1 .. 12 /\ d.day \in 1 .. 31
  BY Fields
<1>2. Months(AddYear(d, n), d.day, MonthNumber(d) + 12 * n)
  <2> DEFINE y == d.year + n
  <2>1. y \in Int /\ (n > Max - d.year <=> y \notin 0 .. Max)
    BY <1>1, MaxAssumption
  <2>2. MonthNumber(d) + 12 * n = 12 * y + d.month - 1
    BY <1>1 DEF MonthNumber
  <2>3. AddYear(d, n) = IF n > Max - d.year THEN Failed ELSE ClampedDate(y, d.month, d.day)
    BY DEF AddYear
  <2> HIDE DEF y
  <2> QED
    BY <1>1, <2>1, <2>2, <2>3, MonthsClamped
<1>3. Months(SubYear(d, n), d.day, MonthNumber(d) - 12 * n)
  <2> DEFINE y == d.year - n
  <2>1. y \in Int /\ (n > d.year <=> y \notin 0 .. Max)
    BY <1>1, MaxAssumption
  <2>2. MonthNumber(d) - 12 * n = 12 * y + d.month - 1
    BY <1>1 DEF MonthNumber
  <2>3. SubYear(d, n) = IF n > d.year THEN Failed ELSE ClampedDate(y, d.month, d.day)
    BY DEF SubYear
  <2> HIDE DEF y
  <2> QED
    BY <1>1, <2>1, <2>2, <2>3, MonthsClamped
<1> QED
  BY <1>2, <1>3

LEMMA MonthsAdded ==
  ASSUME NEW d, ValidDate(d), NEW n \in Nat
  PROVE  Months(AddMonth(d, n), d.day, MonthNumber(d) + n)
<1> DEFINE k == n % 12
           index == (d.month - 1) + k
           delta == n \div 12
           carry == index \div 12
           low == index % 12
           y == d.year + delta + carry
           m == low + 1
<1>1. d.year \in 0 .. Max /\ d.year \in Nat /\ d.month \in 1 .. 12 /\ d.day \in 1 .. 31
  BY Fields
<1>2. /\ delta \in Nat /\ k \in 0 .. 11 /\ n = 12 * delta + k
  OBVIOUS
<1>3. index \in 0 .. 22
  BY <1>1, <1>2
<1>4. AddMonth(d, n) = IF delta > Max - d.year \/ carry > Max - (d.year + delta) THEN Failed
                       ELSE ClampedDate(y, m, d.day)
  BY DEF AddMonth
<1>5. index = (d.month - 1) + k
  OBVIOUS
<1> HIDE DEF index, delta, k
<1>6. carry \in 0 .. 1 /\ low \in 0 .. 11 /\ index = 12 * carry + low
  BY <1>3
<1> HIDE DEF carry, low
<1>7. /\ m \in 1 .. 12 /\ y \in Nat
      /\ delta > Max - d.year \/ carry > Max - (d.year + delta) <=> y \notin 0 .. Max
  BY <1>1, <1>2, <1>6, MaxAssumption
<1>8. MonthNumber(d) + n = 12 * y + m - 1
  <2>1. ASSUME NEW a \in Nat, NEW b \in Nat, NEW c \in Nat, NEW e \in Nat, NEW f \in Nat,
               NEW g \in Nat, (b - 1) + f = 12 * e + g
        PROVE  (12 * a + b - 1) + (12 * c + f) = 12 * (a + c + e) + (g + 1) - 1
    BY <2>1
  <2>2. (d.month - 1) + k = 12 * carry + low
    BY <1>5, <1>6
  <2>3. /\ d.year \in Nat /\ d.month \in Nat /\ delta \in Nat /\ carry \in Nat
        /\ k \in Nat /\ low \in Nat
    BY <1>1, <1>2, <1>6
  <2>4. (12 * d.year + d.month - 1) + (12 * delta + k) = 12 * y + m - 1
    BY <2>1, <2>2, <2>3
  <2> QED
    BY <1>2, <2>4 DEF MonthNumber
<1>9. y \in Int
  BY <1>7
<1> HIDE DEF y, m
<1> QED
  BY <1>1, <1>4, <1>7, <1>8, <1>9, MonthsClamped

LEMMA MonthsSubtracted ==
  ASSUME NEW d, ValidDate(d), NEW n \in Nat
  PROVE  Months(SubMonth(d, n), d.day, MonthNumber(d) - n)
<1> DEFINE rest == n % 12
           delta == n \div 12
           borrow == rest >= d.month
           b == IF borrow THEN d.year - 1 ELSE d.year
           y == b - delta
           m == IF borrow THEN 12 - (rest - d.month) ELSE d.month - rest
<1>1. d.year \in 0 .. Max /\ d.year \in Nat /\ d.month \in 1 .. 12 /\ d.day \in 1 .. 31
  BY Fields
<1>2. /\ delta \in Nat /\ rest \in 0 .. 11 /\ y \in Int /\ y <= Max
      /\ m \in 1 .. 12 /\ 12 * y + m - 1 = 12 * d.year + d.month - 1 - n
  BY <1>1, MaxAssumption
<1>3. SubMonth(d, n) = IF (borrow /\ d.year = 0) \/ delta > b THEN Failed
                       ELSE ClampedDate(y, m, d.day)
  BY DEF SubMonth
<1>4. (borrow /\ d.year = 0) \/ delta > b <=> y \notin 0 .. Max
  BY <1>1, <1>2
<1>5. MonthNumber(d) - n = 12 * y + m - 1
  BY <1>1, <1>2 DEF MonthNumber
<1> HIDE DEF rest, delta, borrow, b, y, m
<1> QED
  BY <1>1, <1>2, <1>3, <1>4, <1>5, MonthsClamped

\* Days from the first of January of year 0 to that of year y.
YearStart(y) == 365 * y + LeapYearsBefore(y)

LEMMA YearStartGrows ==
  ASSUME NEW a \in Nat, NEW b \in Nat, a <= b
  PROVE  YearStart(a) \in Nat /\ YearStart(a) <= YearStart(b)
  BY DEF YearStart, LeapYearsBefore

LEMMA DayInYear ==
  ASSUME NEW y \in Nat, NEW m \in 1 .. 12, NEW d \in 1 .. DaysInMonth(y, m)
  PROVE  DaysBeforeMonth(y, m) + d - 1 \in 0 .. (IF IsLeapYear(y) THEN 365 ELSE 364)
<1>1. DaysInMonth(y, m) \in 28 .. 31
  BY MonthLength
<1>2. d \in Nat /\ d >= 1 /\ d <= DaysInMonth(y, m)
  BY <1>1
<1>3. /\ DaysBeforeMonth(y, m) \in Nat
      /\ DaysBeforeMonth(y, m) + DaysInMonth(y, m) <= IF IsLeapYear(y) THEN 366 ELSE 365
  BY DEF DaysBeforeMonth, DaysInMonth
<1> QED
  BY <1>1, <1>2, <1>3

\* A date lies between the first of January of its year and that of the next one.
LEMMA DayBounds ==
  ASSUME NEW d, ValidDate(d)
  PROVE  /\ DayNumber(d) \in Nat
         /\ YearStart(d.year) <= DayNumber(d) /\ DayNumber(d) < YearStart(d.year + 1)
<1> DEFINE y == d.year
           k == DaysBeforeMonth(y, d.month) + d.day - 1
<1>1. /\ y \in Nat /\ d.month \in 1 .. 12 /\ d.day \in 1 .. DaysInMonth(y, d.month)
      /\ d.day \in 1 .. 31
  BY Fields
<1>2. k \in 0 .. (IF IsLeapYear(y) THEN 365 ELSE 364)
  <2> DEFINE m == d.month
             e == d.day
  <2>1. y \in Nat /\ m \in 1 .. 12 /\ e \in 1 .. DaysInMonth(y, m)
    BY <1>1
  <2>2. k = DaysBeforeMonth(y, m) + e - 1
    OBVIOUS
  <2> HIDE DEF y, m, e, k
  <2> QED
    BY <2>1, <2>2, DayInYear
<1>3. DayNumber(d) = YearStart(y) + k
  <2>1. LeapYearsBefore(y) \in Int /\ DaysBeforeMonth(y, d.month) \in Int
    BY <1>1, CountsAreIntegers
  <2> QED
    BY <1>1, <2>1 DEF DayNumber, YearStart
<1>4. YearStart(y + 1) = YearStart(y) + 365 + (IF IsLeapYear(y) THEN 1 ELSE 0)
  <2>1. LeapYearsBefore(y) \in Int
    BY <1>1 DEF LeapYearsBefore
  <2> QED
    BY <1>1, <2>1, YearLength DEF YearStart
<1>5. YearStart(y) \in Nat
  BY <1>1, YearStartGrows
<1> HIDE DEF y, k
<1>6. DayNumber(d) \in Nat /\ YearStart(y) <= DayNumber(d) /\ DayNumber(d) < YearStart(y + 1)
  BY <1>2, <1>3, <1>4, <1>5
<1> QED
  BY <1>6 DEF y

LastDay == DayNumber(MakeDate(Max, 12, 31))

LEMMA LastDayBound ==
  /\ LastDay \in Nat /\ LastDay + 1 = YearStart(Max + 1) /\ LastDay >= Max
  /\ \A d : ValidDate(d) => DayNumber(d) <= LastDay
<1>1. LastDay = YearStart(Max) + DaysBeforeMonth(Max, 12) + 30
  <2>1. LeapYearsBefore(Max) \in Int /\ DaysBeforeMonth(Max, 12) \in Int
    BY MaxAssumption, CountsAreIntegers
  <2> QED
    BY <2>1, MaxAssumption DEF LastDay, MakeDate, DayNumber, YearStart
<1>2. DaysBeforeMonth(Max, 12) = 334 + (IF IsLeapYear(Max) THEN 1 ELSE 0)
  BY DEF DaysBeforeMonth
<1>3. YearStart(Max + 1) = YearStart(Max) + 365 + (IF IsLeapYear(Max) THEN 1 ELSE 0)
  <2>1. LeapYearsBefore(Max) \in Int
    BY MaxAssumption DEF LeapYearsBefore
  <2> QED
    BY <2>1, MaxAssumption, YearLength DEF YearStart
<1>4. YearStart(Max) \in Nat /\ YearStart(Max) >= Max
  BY MaxAssumption DEF YearStart, LeapYearsBefore
<1>5. ASSUME NEW d, ValidDate(d) PROVE DayNumber(d) <= LastDay
  <2>1. d.year + 1 \in Nat /\ d.year + 1 <= Max + 1 /\ Max + 1 \in Nat
    BY <1>5, Fields, MaxAssumption
  <2>2. YearStart(d.year + 1) <= YearStart(Max + 1) /\ YearStart(d.year + 1) \in Nat
    BY <2>1, YearStartGrows
  <2>3. DayNumber(d) \in Nat /\ DayNumber(d) < YearStart(d.year + 1)
    BY <1>5, DayBounds
  <2> QED
    BY <1>1, <1>2, <1>3, <1>4, <2>2, <2>3
<1>6. LastDay \in Nat /\ LastDay + 1 = YearStart(Max + 1) /\ LastDay >= Max
  BY <1>1, <1>2, <1>3, <1>4, MaxAssumption
<1> QED
  BY <1>5, <1>6

\* What add_day does with the whole cycles of 400 years.
LEMMA CyclesAdded ==
  ASSUME NEW d, ValidDate(d), NEW days \in Nat
  PROVE  LET base == AddYear(d, Cycles(days))
             rest == days % DaysPer400Years
         IN  /\ rest \in 0 .. DaysPer400Years - 1
             /\ base # Failed => ValidDate(base) /\ DayNumber(base) + rest = DayNumber(d) + days
             /\ base = Failed => DayNumber(d) + days > LastDay
<1> DEFINE c == days \div 146097
           rest == days % 146097
           base == AddYear(d, 400 * c)
<1>1. c \in Nat /\ rest \in Nat /\ rest < 146097 /\ days = 146097 * c + rest
  OBVIOUS
<1> HIDE DEF c, rest
<1>2. DayNumber(d) \in Nat /\ d.year \in Nat
  BY DayBounds, Fields
<1>3. 400 * c \in Nat
  BY <1>1
<1>4. Cycles(days) = 400 * c /\ days % DaysPer400Years = rest
  BY DEF Cycles, DaysPer400Years, c, rest
<1>5. rest \in 0 .. DaysPer400Years - 1
  <2>1. DaysPer400Years \in Nat /\ rest < DaysPer400Years
    BY <1>1 DEF DaysPer400Years
  <2> QED
    BY <1>1, <2>1
<1>6. CASE base # Failed
  <2>1. ValidDate(base) /\ DayNumber(base) = DayNumber(d) + 146097 * c
    BY <1>1, <1>3, <1>6, AddYearIsValid, AddedCyclesCount
  <2>2. DayNumber(base) + rest = DayNumber(d) + days
    BY <1>1, <1>2, <2>1
  <2> QED
    BY <1>4, <1>6, <1>5, <2>1, <2>2
<1>7. CASE base = Failed
  <2>1. 400 * c > Max - d.year
    <3>1. d.month \in 1 .. 12 /\ d.day \in 1 .. 31
      BY Fields
    <3> QED
      BY <1>7, <3>1 DEF AddYear, ClampedDate, MakeDate, Failed
  <2>2. YearStart(d.year + 400 * c) = YearStart(d.year) + 146097 * c
    <3>1. LeapYearsBefore(d.year + 400 * c) = LeapYearsBefore(d.year) + 97 * c
      BY <1>1, <1>2, CyclesOfYears
    <3>2. LeapYearsBefore(d.year) \in Int
      BY <1>2 DEF LeapYearsBefore
    <3> QED
      BY <1>1, <1>2, <3>1, <3>2 DEF YearStart
  <2>3. YearStart(Max + 1) <= YearStart(d.year + 400 * c) /\ YearStart(Max + 1) \in Nat
    <3>1. Max + 1 \in Nat /\ d.year + 400 * c \in Nat /\ Max + 1 <= d.year + 400 * c
      BY <1>1, <1>2, <2>1, MaxAssumption
    <3> QED
      BY <3>1, YearStartGrows
  <2>4. YearStart(d.year) <= DayNumber(d) /\ YearStart(d.year) \in Nat
    BY <1>2, DayBounds, YearStartGrows
  <2>5. DayNumber(d) + days > LastDay
    BY <1>1, <1>2, <2>2, <2>3, <2>4, LastDayBound
  <2> QED
    BY <1>4, <1>7, <1>5, <2>5
<1> QED
  BY <1>6, <1>7

\* And sub_day.
LEMMA CyclesSubtracted ==
  ASSUME NEW d, ValidDate(d), NEW days \in Nat
  PROVE  LET base == SubYear(d, Cycles(days))
             rest == days % DaysPer400Years
         IN  /\ rest \in 0 .. DaysPer400Years - 1
             /\ base # Failed => ValidDate(base) /\ DayNumber(base) - rest = DayNumber(d) - days
             /\ base = Failed => DayNumber(d) < days
<1> DEFINE c == days \div 146097
           rest == days % 146097
           base == SubYear(d, 400 * c)
<1>1. c \in Nat /\ rest \in Nat /\ rest < 146097 /\ days = 146097 * c + rest
  OBVIOUS
<1> HIDE DEF c, rest
<1>2. DayNumber(d) \in Nat /\ d.year \in Nat
  BY DayBounds, Fields
<1>3. 400 * c \in Nat
  BY <1>1
<1>4. Cycles(days) = 400 * c /\ days % DaysPer400Years = rest
  BY DEF Cycles, DaysPer400Years, c, rest
<1>5. rest \in 0 .. DaysPer400Years - 1
  <2>1. DaysPer400Years \in Nat /\ rest < DaysPer400Years
    BY <1>1 DEF DaysPer400Years
  <2> QED
    BY <1>1, <2>1
<1>6. CASE base # Failed
  <2>1. ValidDate(base) /\ DayNumber(base) = DayNumber(d) - 146097 * c
    BY <1>1, <1>3, <1>6, SubYearIsValid, SubtractedCyclesCount
  <2>2. DayNumber(base) - rest = DayNumber(d) - days
    BY <1>1, <1>2, <2>1
  <2> QED
    BY <1>4, <1>6, <1>5, <2>1, <2>2
<1>7. CASE base = Failed
  <2>1. 400 * c > d.year
    <3>1. d.month \in 1 .. 12 /\ d.day \in 1 .. 31
      BY Fields
    <3> QED
      BY <1>7, <3>1 DEF SubYear, ClampedDate, MakeDate, Failed
  <2>2. YearStart(400 * c) = 146097 * c
    <3>1. LeapYearsBefore(0 + 400 * c) = LeapYearsBefore(0) + 97 * c
      BY <1>1, CyclesOfYears
    <3>2. LeapYearsBefore(0) = 0
      BY DEF LeapYearsBefore
    <3>3. 0 + 400 * c = 400 * c
      BY <1>1
    <3> QED
      BY <1>1, <3>1, <3>2, <3>3 DEF YearStart
  <2>3. YearStart(d.year + 1) <= YearStart(400 * c) /\ YearStart(d.year + 1) \in Nat
    <3>1. d.year + 1 \in Nat /\ d.year + 1 <= 400 * c
      BY <1>1, <1>2, <2>1
    <3> QED
      BY <1>3, <3>1, YearStartGrows
  <2>4. DayNumber(d) < YearStart(d.year + 1)
    BY DayBounds
  <2>5. DayNumber(d) < days
    BY <1>1, <1>2, <2>2, <2>3, <2>4
  <2> QED
    BY <1>4, <1>7, <1>5, <2>5
<1> QED
  BY <1>6, <1>7

\* The day loops end early only at the ends of the calendar.
LEMMA LoopEnds ==
  ASSUME NEW d, ValidDate(d)
  PROVE  /\ NextDay(d) = Failed => DayNumber(d) = LastDay
         /\ PreviousDay(d) = Failed => DayNumber(d) = 0
<1>1. /\ d.year \in 0 .. Max /\ d.year \in Nat /\ d.month \in 1 .. 12
      /\ d.day \in 1 .. DaysInMonth(d.year, d.month) /\ d.day \in 1 .. 31
      /\ DaysInMonth(d.year, d.month) \in 28 .. 31
  BY Fields, MonthLength
<1>2. ASSUME NextDay(d) = Failed PROVE DayNumber(d) = LastDay
  <2>1. d \in Date
    BY DEF ValidDate
  <2>2. ~(d.day < DaysInMonth(d.year, d.month)) /\ ~(d.month < 12) /\ d.year = Max
    BY <1>2, <2>1 DEF NextDay, MakeDate, Failed, Date
  <2>3. d.month = 12 /\ d.day = 31
    BY <1>1, <2>2 DEF DaysInMonth
  <2> QED
    BY <2>2, <2>3 DEF LastDay, DayNumber, MakeDate
<1>3. ASSUME PreviousDay(d) = Failed PROVE DayNumber(d) = 0
  <2>1. d \in Date
    BY DEF ValidDate
  <2>2. ~(d.day > 1) /\ ~(d.month > 1) /\ d.year = 0
    BY <1>3, <2>1 DEF PreviousDay, MakeDate, Failed, Date
  <2>3. d.month = 1 /\ d.day = 1
    BY <1>1, <2>2
  <2> QED
    BY <2>2, <2>3 DEF DayNumber, LeapYearsBefore, DaysBeforeMonth
<1> QED
  BY <1>2, <1>3

-----------------------------------------------------------------------------
(* The object.                                                             *)

CallOK ==
  ValidDate(call.date) /\ call.time \in Time /\ call.n \in Nat /\ call.unit \in Nat \ {0}

From == Instant(call.date, call.time)

\* While days are counted, those counted and those left add up to what was asked for.
UnderWay ==
  /\ pc = "adding" =>
       call.op \in Forward /\ Instant(work, newTime) + left * TicksPerDay = From + Shift
  /\ pc = "subtracting" =>
       call.op \in Backward /\ Instant(work, newTime) - left * TicksPerDay = From - Shift

IInv == TypeOK /\ CallOK /\ UnderWay /\ ArithmeticIsRight /\ FailureIsClean

\* An instant is a number of days and a time of day.
LEMMA InstantFacts ==
  ASSUME NEW d, ValidDate(d), NEW t \in Time
  PROVE  /\ Instant(d, t) = DayNumber(d) * TicksPerDay + ToTicks(t)
         /\ DayNumber(d) \in Nat /\ ToTicks(t) \in 0 .. TicksPerDay - 1
         /\ DayNumber(d) * TicksPerDay \in Nat /\ Instant(d, t) \in Nat
<1>1. DayNumber(d) \in Nat /\ ToTicks(t) \in 0 .. TicksPerDay - 1
  BY DayBounds, ToTicksRange
<1>2. DayNumber(d) * TicksPerDay \in Nat
  BY <1>1, TickFacts
<1> QED
  BY <1>1, <1>2, TickFacts DEF Instant

LEMMA LastInstantFacts == LastInstant = LastDay * TicksPerDay + (TicksPerDay - 1)
<1>1. TicksPerDay - 1 \in 0 .. TicksPerDay - 1
  BY TickFacts
<1> QED
  BY <1>1, FromTicksExact DEF LastInstant, Instant, LastDay

LEMMA CallFacts ==
  ASSUME NEW op, NEW n \in Nat, NEW unit \in Nat \ {0}, IInv, Begin(op, n, unit)
  PROVE  /\ pc = "ready" /\ calls' \in 0 .. MaxCalls
         /\ call'.op = op /\ call'.n = n /\ call'.unit = unit
         /\ call'.date = date /\ call'.time = time
         /\ Shift' = n * unit /\ n * unit \in Nat
         /\ CallOK' /\ From' = Instant(date, time)
<1>1. /\ pc = "ready" /\ calls < MaxCalls /\ calls' = calls + 1
      /\ call' = [op |-> op, n |-> n, unit |-> unit, date |-> date, time |-> time]
  BY DEF Begin, Call
<1>2. /\ call'.op = op /\ call'.n = n /\ call'.unit = unit
      /\ call'.date = date /\ call'.time = time
  BY <1>1
<1>3. calls' \in 0 .. MaxCalls
  BY <1>1, CallAssumption DEF IInv, TypeOK
<1>4. CallOK'
  BY <1>2 DEF CallOK, IInv, TypeOK
<1>5. Shift' = n * unit /\ From' = Instant(date, time)
  BY <1>2 DEF Shift, From
<1> QED
  BY <1>1, <1>2, <1>3, <1>4, <1>5

\* A call that is over at once.
LEMMA AtOnceInv ==
  ASSUME NEW op, NEW n \in Nat, NEW unit \in Nat \ {0}, IInv, Begin(op, n, unit),
         UNCHANGED counting, ValidDate(date'), time' \in Time, ok' \in BOOLEAN,
         ~ok' => UNCHANGED <<date, time>>,
         ArithmeticIsRight', op \notin Forward \cup Backward
  PROVE  IInv'
<1>1. pc = "ready" /\ calls' \in 0 .. MaxCalls /\ CallOK' /\ call'.op = op
      /\ call'.date = date /\ call'.time = time
  BY CallFacts
<1>2. pc' = "ready" /\ UNCHANGED <<work, left, newTime>>
  BY <1>1 DEF counting
<1>3. TypeOK' /\ UnderWay'
  BY <1>1, <1>2 DEF IInv, TypeOK, UnderWay
<1>4. FailureIsClean'
  BY <1>1, <1>2 DEF FailureIsClean
<1> QED
  BY <1>1, <1>3, <1>4 DEF IInv

\* A call that is refused at once because the result could not be represented.
LEMMA RefusedInv ==
  ASSUME NEW op, NEW n \in Nat, NEW unit \in Nat \ {0}, IInv, Begin(op, n, unit), Refuse,
         op \in Forward =>
           \/ Instant(date, time) + n * unit > LastInstant
           \/ op = "add_week" /\ n > Max \div 7,
         op \in Backward =>
           \/ Instant(date, time) < n * unit
           \/ op = "sub_week" /\ n > Max \div 7,
         op \in Forward \cup Backward
  PROVE  IInv'
<1>1. /\ pc = "ready" /\ calls' \in 0 .. MaxCalls /\ CallOK' /\ call'.op = op
      /\ call'.n = n /\ call'.date = date /\ call'.time = time
      /\ Shift' = n * unit /\ From' = Instant(date, time)
  BY CallFacts
<1>2. pc' = "ready" /\ UNCHANGED <<date, time, work, left, newTime>> /\ ok' = FALSE
  BY <1>1 DEF Refuse, counting
<1>3. TypeOK' /\ UnderWay'
  BY <1>1, <1>2 DEF IInv, TypeOK, UnderWay
<1>4. FailureIsClean'
  BY <1>1, <1>2 DEF FailureIsClean, From
<1>5. ArithmeticIsRight'
  BY <1>1, <1>2 DEF ArithmeticIsRight, ExactArithmetic, CalendarArithmetic, Forward, Backward
<1> QED
  BY <1>1, <1>3, <1>4, <1>5 DEF IInv

\* Days begin to be counted, or the cycles of 400 years already leave the calendar.
LEMMA StartAddingInv ==
  ASSUME NEW op \in Forward, NEW n \in Nat, NEW unit \in Nat \ {0}, IInv, Begin(op, n, unit),
         NEW days \in Nat, NEW t \in Time, StartAdding(days, t),
         days * TicksPerDay + ToTicks(t) = ToTicks(time) + n * unit
  PROVE  IInv'
<1> DEFINE base == AddYear(date, Cycles(days))
           rest == days % DaysPer400Years
<1>1. /\ pc = "ready" /\ calls' \in 0 .. MaxCalls /\ CallOK' /\ call'.op = op
      /\ call'.n = n /\ call'.date = date /\ call'.time = time
      /\ Shift' = n * unit /\ From' = Instant(date, time) /\ n * unit \in Nat
  BY CallFacts
<1>2. ValidDate(date) /\ time \in Time /\ ok \in BOOLEAN
  BY DEF IInv, TypeOK
<1>3. /\ rest \in 0 .. DaysPer400Years - 1
      /\ base # Failed => ValidDate(base) /\ DayNumber(base) + rest = DayNumber(date) + days
      /\ base = Failed => DayNumber(date) + days > LastDay
  BY <1>2, CyclesAdded
<1>4. UNCHANGED <<date, time>> /\ Count("adding", base, days, t)
  BY DEF StartAdding
<1>5. /\ Instant(date, time) = DayNumber(date) * TicksPerDay + ToTicks(time)
      /\ DayNumber(date) \in Nat /\ ToTicks(time) \in Nat /\ ToTicks(t) \in 0 .. TicksPerDay - 1
      /\ DayNumber(date) * TicksPerDay \in Nat /\ TicksPerDay \in Nat \ {0}
  BY <1>2, InstantFacts, ToTicksRange, TickFacts
<1>6. (DayNumber(date) + days) * TicksPerDay
        = DayNumber(date) * TicksPerDay + days * TicksPerDay /\ days * TicksPerDay \in Nat
  BY <1>5
<1>7. CASE base = Failed
  <2>1. ok' = FALSE /\ UNCHANGED counting
    BY <1>4, <1>7 DEF Count
  <2>2. Refuse
    BY <1>4, <2>1 DEF Refuse
  <2>3. (DayNumber(date) + days) * TicksPerDay >= (LastDay + 1) * TicksPerDay
    BY <1>3, <1>5, <1>7, LastDayBound
  <2>4. (LastDay + 1) * TicksPerDay = LastDay * TicksPerDay + TicksPerDay
        /\ LastDay * TicksPerDay \in Nat
    BY <1>5, LastDayBound
  <2>5. Instant(date, time) + n * unit > LastInstant
    BY <1>1, <1>5, <1>6, <2>3, <2>4, LastInstantFacts
  <2>6. op \notin Backward
    BY DEF Forward, Backward
  <2> QED
    BY <2>2, <2>5, <2>6, RefusedInv
<1>8. CASE base # Failed
  <2>1. /\ pc' = "adding" /\ work' = base /\ left' = rest /\ newTime' = t /\ ok' = ok
    BY <1>4, <1>8 DEF Count
  <2>2. TypeOK'
    BY <1>1, <1>2, <1>3, <1>4, <1>8, <2>1 DEF TypeOK
  <2>3. /\ Instant(base, t) = DayNumber(base) * TicksPerDay + ToTicks(t)
        /\ DayNumber(base) \in Nat
    BY <1>3, <1>8, InstantFacts
  <2>0. DaysPer400Years \in Nat
    BY DEF DaysPer400Years
  <2>4. (DayNumber(base) + rest) * TicksPerDay
          = DayNumber(base) * TicksPerDay + rest * TicksPerDay
        /\ rest * TicksPerDay \in Nat /\ DayNumber(base) * TicksPerDay \in Nat
    BY <1>3, <1>5, <2>3, <2>0
  <2> HIDE DEF base, rest
  <2>5. Instant(base, t) + rest * TicksPerDay = Instant(date, time) + n * unit
    BY <1>1, <1>3, <1>5, <1>6, <1>8, <2>3, <2>4
  <2>6. UnderWay'
    BY <1>1, <2>1, <2>5 DEF UnderWay
  <2>7. ArithmeticIsRight' /\ FailureIsClean'
    BY <1>1, <1>4, <2>1
       DEF ArithmeticIsRight, ExactArithmetic, CalendarArithmetic, FailureIsClean
  <2> QED
    BY <1>1, <2>2, <2>6, <2>7 DEF IInv
<1> QED
  BY <1>7, <1>8

LEMMA StartSubtractingInv ==
  ASSUME NEW op \in Backward, NEW n \in Nat, NEW unit \in Nat \ {0}, IInv, Begin(op, n, unit),
         NEW days \in Nat, NEW t \in Time, StartSubtracting(days, t),
         days * TicksPerDay + ToTicks(time) = ToTicks(t) + n * unit
  PROVE  IInv'
<1> DEFINE base == SubYear(date, Cycles(days))
           rest == days % DaysPer400Years
<1>1. /\ pc = "ready" /\ calls' \in 0 .. MaxCalls /\ CallOK' /\ call'.op = op
      /\ call'.n = n /\ call'.date = date /\ call'.time = time
      /\ Shift' = n * unit /\ From' = Instant(date, time) /\ n * unit \in Nat
  BY CallFacts
<1>2. ValidDate(date) /\ time \in Time /\ ok \in BOOLEAN
  BY DEF IInv, TypeOK
<1>3. /\ rest \in 0 .. DaysPer400Years - 1
      /\ base # Failed => ValidDate(base) /\ DayNumber(base) - rest = DayNumber(date) - days
      /\ base = Failed => DayNumber(date) < days
  BY <1>2, CyclesSubtracted
<1>4. UNCHANGED <<date, time>> /\ Count("subtracting", base, days, t)
  BY DEF StartSubtracting
<1>5. /\ Instant(date, time) = DayNumber(date) * TicksPerDay + ToTicks(time)
      /\ DayNumber(date) \in Nat /\ ToTicks(time) \in Nat /\ ToTicks(t) \in 0 .. TicksPerDay - 1
      /\ DayNumber(date) * TicksPerDay \in Nat /\ TicksPerDay \in Nat \ {0}
  BY <1>2, InstantFacts, ToTicksRange, TickFacts
<1>6. (DayNumber(date) - days) * TicksPerDay
        = DayNumber(date) * TicksPerDay - days * TicksPerDay /\ days * TicksPerDay \in Nat
  BY <1>5
<1>7. CASE base = Failed
  <2>1. ok' = FALSE /\ UNCHANGED counting
    BY <1>4, <1>7 DEF Count
  <2>2. Refuse
    BY <1>4, <2>1 DEF Refuse
  <2>3. DayNumber(date) * TicksPerDay + TicksPerDay <= days * TicksPerDay
    BY <1>3, <1>5, <1>7
  <2>4. Instant(date, time) < n * unit
    BY <1>1, <1>5, <1>6, <2>3
  <2>5. op \notin Forward
    BY DEF Forward, Backward
  <2> QED
    BY <2>2, <2>4, <2>5, RefusedInv
<1>8. CASE base # Failed
  <2>1. /\ pc' = "subtracting" /\ work' = base /\ left' = rest /\ newTime' = t /\ ok' = ok
    BY <1>4, <1>8 DEF Count
  <2>2. TypeOK'
    BY <1>1, <1>2, <1>3, <1>4, <1>8, <2>1 DEF TypeOK
  <2>3. /\ Instant(base, t) = DayNumber(base) * TicksPerDay + ToTicks(t)
        /\ DayNumber(base) \in Nat
    BY <1>3, <1>8, InstantFacts
  <2>4. DaysPer400Years \in Nat
    BY DEF DaysPer400Years
  <2>5. (DayNumber(base) - rest) * TicksPerDay
          = DayNumber(base) * TicksPerDay - rest * TicksPerDay
        /\ rest * TicksPerDay \in Nat /\ DayNumber(base) * TicksPerDay \in Nat
    BY <1>3, <1>5, <2>3, <2>4
  <2> HIDE DEF base, rest
  <2>6. Instant(base, t) - rest * TicksPerDay = Instant(date, time) - n * unit
    BY <1>1, <1>3, <1>5, <1>6, <1>8, <2>3, <2>5
  <2>7. UnderWay'
    BY <1>1, <2>1, <2>6 DEF UnderWay
  <2>8. ArithmeticIsRight' /\ FailureIsClean'
    BY <1>1, <1>4, <2>1
       DEF ArithmeticIsRight, ExactArithmetic, CalendarArithmetic, FailureIsClean
  <2> QED
    BY <1>1, <2>2, <2>7, <2>8 DEF IInv
<1> QED
  BY <1>7, <1>8

\* A number of units as whole days and the ticks that are left.
LEMMA UnitsSplit ==
  ASSUME NEW n \in Nat, NEW unit \in Units
  PROVE  LET perDay == TicksPerDay \div unit
             r == (n % perDay) * unit
         IN  /\ unit \in Nat \ {0} /\ perDay \in Nat \ {0} /\ n \div perDay \in Nat
             /\ r \in 0 .. TicksPerDay - 1
             /\ n * unit = (n \div perDay) * TicksPerDay + r
<1> DEFINE p == TicksPerDay \div unit
           q == n \div p
           k == n % p
<1>1. unit \in Nat \ {0} /\ p \in Nat \ {0} /\ p * unit = TicksPerDay
  BY TickFacts
<1> HIDE DEF p
<1>2. q \in Nat /\ k \in 0 .. p - 1 /\ n = q * p + k
  BY <1>1, Division
<1> HIDE DEF q, k
<1>3. k * unit + unit <= p * unit /\ k * unit \in Nat
  BY <1>1, <1>2
<1>4. k * unit \in 0 .. TicksPerDay - 1
  BY <1>1, <1>3, TickFacts
<1>5. n * unit = q * TicksPerDay + k * unit
  <2>1. (q * p + k) * unit = (q * p) * unit + k * unit
    <3>1. q * p \in Nat
      BY <1>1, <1>2
    <3> QED
      BY <1>1, <1>2, <3>1
  <2>2. (q * p) * unit = q * (p * unit)
    BY <1>1, <1>2
  <2> QED
    BY <1>1, <1>2, <2>1, <2>2
<1> QED
  BY <1>1, <1>2, <1>4, <1>5 DEF p, q, k

\* A time alone is counted round the clock.
LEMMA RoundTheClock ==
  ASSUME NEW t \in Time, NEW n \in Nat, NEW unit \in Units
  PROVE  /\ AddToTime(t, n, unit) \in Time
         /\ ToTicks(AddToTime(t, n, unit)) = (ToTicks(t) + n * unit) % TicksPerDay
         /\ SubFromTime(t, n, unit) \in Time
         /\ ToTicks(SubFromTime(t, n, unit)) = (ToTicks(t) - n * unit) % TicksPerDay
<1> DEFINE q == n \div (TicksPerDay \div unit)
           r == (n % (TicksPerDay \div unit)) * unit
           x == ToTicks(t)
           s == n * unit
           a == (x + r) % TicksPerDay
           b == (x + TicksPerDay - r) % TicksPerDay
<1>1. q \in Nat /\ r \in 0 .. TicksPerDay - 1 /\ s = q * TicksPerDay + r
  BY UnitsSplit
<1>2. x \in 0 .. TicksPerDay - 1 /\ TicksPerDay \in Nat \ {0}
  BY ToTicksRange, TickFacts
<1>3. AddToTime(t, n, unit) = FromTicks(a) /\ SubFromTime(t, n, unit) = FromTicks(b)
  BY DEF AddToTime, SubFromTime
<1> HIDE DEF q, r, x, s
<1>4. s \in Nat /\ q * TicksPerDay \in Nat /\ (q + 1) * TicksPerDay = q * TicksPerDay + TicksPerDay
  BY <1>1, <1>2
<1>5. a = (x + s) % TicksPerDay
  <2>1. (x + r) + q * TicksPerDay = x + s
    BY <1>1, <1>2, <1>4
  <2>2. x + r \in Int /\ q \in Int
    BY <1>1, <1>2
  <2> QED
    BY <1>2, <2>1, <2>2, Turns
<1>6. b = (x - s) % TicksPerDay
  <2>1. (x - s) + (q + 1) * TicksPerDay = x + TicksPerDay - r
    BY <1>1, <1>2, <1>4
  <2>2. x - s \in Int /\ q + 1 \in Int
    BY <1>1, <1>2, <1>4
  <2> QED
    BY <1>2, <2>1, <2>2, Turns
<1>7. a \in 0 .. TicksPerDay - 1 /\ b \in 0 .. TicksPerDay - 1
  BY <1>1, <1>2
<1> HIDE DEF a, b
<1> QED
  BY <1>3, <1>5, <1>6, <1>7, FromTicksExact DEF x, s

LEMMA InitInv == Init => IInv
<1> SUFFICES ASSUME Init PROVE IInv
  OBVIOUS
<1>1. /\ ValidDate(date) /\ time \in Time /\ pc = "ready" /\ ok = TRUE
      /\ work = date /\ left = 0 /\ newTime = time /\ calls = 0
      /\ call = [op |-> "new", n |-> 0, unit |-> 1, date |-> date, time |-> time]
  BY CallAssumption DEF Init, Call
<1>2. call.op = "new" /\ call.n = 0 /\ call.unit = 1 /\ call.date = date /\ call.time = time
  BY <1>1
<1>3. left \in 0 .. DaysPer400Years - 1
  <2>1. DaysPer400Years \in Nat /\ 0 < DaysPer400Years
    BY DEF DaysPer400Years
  <2> QED
    BY <1>1, <2>1
<1>4. TypeOK
  BY <1>1, <1>3, CallAssumption DEF TypeOK
<1>5. CallOK /\ UnderWay
  BY <1>1, <1>2 DEF CallOK, UnderWay
<1>6. ArithmeticIsRight /\ FailureIsClean
  BY <1>1, <1>2
     DEF ArithmeticIsRight, ExactArithmetic, CalendarArithmetic, FailureIsClean, Forward,
         Backward
<1> QED
  BY <1>4, <1>5, <1>6 DEF IInv

-----------------------------------------------------------------------------
(* The steps.                                                              *)

\* A method of the date alone.
LEMMA DateInv ==
  ASSUME NEW op, op \in {"set", "add_year", "sub_year", "add_month", "sub_month"},
         NEW n \in Nat, IInv, Begin(op, n, 1), NEW d, ReturnDate(d),
         d # Failed => ValidDate(d),
         op # "set" => Months(d, date.day, MonthNumber(date) + MonthShift')
  PROVE  IInv'
<1>1. /\ pc = "ready" /\ call'.op = op /\ call'.n = n /\ call'.unit = 1
      /\ call'.date = date /\ call'.time = time
  BY CallFacts
<1>2. ValidDate(date) /\ time \in Time
  BY DEF IInv, TypeOK
<1>3. /\ ok' = (d # Failed) /\ date' = (IF d = Failed THEN date ELSE d)
      /\ UNCHANGED <<time, counting>>
  BY DEF ReturnDate
<1>4. ValidDate(date') /\ time' \in Time /\ ok' \in BOOLEAN
      /\ (~ok' => UNCHANGED <<date, time>>)
  BY <1>2, <1>3
<1>5. op \notin Forward \cup Backward /\ op \notin {"add_time", "sub_time"}
  BY DEF Forward, Backward
<1>6. ExactArithmetic'
  BY <1>1, <1>5 DEF ExactArithmetic
<1>7. CalendarArithmetic'
  BY <1>1, <1>3 DEF CalendarArithmetic, Months
<1> QED
  BY <1>3, <1>4, <1>5, <1>6, <1>7, AtOnceInv DEF ArithmeticIsRight

LEMMA MonthCallInv ==
  ASSUME IInv, NEW n \in Nat,
         CallAddYear(n) \/ CallSubYear(n) \/ CallAddMonth(n) \/ CallSubMonth(n)
  PROVE  IInv'
<1>1. ValidDate(date)
  BY DEF IInv, TypeOK
<1>2. MonthNumber(date) \in Int
  BY <1>1, Fields DEF MonthNumber
<1>3. ASSUME CallAddYear(n) PROVE IInv'
  <2>1. Begin("add_year", n, 1) /\ ReturnDate(AddYear(date, n))
    BY <1>3 DEF CallAddYear
  <2>2. call'.op = "add_year" /\ call'.n = n
    BY <2>1, CallFacts
  <2>3. MonthNumber(date) + MonthShift' = MonthNumber(date) + 12 * n
    BY <1>2, <2>2 DEF MonthShift
  <2>4. Months(AddYear(date, n), date.day, MonthNumber(date) + 12 * n)
    BY <1>1, YearsCounted
  <2> QED
    BY <2>1, <2>3, <2>4, DateInv DEF Months
<1>4. ASSUME CallSubYear(n) PROVE IInv'
  <2>1. Begin("sub_year", n, 1) /\ ReturnDate(SubYear(date, n))
    BY <1>4 DEF CallSubYear
  <2>2. call'.op = "sub_year" /\ call'.n = n
    BY <2>1, CallFacts
  <2>3. MonthNumber(date) + MonthShift' = MonthNumber(date) - 12 * n
    BY <1>2, <2>2 DEF MonthShift
  <2>4. Months(SubYear(date, n), date.day, MonthNumber(date) - 12 * n)
    BY <1>1, YearsCounted
  <2> QED
    BY <2>1, <2>3, <2>4, DateInv DEF Months
<1>5. ASSUME CallAddMonth(n) PROVE IInv'
  <2>1. Begin("add_month", n, 1) /\ ReturnDate(AddMonth(date, n))
    BY <1>5 DEF CallAddMonth
  <2>2. call'.op = "add_month" /\ call'.n = n
    BY <2>1, CallFacts
  <2>3. MonthNumber(date) + MonthShift' = MonthNumber(date) + n
    BY <1>2, <2>2 DEF MonthShift
  <2>4. Months(AddMonth(date, n), date.day, MonthNumber(date) + n)
    BY <1>1, MonthsAdded
  <2> QED
    BY <2>1, <2>3, <2>4, DateInv DEF Months
<1>6. ASSUME CallSubMonth(n) PROVE IInv'
  <2>1. Begin("sub_month", n, 1) /\ ReturnDate(SubMonth(date, n))
    BY <1>6 DEF CallSubMonth
  <2>2. call'.op = "sub_month" /\ call'.n = n
    BY <2>1, CallFacts
  <2>3. MonthNumber(date) + MonthShift' = MonthNumber(date) - n
    BY <1>2, <2>2 DEF MonthShift
  <2>4. Months(SubMonth(date, n), date.day, MonthNumber(date) - n)
    BY <1>1, MonthsSubtracted
  <2> QED
    BY <2>1, <2>3, <2>4, DateInv DEF Months
<1> QED
  BY <1>3, <1>4, <1>5, <1>6

LEMMA SetterInv == ASSUME IInv, Setter PROVE IInv'
<1>1. ASSUME NEW y \in 0 .. Max, NEW m, NEW d, CallSet(y, m, d) PROVE IInv'
  <2> DEFINE r == IF IsValid(y, m, d) THEN MakeDate(y, m, d) ELSE Failed
  <2>1. Begin("set", 0, 1) /\ ReturnDate(r)
    BY <1>1 DEF CallSet
  <2>2. r # Failed => ValidDate(r)
    BY <1>1, Made DEF IsValid
  <2> HIDE DEF r
  <2> QED
    BY <2>1, <2>2, DateInv
<1>2. date.year \in 0 .. Max /\ Amounts \subseteq 0 .. Max
  BY Fields, CallAssumption DEF IInv, TypeOK
<1> QED
  BY <1>1, <1>2 DEF Setter

LEMMA TimeInv ==
  ASSUME NEW op, op \in {"set_time", "add_time", "sub_time"}, NEW n \in Nat,
         NEW unit \in Nat \ {0}, IInv, Begin(op, n, unit), time' \in Time,
         ok' \in BOOLEAN, ~ok' => time' = time, UNCHANGED <<date, counting>>,
         op = "add_time" => ToTicks(time') = (ToTicks(time) + n * unit) % TicksPerDay,
         op = "sub_time" => ToTicks(time') = (ToTicks(time) - n * unit) % TicksPerDay
  PROVE  IInv'
<1>1. /\ pc = "ready" /\ call'.op = op /\ call'.time = time /\ Shift' = n * unit
  BY CallFacts
<1>2. ValidDate(date')
  BY DEF IInv, TypeOK
<1>3. op \notin Forward \cup Backward
  BY DEF Forward, Backward
<1>4. ExactArithmetic'
  BY <1>1, <1>3 DEF ExactArithmetic
<1>5. CalendarArithmetic'
  BY <1>1 DEF CalendarArithmetic
<1> QED
  BY <1>2, <1>3, <1>4, <1>5, AtOnceInv DEF ArithmeticIsRight

LEMMA TimeCallInv ==
  ASSUME IInv, \/ TimeSetter
               \/ \E n \in Durations, unit \in Units : CallTime(n, unit)
  PROVE  IInv'
<1>1. time \in Time
  BY DEF IInv, TypeOK
<1>2. ASSUME NEW t, CallSetTime(t) PROVE IInv'
  <2>1. /\ Begin("set_time", 0, 1) /\ ok' = (t \in Time)
        /\ time' = (IF t \in Time THEN t ELSE time) /\ UNCHANGED <<date, counting>>
    BY <1>2 DEF CallSetTime
  <2>2. time' \in Time /\ ok' \in BOOLEAN /\ (~ok' => time' = time)
    <3>1. CASE t \in Time
      BY <2>1, <3>1
    <3>2. CASE t \notin Time
      BY <1>1, <2>1, <3>2
    <3> QED
      BY <3>1, <3>2
  <2> QED
    BY <2>1, <2>2, TimeInv
<1>3. ASSUME NEW n \in Nat, NEW unit \in Units, CallTime(n, unit) PROVE IInv'
  <2>1. unit \in Nat \ {0}
    BY TickFacts
  <2>2. ok' = TRUE /\ UNCHANGED <<date, counting>>
    BY <1>3 DEF CallTime
  <2>3. CASE Begin("add_time", n, unit) /\ time' = AddToTime(time, n, unit)
    <3>1. time' \in Time /\ ToTicks(time') = (ToTicks(time) + n * unit) % TicksPerDay
      BY <1>1, <2>3, RoundTheClock
    <3> QED
      BY <2>1, <2>2, <2>3, <3>1, TimeInv
  <2>4. CASE Begin("sub_time", n, unit) /\ time' = SubFromTime(time, n, unit)
    <3>1. time' \in Time /\ ToTicks(time') = (ToTicks(time) - n * unit) % TicksPerDay
      BY <1>1, <2>4, RoundTheClock
    <3> QED
      BY <2>1, <2>2, <2>4, <3>1, TimeInv
  <2> QED
    BY <1>3, <2>3, <2>4 DEF CallTime
<1>4. Durations \subseteq Nat
  BY CallAssumption
<1>5. ASSUME TimeSetter PROVE IInv'
  BY <1>2, <1>5 DEF TimeSetter
<1> QED
  BY <1>3, <1>4, <1>5

LEMMA DayCallInv ==
  ASSUME IInv, NEW n \in Nat,
         CallAddDay(n) \/ CallSubDay(n) \/ CallAddWeek(n) \/ CallSubWeek(n)
  PROVE  IInv'
<1>1. time \in Time /\ TicksPerDay \in Nat \ {0}
  BY TickFacts DEF IInv, TypeOK
<1>2. ToTicks(time) \in Nat
  BY <1>1, ToTicksRange
<1>3. /\ 7 * TicksPerDay \in Nat \ {0} /\ 7 * n \in Nat
      /\ (7 * n) * TicksPerDay = n * (7 * TicksPerDay)
      /\ n * TicksPerDay \in Nat /\ n * (7 * TicksPerDay) \in Nat
  BY <1>1
<1>4. "add_day" \in Forward /\ "add_week" \in Forward /\ "sub_day" \in Backward
      /\ "sub_week" \in Backward /\ "add_week" \notin Backward /\ "sub_week" \notin Forward
  BY DEF Forward, Backward
<1>5. ASSUME CallAddDay(n) PROVE IInv'
  <2>1. Begin("add_day", n, TicksPerDay) /\ StartAdding(n, time)
    BY <1>5 DEF CallAddDay
  <2>2. n * TicksPerDay + ToTicks(time) = ToTicks(time) + n * TicksPerDay
    BY <1>2, <1>3
  <2> QED
    BY <1>1, <1>4, <2>1, <2>2, StartAddingInv
<1>6. ASSUME CallSubDay(n) PROVE IInv'
  <2>1. Begin("sub_day", n, TicksPerDay) /\ StartSubtracting(n, time)
    BY <1>6 DEF CallSubDay
  <2>2. n * TicksPerDay + ToTicks(time) = ToTicks(time) + n * TicksPerDay
    BY <1>2, <1>3
  <2> QED
    BY <1>1, <1>4, <2>1, <2>2, StartSubtractingInv
<1>7. ASSUME CallAddWeek(n) PROVE IInv'
  <2>1. /\ Begin("add_week", n, 7 * TicksPerDay)
        /\ IF n > Max \div 7 THEN Refuse ELSE StartAdding(7 * n, time)
    BY <1>7 DEF CallAddWeek
  <2>2. (7 * n) * TicksPerDay + ToTicks(time) = ToTicks(time) + n * (7 * TicksPerDay)
    BY <1>2, <1>3
  <2>3. CASE n > Max \div 7
    BY <1>3, <1>4, <2>1, <2>3, RefusedInv
  <2>4. CASE ~(n > Max \div 7)
    BY <1>1, <1>3, <1>4, <2>1, <2>2, <2>4, StartAddingInv
  <2> QED
    BY <2>3, <2>4
<1>8. ASSUME CallSubWeek(n) PROVE IInv'
  <2>1. /\ Begin("sub_week", n, 7 * TicksPerDay)
        /\ IF n > Max \div 7 THEN Refuse ELSE StartSubtracting(7 * n, time)
    BY <1>8 DEF CallSubWeek
  <2>2. (7 * n) * TicksPerDay + ToTicks(time) = ToTicks(time) + n * (7 * TicksPerDay)
    BY <1>2, <1>3
  <2>3. CASE n > Max \div 7
    BY <1>3, <1>4, <2>1, <2>3, RefusedInv
  <2>4. CASE ~(n > Max \div 7)
    BY <1>1, <1>3, <1>4, <2>1, <2>2, <2>4, StartSubtractingInv
  <2> QED
    BY <2>3, <2>4
<1> QED
  BY <1>5, <1>6, <1>7, <1>8

\* As many days as there are units only if a day is one unit, or there are none: nothing
\* is left for a further day then, and the guard against one day too many is never used.
LEMMA NoOverflow ==
  ASSUME NEW n \in 0 .. Max, NEW unit \in Units
  PROVE  LET perDay == TicksPerDay \div unit
         IN  /\ n \div perDay <= Max
             /\ n \div perDay >= Max => (n % perDay) * unit = 0
<1> DEFINE p == TicksPerDay \div unit
           q == n \div p
           k == n % p
<1>1. unit \in Nat \ {0} /\ p \in Nat \ {0}
  BY TickFacts
<1>2. n \in Nat /\ n <= Max /\ Max \in Nat
  BY MaxAssumption
<1> HIDE DEF p
<1>3. q \in Nat /\ k \in 0 .. p - 1 /\ n = q * p + k
  BY <1>1, <1>2, Division
<1> HIDE DEF q, k
<1>4. q * p >= q /\ q * p \in Nat
  BY <1>1, <1>3
<1>5. q <= Max /\ (q >= Max => k = 0)
  BY <1>1, <1>2, <1>3, <1>4
<1>6. 0 * unit = 0
  BY <1>1
<1>7. q <= Max /\ (q >= Max => k * unit = 0)
  BY <1>5, <1>6
<1> QED
  BY <1>7 DEF q, k, p

LEMMA AddUnitsInv ==
  ASSUME IInv, NEW n \in 0 .. Max, NEW unit \in Units, CallAddUnits(n, unit)
  PROVE  IInv'
<1> DEFINE p == TicksPerDay \div unit
           q == n \div p
           r == (n % p) * unit
           combined == ToTicks(time) + r
           carry == combined \div TicksPerDay
           low == combined % TicksPerDay
<1>1. /\ Begin("add_units", n, unit)
      /\ IF q > Max - carry THEN Refuse ELSE StartAdding(q + carry, FromTicks(low))
  BY DEF CallAddUnits
<1>2. n \in Nat /\ Max \in Nat
  BY MaxAssumption
<1>3. /\ unit \in Nat \ {0} /\ q \in Nat /\ r \in 0 .. TicksPerDay - 1
      /\ n * unit = q * TicksPerDay + r
  BY <1>2, UnitsSplit
<1>4. ToTicks(time) \in 0 .. TicksPerDay - 1 /\ TicksPerDay \in Nat \ {0}
  BY ToTicksRange, TickFacts DEF IInv, TypeOK
<1>5. q <= Max /\ (q >= Max => r = 0)
  BY NoOverflow
<1> HIDE DEF q, r
<1>6. combined \in Nat /\ combined < 2 * TicksPerDay
  BY <1>3, <1>4
<1>7. carry \in Nat /\ low \in 0 .. TicksPerDay - 1 /\ combined = carry * TicksPerDay + low
      /\ carry < 2
  BY <1>4, <1>6, Division, QuotientBound
<1>8. combined = ToTicks(time) + r
  OBVIOUS
<1> HIDE DEF carry, low, combined
<1>9. carry = 0 \/ carry = 1
  BY <1>7
<1>10. ~(q > Max - carry)
  <2>1. CASE carry = 1
    <3>1. combined >= TicksPerDay
      BY <1>4, <1>7, <2>1
    <3> QED
      BY <1>2, <1>3, <1>4, <1>5, <1>8, <2>1, <3>1
  <2>2. CASE carry = 0
    BY <1>2, <1>3, <1>5, <2>2
  <2> QED
    BY <1>9, <2>1, <2>2
<1>11. (q + carry) * TicksPerDay + low = ToTicks(time) + n * unit
  <2>1. (q + carry) * TicksPerDay = q * TicksPerDay + carry * TicksPerDay
    BY <1>3, <1>4, <1>7
  <2>2. q * TicksPerDay \in Nat /\ carry * TicksPerDay \in Nat
    BY <1>3, <1>4, <1>7
  <2> QED
    BY <1>3, <1>4, <1>7, <1>8, <2>1, <2>2
<1>12. FromTicks(low) \in Time /\ ToTicks(FromTicks(low)) = low
  BY <1>7, FromTicksExact
<1>13. "add_units" \in Forward /\ q + carry \in Nat
  BY <1>3, <1>7 DEF Forward
<1> QED
  BY <1>1, <1>2, <1>3, <1>10, <1>11, <1>12, <1>13, StartAddingInv

LEMMA SubUnitsInv ==
  ASSUME IInv, NEW n \in 0 .. Max, NEW unit \in Units, CallSubUnits(n, unit)
  PROVE  IInv'
<1> DEFINE p == TicksPerDay \div unit
           q == n \div p
           r == (n % p) * unit
           x == ToTicks(time)
           near == x - r
           far == TicksPerDay - (r - x)
<1>1. /\ Begin("sub_units", n, unit)
      /\ IF x >= r THEN StartSubtracting(q, FromTicks(near))
         ELSE IF q = Max THEN Refuse ELSE StartSubtracting(q + 1, FromTicks(far))
  BY DEF CallSubUnits
<1>2. n \in Nat
  BY MaxAssumption
<1>3. /\ unit \in Nat \ {0} /\ q \in Nat /\ r \in 0 .. TicksPerDay - 1
      /\ n * unit = q * TicksPerDay + r
  BY <1>2, UnitsSplit
<1>4. x \in 0 .. TicksPerDay - 1 /\ TicksPerDay \in Nat \ {0}
  BY ToTicksRange, TickFacts DEF IInv, TypeOK
<1>5. q = Max => r = 0
  BY <1>3, NoOverflow, MaxAssumption
<1>6. near = x - r /\ far = TicksPerDay - (r - x)
  OBVIOUS
<1>7. "sub_units" \in Backward
  BY DEF Backward
<1> HIDE DEF q, r, near, far
<1>8. q * TicksPerDay \in Nat /\ (q + 1) * TicksPerDay = q * TicksPerDay + TicksPerDay
  BY <1>3, <1>4
<1>9. CASE x >= r
  <2>1. near \in 0 .. TicksPerDay - 1
    BY <1>3, <1>4, <1>6, <1>9
  <2>2. FromTicks(near) \in Time /\ ToTicks(FromTicks(near)) = near
    BY <2>1, FromTicksExact
  <2>3. q * TicksPerDay + x = near + n * unit
    BY <1>3, <1>4, <1>6, <1>8
  <2> QED
    BY <1>1, <1>2, <1>3, <1>7, <1>9, <2>2, <2>3, StartSubtractingInv
<1>10. CASE ~(x >= r)
  <2>1. far \in 0 .. TicksPerDay - 1
    BY <1>3, <1>4, <1>6, <1>10
  <2>2. FromTicks(far) \in Time /\ ToTicks(FromTicks(far)) = far
    BY <2>1, FromTicksExact
  <2>3. (q + 1) * TicksPerDay + x = far + n * unit
    BY <1>3, <1>4, <1>6, <1>8
  <2>4. q # Max /\ q + 1 \in Nat
    BY <1>3, <1>4, <1>5, <1>10
  <2> QED
    BY <1>1, <1>2, <1>3, <1>7, <1>10, <2>2, <2>3, <2>4, StartSubtractingInv
<1> QED
  BY <1>9, <1>10

LEMMA CountingInv ==
  ASSUME IInv, \/ CountDay("adding", NextDay(work))
               \/ CountDay("subtracting", PreviousDay(work))
  PROVE  IInv'
<1>1. /\ ValidDate(work) /\ newTime \in Time /\ left \in 0 .. DaysPer400Years - 1 /\ left > 0
      /\ UNCHANGED <<date, time, newTime, call, calls>>
      /\ pc # "ready" /\ date = call.date /\ time = call.time
      /\ DaysPer400Years \in Nat /\ call.op \in Forward \cup Backward
  <2>1. DaysPer400Years \in Nat
    BY DEF DaysPer400Years
  <2> QED
    BY <2>1 DEF CountDay, IInv, TypeOK, FailureIsClean, UnderWay
<1>2. CallOK' /\ From' = From /\ Shift' = Shift
  BY <1>1 DEF IInv, CallOK, From, Shift
<1>3. /\ Instant(work, newTime) = DayNumber(work) * TicksPerDay + ToTicks(newTime)
      /\ DayNumber(work) \in Nat /\ ToTicks(newTime) \in 0 .. TicksPerDay - 1
      /\ DayNumber(work) * TicksPerDay \in Nat /\ TicksPerDay \in Nat \ {0}
  BY <1>1, InstantFacts, TickFacts
<1>4. (left - 1) * TicksPerDay = left * TicksPerDay - TicksPerDay /\ left * TicksPerDay \in Nat
      /\ left * TicksPerDay >= TicksPerDay
  BY <1>1, <1>3
<1>5. From \in Nat /\ Shift \in Nat
  BY InstantFacts DEF IInv, CallOK, From, Shift
<1>6. ASSUME pc' = "ready", ok' = FALSE, UNCHANGED <<work, left>>
      PROVE  TypeOK' /\ UnderWay' /\ ArithmeticIsRight'
  <2>1. TypeOK' /\ UnderWay'
    BY <1>1, <1>6 DEF IInv, TypeOK, UnderWay
  <2>2. ArithmeticIsRight'
    BY <1>1, <1>6
       DEF ArithmeticIsRight, ExactArithmetic, CalendarArithmetic, Forward, Backward
  <2> QED
    BY <2>1, <2>2
<1>7. ASSUME NEW d, ValidDate(d), pc' = pc, ok' = ok, work' = d, left' = left - 1
      PROVE  TypeOK' /\ ArithmeticIsRight' /\ FailureIsClean'
  <2>1. left' \in 0 .. DaysPer400Years - 1
    BY <1>1, <1>7
  <2>2. TypeOK'
    BY <1>1, <1>7, <2>1 DEF IInv, TypeOK
  <2> QED
    BY <1>1, <1>7, <2>2
       DEF ArithmeticIsRight, ExactArithmetic, CalendarArithmetic, FailureIsClean
<1>8. CASE CountDay("adding", NextDay(work))
  <2>1. /\ call.op \in Forward /\ pc = "adding"
        /\ Instant(work, newTime) + left * TicksPerDay = From + Shift
    BY <1>8 DEF CountDay, IInv, UnderWay
  <2>2. CASE NextDay(work) = Failed
    <3>1. pc' = "ready" /\ ok' = FALSE /\ UNCHANGED <<work, left>>
      BY <1>8, <2>2 DEF CountDay
    <3>2. DayNumber(work) = LastDay
      BY <1>1, <2>2, LoopEnds
    <3>3. From + Shift > LastInstant
      BY <1>3, <1>4, <1>5, <2>1, <3>2, LastInstantFacts
    <3>4. call.op \notin Backward
      BY <2>1 DEF Forward, Backward
    <3>5. FailureIsClean'
      BY <1>1, <1>2, <2>1, <3>1, <3>3, <3>4 DEF FailureIsClean, From
    <3> QED
      BY <1>2, <1>6, <3>1, <3>5 DEF IInv
  <2>3. CASE NextDay(work) # Failed
    <3>1. pc' = pc /\ ok' = ok /\ work' = NextDay(work) /\ left' = left - 1
      BY <1>8, <2>3 DEF CountDay
    <3>2. ValidDate(NextDay(work)) /\ DayNumber(NextDay(work)) = DayNumber(work) + 1
      BY <1>1, <2>3, NextDayCounts
    <3>3. /\ Instant(NextDay(work), newTime)
               = DayNumber(NextDay(work)) * TicksPerDay + ToTicks(newTime)
          /\ (DayNumber(work) + 1) * TicksPerDay = DayNumber(work) * TicksPerDay + TicksPerDay
      BY <1>1, <1>3, <3>2, InstantFacts
    <3>4. Instant(NextDay(work), newTime) + (left - 1) * TicksPerDay = From + Shift
      BY <1>3, <1>4, <1>5, <2>1, <3>2, <3>3
    <3>5. UnderWay'
      BY <1>1, <1>2, <2>1, <3>1, <3>4 DEF UnderWay
    <3> QED
      BY <1>2, <1>7, <3>1, <3>2, <3>5 DEF IInv
  <2> QED
    BY <2>2, <2>3
<1>9. CASE CountDay("subtracting", PreviousDay(work))
  <2>1. /\ call.op \in Backward /\ pc = "subtracting"
        /\ Instant(work, newTime) - left * TicksPerDay = From - Shift
    BY <1>9 DEF CountDay, IInv, UnderWay
  <2>2. CASE PreviousDay(work) = Failed
    <3>1. pc' = "ready" /\ ok' = FALSE /\ UNCHANGED <<work, left>>
      BY <1>9, <2>2 DEF CountDay
    <3>2. DayNumber(work) = 0
      BY <1>1, <2>2, LoopEnds
    <3>3. From < Shift
      BY <1>3, <1>4, <1>5, <2>1, <3>2
    <3>4. call.op \notin Forward
      BY <2>1 DEF Forward, Backward
    <3>5. FailureIsClean'
      BY <1>1, <1>2, <2>1, <3>1, <3>3, <3>4 DEF FailureIsClean, From
    <3> QED
      BY <1>2, <1>6, <3>1, <3>5 DEF IInv
  <2>3. CASE PreviousDay(work) # Failed
    <3>1. pc' = pc /\ ok' = ok /\ work' = PreviousDay(work) /\ left' = left - 1
      BY <1>9, <2>3 DEF CountDay
    <3>2. ValidDate(PreviousDay(work)) /\ DayNumber(PreviousDay(work)) = DayNumber(work) - 1
      BY <1>1, <2>3, PreviousDayCounts
    <3>3. /\ Instant(PreviousDay(work), newTime)
               = DayNumber(PreviousDay(work)) * TicksPerDay + ToTicks(newTime)
          /\ (DayNumber(work) - 1) * TicksPerDay = DayNumber(work) * TicksPerDay - TicksPerDay
      BY <1>1, <1>3, <3>2, InstantFacts
    <3>4. Instant(PreviousDay(work), newTime) - (left - 1) * TicksPerDay = From - Shift
      BY <1>3, <1>4, <1>5, <2>1, <3>2, <3>3
    <3>5. UnderWay'
      BY <1>1, <1>2, <2>1, <3>1, <3>4 DEF UnderWay
    <3> QED
      BY <1>2, <1>7, <3>1, <3>2, <3>5 DEF IInv
  <2> QED
    BY <2>2, <2>3
<1> QED
  BY <1>8, <1>9

LEMMA FinishInv == ASSUME IInv, Finish PROVE IInv'
<1>1. /\ pc \in {"adding", "subtracting"} /\ left = 0 /\ pc' = "ready" /\ ok' = TRUE
      /\ date' = work /\ time' = newTime /\ UNCHANGED <<work, left, newTime, call, calls>>
  BY DEF Finish
<1>2. TypeOK' /\ CallOK' /\ UnderWay'
  BY <1>1 DEF IInv, TypeOK, CallOK, UnderWay
<1>3. From \in Nat /\ Shift \in Nat /\ Instant(work, newTime) \in Nat
  BY InstantFacts DEF IInv, TypeOK, CallOK, From, Shift
<1>4. left * TicksPerDay = 0
  BY <1>1, TickFacts
<1>5. \/ call.op \in Forward /\ Instant(work, newTime) = From + Shift
      \/ call.op \in Backward /\ Instant(work, newTime) = From - Shift
  BY <1>1, <1>3, <1>4 DEF IInv, UnderWay
<1>6. Shift' = Shift
  BY <1>1 DEF Shift
<1>7. ExactArithmetic'
  BY <1>1, <1>5, <1>6 DEF ExactArithmetic, From, Forward, Backward
<1>8. CalendarArithmetic' /\ FailureIsClean'
  BY <1>1, <1>5 DEF CalendarArithmetic, FailureIsClean, Forward, Backward
<1> QED
  BY <1>2, <1>7, <1>8 DEF IInv, ArithmeticIsRight

LEMMA UnchangedInv == ASSUME IInv, UNCHANGED vars PROVE IInv'
  BY DEF vars, IInv, TypeOK, CallOK, UnderWay, From, ArithmeticIsRight, ExactArithmetic,
         CalendarArithmetic, MonthShift, FailureIsClean, Shift

LEMMA NewCallInv == ASSUME IInv, NewCall PROVE IInv'
<1>1. /\ Amounts \subseteq Nat /\ Durations \subseteq Nat /\ Durations \subseteq 0 .. Max
  BY CallAssumption, MaxAssumption
<1>2. ASSUME NEW n \in Amounts,
             \/ CallAddYear(n) \/ CallSubYear(n) \/ CallAddMonth(n) \/ CallSubMonth(n)
             \/ CallAddWeek(n) \/ CallSubWeek(n) \/ CallAddDay(n) \/ CallSubDay(n)
      PROVE  IInv'
  BY <1>1, <1>2, MonthCallInv, DayCallInv
<1>3. ASSUME NEW n \in Durations, NEW unit \in Units,
             CallAddUnits(n, unit) \/ CallSubUnits(n, unit)
      PROVE  IInv'
  BY <1>1, <1>3, AddUnitsInv, SubUnitsInv
<1> QED
  BY <1>2, <1>3, SetterInv, TimeCallInv DEF NewCall

LEMMA Invariant == Spec => []IInv
<1>1. IInv /\ [Next]_vars => IInv'
  BY NewCallInv, CountingInv, FinishInv, UnchangedInv DEF Next, Rest
<1> QED
  BY <1>1, InitInv, PTL DEF Spec

\* The object, and the copy the days are counted on, never leave the calendar and the
\* day (class_date.cpp, class_time.cpp, class_timedate.cpp).
THEOREM AlwaysADate == Spec => []TypeOK
<1>1. IInv => TypeOK
  BY DEF IInv
<1> QED
  BY <1>1, Invariant, PTL

\* A call that succeeds moves the object by exactly what was asked for: days, weeks and
\* units of time through the ends of months, leap years and cycles of 400 years, months
\* and years up to the length of the month; for every range of years, every length of
\* the day and every number of calls.
THEOREM ArithmeticExact == Spec => []ArithmeticIsRight
<1>1. IInv => ArithmeticIsRight
  BY DEF IInv
<1> QED
  BY <1>1, Invariant, PTL

\* A call fails only if its result cannot be represented, and leaves the object alone;
\* the guards of add_time_units and sub_time_units against a day too many are never
\* what makes it fail.
THEOREM FailsCleanly == Spec => []FailureIsClean
<1>1. IInv => FailureIsClean
  BY DEF IInv
<1> QED
  BY <1>1, Invariant, PTL
=============================================================================
