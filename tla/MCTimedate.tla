---------------------------- MODULE MCTimedate ----------------------------
(* Instance of Timedate for TLC: dates at the ends of months, leap years,   *)
(* centuries and the range; a day of two hours of two minutes of two ticks. *)
EXTENDS Timedate

MCMax == 2 * DaysPer400Years + 6

MCStarts == {d \in [year : {0, 1900, 1999, 2000, 2023, MCMax},
                    month : {1, 2, 3, 12}, day : {1, 28, 29, 31}] :
               d.day <= DaysInMonth(d.year, d.month)}

MCAmounts == {0, 1, 2, 11, 13, 29, 53, DaysPer400Years, DaysPer400Years + 1, MCMax}

MCDurations == {0, 1, 3, 8, 17, 29}
=============================================================================
