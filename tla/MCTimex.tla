------------------------------ MODULE MCTimex ------------------------------
(* Instance of Timex: two threads on time zones, or one that sleeps while    *)
(* the others are done.                                                      *)
EXTENDS Timex

Period(from, offs, save, whole) ==
  [from |-> from, offset |-> offs, save |-> save, whole |-> whole]

\* Europe has a change before the epoch, and summer time from 4 to 13; Asia never
\* changes; the offsets of Old are not in whole seconds until 14.
MCHistory ==
  [Europe |-> <<Period(-9, 0, 0, TRUE), Period(-1, 1, 0, TRUE), Period(4, 2, 1, TRUE),
                Period(13, 1, 0, TRUE)>>,
   Asia |-> <<Period(0, -2, 0, TRUE)>>,
   Old |-> <<Period(0, 3, 0, FALSE), Period(14, 1, 0, TRUE)>>]

\* Both sides of every change, the last second ICU knows, and one beyond it.
MCQueries ==
  {<<"Alias", 3>>, <<"Europe", 4>>, <<"Windows name", 13>>, <<"Asia", 15>>, <<"Asia", 16>>,
   <<"Old", 13>>}

MCNames == {"Europe", "Asia", "Old", "Alias", "Windows name", "Nowhere"}

MCSystemId ==
  [name \in MCNames |-> IF name \in DOMAIN MCHistory THEN name
                        ELSE IF name = "Alias" THEN "Europe" ELSE ""]

MCWindowsId == [name \in MCNames |-> IF name = "Windows name" THEN "Alias" ELSE ""]

MCOffsets == {-1, 0, 2}

\* Either the callers have no call left, or the sleeper's is refused.
MCInit ==
  /\ Init
  /\ \/ /\ mono = 0
        /\ \A t \in Callers : caller[t].made = MaxRequests
        /\ \A t \in Sleepers : sleeper[t].call.valid
     \/ /\ mono = ClockEnd - 1
        /\ \A t \in Sleepers : sleeper[t] = Idle([op |-> "basic", valid |-> FALSE, ticks |-> 0])
        /\ platform = "posix"
        /\ \A t \in Callers : caller[t].made = 0

MCSpec == MCInit /\ [][Next]_vars /\ Fairness
=============================================================================
