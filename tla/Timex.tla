------------------------------- MODULE Timex -------------------------------
(***************************************************************************)
(* A process that uses timex from several threads: some ask about time     *)
(* zones (Zones), some sleep (Sleep), while the machine's clocks tick and  *)
(* somebody sets the wall clock (SysClock).                                *)
(***************************************************************************)
EXTENDS Zones, Sleep

vars == <<clock, zoneVars, sleepVars>>

Init == ClockInit /\ ZoneInit /\ SleepInit

ZoneCall(t) == ZoneStep(t) /\ UNCHANGED sleepVars

SleepCall(t) == SleepStep(t) /\ UNCHANGED zoneVars

Passing == SleepTick /\ UNCHANGED zoneVars

Setting == Adjust /\ UNCHANGED <<zoneVars, sleepVars>>

\* Nothing is left to do within the bounds.
Quiet ==
  /\ \A t \in Callers : caller[t].pc = "ready" /\ caller[t].made = MaxRequests
  /\ \A t \in Sleepers : sleeper[t].pc = "returned" \/ mono > LatestCall
  /\ UNCHANGED vars

Next ==
  \/ \E t \in Callers : ZoneCall(t)
  \/ \E t \in Sleepers : SleepCall(t)
  \/ Passing \/ Setting
  \/ Quiet

\* Time passes and every thread is scheduled.  ICU and the system calls answer, well or
\* badly.  Nothing is assumed of signals, of failures, or of the clock being set.
Fairness ==
  /\ WF_vars(Passing)
  /\ \A t \in Callers : WF_vars(Proceed(t) /\ UNCHANGED sleepVars)
  /\ \A t \in Sleepers : WF_vars(SleepOn(t) /\ UNCHANGED zoneVars)

Spec == Init /\ [][Next]_vars /\ Fairness

-----------------------------------------------------------------------------
\* Every call returns (the calls are finitely many, so that in the end no thread is in
\* one): a thread that waits for the mutex gets it although detecting the zone may throw
\* under it, and a sleeping thread is woken although signals interrupt it, timers fail
\* and the clock is set.  But for the threads that Windows never wakes: WakeIsExact says
\* which these can be.
CallsEnd ==
  <>[](/\ \A t \in Callers : caller[t].pc = "ready"
       /\ \A t \in Sleepers : sleeper[t].pc \in {"idle", "returned", "forever"})
=============================================================================
