------------------------------ MODULE SysClock ------------------------------
(***************************************************************************)
(* The clocks of the machine: the monotonic clock only ticks; the wall     *)
(* clock ticks with it and is moved by whoever may set it.  Everything in  *)
(* timex that reads the time reads one of the two.                         *)
(***************************************************************************)
EXTENDS Integers

CONSTANTS
  ClockEnd,        \* bound on the ticks considered
  Offsets,         \* differences of the two clocks that setting the clock can make
  MaxAdjustments   \* bound on the number of times the wall clock is set

ASSUME ClockAssumption ==
  /\ ClockEnd \in Nat /\ MaxAdjustments \in Nat
  /\ Offsets \subseteq Int /\ 0 \in Offsets

VARIABLES
  mono,        \* CLOCK_MONOTONIC
  offset,      \* wall clock minus monotonic clock
  adjustments  \* times the wall clock was set

clock == <<mono, offset, adjustments>>

\* CLOCK_REALTIME, system_clock, GetSystemTimeAsFileTime.
Wall == mono + offset

ClockInit == mono \in 0 .. ClockEnd /\ offset \in Offsets /\ adjustments = 0

Tick == mono < ClockEnd /\ mono' = mono + 1 /\ UNCHANGED <<offset, adjustments>>

Adjust ==
  /\ adjustments < MaxAdjustments
  /\ adjustments' = adjustments + 1
  /\ offset' \in Offsets
  /\ UNCHANGED mono
=============================================================================
