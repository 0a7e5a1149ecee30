------------------------------- MODULE JobRun -------------------------------
(***************************************************************************)
(* What parg promises about a run, with its threads, atomics and child     *)
(* processes hidden: a list of jobs is taken up in order, each job at most *)
(* once, each taken job gets exactly one result, and the verdict is given  *)
(* only when nothing is in flight and nothing was skipped without cause.   *)
(***************************************************************************)
EXTENDS Naturals

VARIABLES
  njobs,    \* number of jobs of this run
  stop,     \* whether a failure ends the run early
  todo,     \* jobs nobody has taken yet
  active,   \* jobs taken, without a result
  result,   \* result of every job
  verdict   \* what the run reported

jvars == <<njobs, stop, todo, active, result, verdict>>

Results == {"none", "ok", "failed", "declined"}

SomeFailed == \E b \in DOMAIN result : result[b] = "failed"

JInit ==
  /\ njobs \in Nat \ {0}
  /\ stop \in BOOLEAN
  /\ todo = 0 .. (njobs - 1)
  /\ active = {}
  /\ result = [b \in 0 .. (njobs - 1) |-> "none"]
  /\ verdict = "none"

\* The next job of the list is taken up.
Take(b) ==
  /\ verdict = "none"
  /\ b \in todo
  /\ \A c \in todo : b <= c
  /\ todo' = todo \ {b}
  /\ active' = active \cup {b}
  /\ UNCHANGED <<njobs, stop, result, verdict>>

\* A job in flight gets its result, once.
Conclude(b, r) ==
  /\ verdict = "none"
  /\ b \in active
  /\ result[b] = "none"
  /\ result' = [result EXCEPT ![b] = r]
  /\ active' = active \ {b}
  /\ UNCHANGED <<njobs, stop, todo, verdict>>

\* The run ends: every job has its result, or a failure stopped the run.
Report ==
  /\ verdict = "none"
  /\ active = {}
  /\ todo = {} \/ (stop /\ SomeFailed)
  /\ verdict' = IF SomeFailed THEN "failure" ELSE "success"
  /\ UNCHANGED <<njobs, stop, todo, active, result>>

\* The process dies, with whatever is in flight.
Abort ==
  /\ verdict = "none"
  /\ verdict' = "aborted"
  /\ active' = {}
  /\ UNCHANGED <<njobs, stop, todo, result>>

JNext ==
  \/ \E b \in todo : Take(b)
  \/ \E b \in active, r \in Results \ {"none"} : Conclude(b, r)
  \/ Report
  \/ Abort

JSpec == JInit /\ [][JNext]_jvars
=============================================================================
