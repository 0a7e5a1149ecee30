---------------------------- MODULE RetryProofs ----------------------------
(***************************************************************************)
(* Proofs about module Retry for every number of attempts.                 *)
(***************************************************************************)
EXTENDS Retry, TLAPS

\* The locations at which the current attempt has a child to be waited for.
Waiting == {"setpgid", "poll", "pollReap", "wait", "term", "grace", "graceReap", "kill",
            "killReap"}

\* What there is of each attempt's process, by where main() is.
Processes ==
  /\ \A a \in Attempt : a < attempt => proc[a] = "gone"
  /\ \A a \in Attempt : a > attempt => proc[a] = "none"
  /\ pc \in {"start", "fork"} => proc[attempt] = "none"
  /\ pc \in Waiting => proc[attempt] # "none"
  /\ pc \in {"sleep", "sweep"} => proc[attempt] = "gone"
  /\ pc = "done" => proc[attempt] \in {"none", "gone"}
  /\ \A a \in Attempt : proc[a] \in {"zombie", "gone"} => result[a] # "none"

\* What main() has seen of each attempt.
Record ==
  /\ \A a \in Attempt : a < attempt => seen[a] = "fail"
  /\ \A a \in Attempt : a > attempt => seen[a] = "none"
  /\ pc \notin {"sleep", "done"} => seen[attempt] = "none"
  /\ pc = "sleep" => seen[attempt] = "fail" /\ attempt < opt.max
  /\ pc = "done" <=> exit # "none"
  /\ exit = "success" <=> seen[attempt] = "ok"
  /\ exit = "failed" => seen[attempt] = "fail" /\ attempt = opt.max

\* When main() may look at the deadline and act on it.
Deadline ==
  /\ pc \in {"poll", "pollReap", "term", "grace", "graceReap", "sweep", "kill",
             "killReap"} =>
       opt.timed
  /\ pc \in {"term", "grace", "graceReap", "sweep", "kill", "killReap"} => expired
  /\ exit = "timeout" => opt.timed /\ expired

\* The child is in its group when a signal is sent, and what is left of the group
\* after the last one.
Group ==
  /\ pc \in Waiting \ {"setpgid"} /\ proc[attempt] \in Alive => grouped[attempt]
  /\ termed => pc \in {"grace", "graceReap", "sweep", "kill", "killReap", "done"}
  /\ pc = "killReap" /\ opt.killable => proc[attempt] \notin Alive /\ kin[attempt] # "alive"
  /\ TimeoutSweepsGroup

IInv == TypeOK /\ Processes /\ Record /\ Deadline /\ Group

-----------------------------------------------------------------------------
LEMMA InitIInv == Init => IInv
<1> SUFFICES ASSUME Init PROVE IInv
  OBVIOUS
<1>1. opt.max \in 1 .. MaxAttempts /\ 1 \in 1 .. opt.max
  BY AttemptsAssumption DEF Init, Options, Attempt
<1>2. TypeOK
  <2>1. /\ proc \in [Attempt -> {"none", "forked", "running", "zombie", "gone"}]
        /\ grouped \in [Attempt -> BOOLEAN]
        /\ result \in [Attempt -> {"none", "ok", "fail"}]
        /\ kin \in [Attempt -> {"none", "alive", "dead"}]
        /\ seen \in [Attempt -> {"none", "ok", "fail"}]
    BY DEF Init
  <2> QED
    BY <1>1, <2>1 DEF Init, TypeOK, Locations
<1>3. Processes /\ Record
  <2>1. /\ attempt = 1 /\ attempt \in Attempt /\ pc = "start" /\ exit = "none"
        /\ \A a \in Attempt : proc[a] = "none" /\ seen[a] = "none" /\ a >= 1
    BY AttemptsAssumption DEF Init, Attempt
  <2> QED
    BY <2>1 DEF Processes, Record, Waiting
<1>4. Deadline /\ Group
  BY DEF Init, Deadline, Group, TimeoutSweepsGroup, Waiting
<1> QED
  BY <1>2, <1>3, <1>4 DEF IInv

\* An attempt that has ended by itself: main() leaves, waits, or goes on to the next.
LEMMA ConcludeStep ==
  ASSUME IInv, pc \in {"pollReap", "wait"}, Reapable, Conclude
  PROVE  IInv'
<1> USE AttemptsAssumption DEF IInv, Attempt
<1>1. /\ attempt \in Attempt /\ attempt <= opt.max /\ opt \in Options /\ opt.max \in Attempt
      /\ proc' = [proc EXCEPT ![attempt] = "gone"]
      /\ seen' = [seen EXCEPT ![attempt] = result[attempt]]
      /\ UNCHANGED <<opt, expired, grouped, result, kin, termed>>
  BY DEF TypeOK, Options, Conclude, ReapChild
<1>2. result[attempt] \in {"ok", "fail"} /\ ~termed /\ exit = "none"
  BY <1>1 DEF TypeOK, Processes, Group, Record, Reapable
<1>3. \/ /\ result[attempt] = "ok" /\ pc' = "done" /\ exit' = "success"
         /\ attempt' = attempt /\ elapsed' = elapsed
      \/ /\ result[attempt] = "fail" /\ attempt = opt.max
         /\ pc' = "done" /\ exit' = "failed" /\ attempt' = attempt /\ elapsed' = elapsed
      \/ /\ result[attempt] = "fail" /\ attempt < opt.max
         /\ pc' = "sleep" /\ exit' = exit /\ attempt' = attempt /\ elapsed' = FALSE
      \/ /\ result[attempt] = "fail" /\ attempt < opt.max
         /\ pc' = "start" /\ exit' = exit /\ attempt' = attempt + 1 /\ elapsed' = elapsed
  BY <1>1, <1>2 DEF Conclude, Leave
<1>4. TypeOK'
  <2>1. attempt' \in 1 .. opt.max
    BY <1>1, <1>3 DEF TypeOK
  <2>2. proc' \in [Attempt -> {"none", "forked", "running", "zombie", "gone"}]
    BY <1>1 DEF TypeOK
  <2>3. seen' \in [Attempt -> {"none", "ok", "fail"}]
    BY <1>1, <1>2 DEF TypeOK
  <2> QED
    BY <1>1, <1>3, <2>1, <2>2, <2>3 DEF TypeOK, Locations
<1>5. Processes'
  BY <1>1, <1>2, <1>3 DEF Processes, TypeOK, Waiting
<1>6. Record'
  BY <1>1, <1>2, <1>3 DEF Record, TypeOK
<1>7. Deadline' /\ Group'
  BY <1>1, <1>2, <1>3 DEF Deadline, Group, TimeoutSweepsGroup, Waiting
<1> QED
  BY <1>4, <1>5, <1>6, <1>7

\* What a SIGKILL for the current attempt's group can do.
LEMMA KillGroupEffect ==
  ASSUME TypeOK, KillGroup(attempt)
  PROVE  /\ proc' \in [Attempt -> {"none", "forked", "running", "zombie", "gone"}]
         /\ result' \in [Attempt -> {"none", "ok", "fail"}]
         /\ kin' \in [Attempt -> {"none", "alive", "dead"}]
<1>1. Ended \in {"zombie", "gone"}
  BY DEF Ended
<1> QED
  BY <1>1 DEF TypeOK, KillGroup

-----------------------------------------------------------------------------
\* The steps of main().
LEMMA MainStepIInv == IInv /\ MainStep => IInv'
<1> SUFFICES ASSUME IInv, MainStep PROVE IInv'
  OBVIOUS
<1> USE AttemptsAssumption DEF IInv, TypeOK, Attempt, Options
<1>1. CASE Start
  <2>1. TypeOK'
    BY <1>1 DEF Start, Leave, clock, children, Locations
  <2>2. Processes' /\ Record'
    BY <1>1 DEF Start, Leave, children, Processes, Record, Waiting
  <2>3. Deadline' /\ Group'
    BY <1>1 DEF Start, Leave, clock, Deadline, Group, TimeoutSweepsGroup, Waiting
  <2> QED
    BY <2>1, <2>2, <2>3
<1>2. CASE Fork
  <2>1. TypeOK'
    BY <1>2 DEF Fork, clock, Locations
  <2>2. Processes' /\ Record'
    BY <1>2 DEF Fork, Processes, Record
  <2>3. Deadline' /\ Group'
    BY <1>2 DEF Fork, Deadline, Group, TimeoutSweepsGroup, Record
  <2> QED
    BY <2>1, <2>2, <2>3
<1>3. CASE ForkFails
  <2>1. TypeOK'
    BY <1>3 DEF ForkFails, Leave, clock, children, Locations
  <2>2. Processes' /\ Record'
    BY <1>3 DEF ForkFails, Leave, children, Processes, Record, Waiting
  <2>3. Deadline' /\ Group'
    BY <1>3 DEF ForkFails, Leave, Deadline, Group, TimeoutSweepsGroup, Waiting
  <2> QED
    BY <2>1, <2>2, <2>3
<1>4. CASE ParentSetpgid
  <2>1. TypeOK'
    BY <1>4 DEF ParentSetpgid, clock, Locations
  <2>2. Processes' /\ Record'
    BY <1>4 DEF ParentSetpgid, Processes, Record, Waiting
  <2>3. Deadline'
    BY <1>4 DEF ParentSetpgid, clock, Deadline
  <2>4. Group'
    <3>1. attempt \in Attempt /\ exit = "none" /\ ~termed
      BY <1>4 DEF ParentSetpgid, Group, Record
    <3>2. proc[attempt] \in Alive => grouped'[attempt]
      BY <1>4, <3>1 DEF ParentSetpgid
    <3> QED
      BY <1>4, <3>1, <3>2 DEF ParentSetpgid, Group, TimeoutSweepsGroup
  <2> QED
    BY <2>1, <2>2, <2>3, <2>4
<1>5. CASE Poll
  <2>1. TypeOK'
    BY <1>5 DEF Poll, clock, children, Locations
  <2>2. Processes' /\ Record'
    BY <1>5 DEF Poll, children, Processes, Record, Waiting
  <2>3. Deadline' /\ Group'
    BY <1>5 DEF Poll, clock, children, Deadline, Group, TimeoutSweepsGroup, Waiting
  <2> QED
    BY <2>1, <2>2, <2>3
<1>6. CASE PollReap
  <2>1. CASE Reapable /\ Conclude
    BY <1>6, <2>1, ConcludeStep DEF PollReap
  <2>2. CASE pc' = "poll" /\ UNCHANGED <<opt, attempt, clock, children, seen, termed, exit>>
    <3>1. pc = "pollReap"
      BY <1>6 DEF PollReap
    <3>2. TypeOK'
      BY <2>2 DEF Locations, clock, children
    <3>3. Processes' /\ Record'
      BY <2>2, <3>1 DEF Processes, Record, Waiting, children
    <3>4. Deadline' /\ Group'
      BY <2>2, <3>1 DEF Deadline, Group, TimeoutSweepsGroup, Waiting, clock, children
    <3> QED
      BY <3>2, <3>3, <3>4
  <2>3. CASE /\ NoChild /\ KillGroup(attempt) /\ Leave("system")
             /\ UNCHANGED <<opt, attempt, clock, grouped, seen, termed>>
    <3>1. pc = "pollReap"
      BY <1>6 DEF PollReap
    <3>2. TypeOK'
      BY <2>3 DEF NoChild, KillGroup, Leave, Locations, Alive, clock
    <3>3. Processes' /\ Record'
      BY <2>3, <3>1 DEF Processes, Record, NoChild, KillGroup, Leave, Alive
    <3>4. Deadline' /\ Group'
      BY <2>3, <3>1 DEF Deadline, Group, TimeoutSweepsGroup, Leave, Waiting
    <3> QED
      BY <3>2, <3>3, <3>4
  <2> QED
    BY <1>6, <2>1, <2>2, <2>3 DEF PollReap
<1>7. CASE Wait
  <2>1. CASE Reapable /\ Conclude
    BY <1>7, <2>1, ConcludeStep DEF Wait
  <2>2. CASE NoChild /\ Leave("system")
             /\ UNCHANGED <<opt, attempt, clock, children, seen, termed>>
    <3>1. pc = "wait"
      BY <1>7 DEF Wait
    <3>2. TypeOK'
      BY <2>2 DEF Leave, Locations, clock, children
    <3>3. Processes' /\ Record'
      BY <2>2, <3>1 DEF Processes, Record, NoChild, Leave, children
    <3>4. Deadline' /\ Group'
      BY <2>2, <3>1 DEF Deadline, Group, TimeoutSweepsGroup, Leave, Waiting
    <3> QED
      BY <3>2, <3>3, <3>4
  <2> QED
    BY <1>7, <2>1, <2>2 DEF Wait
<1>8. CASE Sleep
  <2>1. TypeOK'
    <3>1. attempt < opt.max /\ attempt' \in {attempt, attempt + 1}
      BY <1>8 DEF Sleep, Record
    <3>2. attempt' \in 1 .. opt.max
      BY <3>1
    <3> QED
      BY <1>8, <3>2 DEF Sleep, Leave, clock, children, Locations
  <2>2. Processes' /\ Record'
    BY <1>8 DEF Sleep, Leave, children, Processes, Record, Waiting
  <2>3. Deadline' /\ Group'
    BY <1>8 DEF Sleep, Leave, clock, Deadline, Group, TimeoutSweepsGroup, Waiting
  <2> QED
    BY <2>1, <2>2, <2>3
<1>9. CASE Term
  <2>1. TypeOK'
    BY <1>9 DEF Term, children, Locations
  <2>2. Processes' /\ Record'
    BY <1>9 DEF Term, children, Processes, Record, Waiting
  <2>3. Deadline' /\ Group'
    BY <1>9 DEF Term, children, Deadline, Group, TimeoutSweepsGroup, Record, Waiting
  <2> QED
    BY <2>1, <2>2, <2>3
<1>10. CASE Grace
  <2>1. TypeOK'
    BY <1>10 DEF Grace, clock, children, Locations
  <2>2. Processes' /\ Record'
    BY <1>10 DEF Grace, children, Processes, Record, Waiting
  <2>3. Deadline' /\ Group'
    BY <1>10 DEF Grace, clock, children, Deadline, Group, TimeoutSweepsGroup, Waiting
  <2> QED
    BY <2>1, <2>2, <2>3
<1>11. CASE GraceReap
  <2>1. TypeOK'
    BY <1>11 DEF GraceReap, Leave, ReapChild, clock, Locations
  <2>2. Processes' /\ Record'
    BY <1>11 DEF GraceReap, Leave, Reapable, NoChild, ReapChild, Processes, Record,
       Alive
  <2>3. Deadline' /\ Group'
    BY <1>11 DEF GraceReap, Leave, clock, Deadline, Group, TimeoutSweepsGroup, Waiting
  <2> QED
    BY <2>1, <2>2, <2>3
<1>12. CASE Sweep
  <2>1. TypeOK'
    BY <1>12, KillGroupEffect DEF Sweep, Leave, clock, Locations
  <2>2. Processes' /\ Record'
    BY <1>12 DEF Sweep, KillGroup, Leave, Processes, Record, Alive
  <2>3. Deadline' /\ Group'
    BY <1>12 DEF Sweep, KillGroup, Leave, clock, Deadline, Group, TimeoutSweepsGroup,
       Waiting
  <2> QED
    BY <2>1, <2>2, <2>3
<1>13. CASE Kill
  <2>1. TypeOK'
    BY <1>13, KillGroupEffect DEF Kill, clock, Locations
  <2>2. Processes' /\ Record'
    BY <1>13 DEF Kill, KillGroup, Processes, Record, Waiting, Ended
  <2>3. Deadline' /\ Group'
    BY <1>13 DEF Kill, KillGroup, clock, Deadline, Group, TimeoutSweepsGroup, Waiting,
       Alive, Ended
  <2> QED
    BY <2>1, <2>2, <2>3
<1>14. CASE KillReap
  <2>1. TypeOK'
    BY <1>14 DEF KillReap, Leave, ReapChild, clock, Locations
  <2>2. Processes' /\ Record'
    BY <1>14 DEF KillReap, Leave, Reapable, NoChild, ReapChild, Processes, Record
  <2>3. Deadline' /\ Group'
    BY <1>14 DEF KillReap, Leave, clock, Deadline, Group, TimeoutSweepsGroup, Waiting
  <2> QED
    BY <2>1, <2>2, <2>3
<1> QED
  BY <1>1, <1>2, <1>3, <1>4, <1>5, <1>6, <1>7, <1>8, <1>9, <1>10, <1>11, <1>12, <1>13,
     <1>14 DEF MainStep

\* The steps of the commands, of what they leave behind, and of the clock.
LEMMA EnvironmentIInv == IInv /\ Environment => IInv'
<1> SUFFICES ASSUME IInv, Environment PROVE IInv'
  OBVIOUS
<1> USE AttemptsAssumption DEF IInv, TypeOK, Attempt, Options, main
<1>1. ASSUME NEW a \in Attempt, ChildExecs(a) PROVE IInv'
  <2>1. TypeOK'
    BY <1>1 DEF ChildExecs, clock
  <2>2. Processes' /\ Record'
    BY <1>1 DEF ChildExecs, Processes, Record
  <2>3. Deadline' /\ Group'
    BY <1>1 DEF ChildExecs, clock, Deadline, Group, TimeoutSweepsGroup, Alive
  <2> QED
    BY <2>1, <2>2, <2>3
<1>2. ASSUME NEW a \in Attempt, ChildSpawns(a) PROVE IInv'
  <2>1. TypeOK'
    BY <1>2 DEF ChildSpawns, clock
  <2>2. Processes' /\ Record'
    BY <1>2 DEF ChildSpawns, Processes, Record
  <2>3. Deadline' /\ Group'
    BY <1>2 DEF ChildSpawns, clock, Deadline, Group, TimeoutSweepsGroup, Processes,
       Record, Alive
  <2> QED
    BY <2>1, <2>2, <2>3
<1>3. ASSUME NEW a \in Attempt, ChildEnds(a) PROVE IInv'
  <2>1. TypeOK'
    <3>1. Ended \in {"zombie", "gone"}
      BY DEF Ended
    <3>2. /\ proc' \in [Attempt -> {"none", "forked", "running", "zombie", "gone"}]
          /\ result' \in [Attempt -> {"none", "ok", "fail"}]
      BY <1>3, <3>1 DEF ChildEnds
    <3> QED
      BY <1>3, <3>2 DEF ChildEnds, clock
  <2>2. Processes' /\ Record'
    BY <1>3 DEF ChildEnds, Processes, Record, Alive, Ended
  <2>3. Deadline' /\ Group'
    BY <1>3 DEF ChildEnds, clock, Deadline, Group, TimeoutSweepsGroup
  <2> QED
    BY <2>1, <2>2, <2>3
<1>4. ASSUME NEW a \in Attempt, KinEnds(a) PROVE IInv'
  <2>1. TypeOK'
    BY <1>4 DEF KinEnds, clock
  <2>2. Processes' /\ Record'
    BY <1>4 DEF KinEnds, Processes, Record
  <2>3. Deadline' /\ Group'
    BY <1>4 DEF KinEnds, clock, Deadline, Group, TimeoutSweepsGroup
  <2> QED
    BY <2>1, <2>2, <2>3
<1>5. CASE DeadlinePasses
  <2>1. TypeOK'
    BY <1>5 DEF DeadlinePasses, children
  <2>2. Processes' /\ Record'
    BY <1>5 DEF DeadlinePasses, children, Processes, Record
  <2>3. Deadline' /\ Group'
    BY <1>5 DEF DeadlinePasses, children, Deadline, Group, TimeoutSweepsGroup
  <2> QED
    BY <2>1, <2>2, <2>3
<1>6. CASE WaitElapses
  <2>1. TypeOK'
    BY <1>6 DEF WaitElapses, children
  <2>2. Processes' /\ Record'
    BY <1>6 DEF WaitElapses, children, Processes, Record
  <2>3. Deadline' /\ Group'
    BY <1>6 DEF WaitElapses, children, Deadline, Group, TimeoutSweepsGroup
  <2> QED
    BY <2>1, <2>2, <2>3
<1> QED
  BY <1>1, <1>2, <1>3, <1>4, <1>5, <1>6 DEF Environment

LEMMA NextIInv == IInv /\ [Next]_vars => IInv'
<1> SUFFICES ASSUME IInv, [Next]_vars PROVE IInv'
  OBVIOUS
<1>1. CASE MainStep
  BY <1>1, MainStepIInv
<1>2. CASE Environment
  BY <1>2, EnvironmentIInv
<1>3. CASE UNCHANGED vars
  BY <1>3 DEF vars, IInv, TypeOK, Processes, Record, Deadline, Group, TimeoutSweepsGroup
<1> QED
  BY <1>1, <1>2, <1>3 DEF Next, Rest

-----------------------------------------------------------------------------
THEOREM Invariance == Spec => []IInv
BY InitIInv, NextIInv, PTL DEF Spec

\* Type correctness: main() never counts past -n, and every process, group and status is
\* one of those the model speaks of.
THEOREM TypeCorrect == Spec => []TypeOK
BY Invariance, PTL DEF IInv

\* However many attempts there are, no two overlap and none outlives retry.
THEOREM NoneOutlived == Spec => []NoCommandOutlived
<1>1. IInv => NoCommandOutlived
  BY DEF IInv, TypeOK, Processes, NoCommandOutlived, Attempt
<1> QED
  BY <1>1, Invariance, PTL

\* However many attempts there are, the exit status is the truth about them.
THEOREM VerdictTrue == Spec => []VerdictMatchesAttempts
<1>1. IInv => VerdictMatchesAttempts
  <2> SUFFICES ASSUME IInv PROVE VerdictMatchesAttempts
    OBVIOUS
  <2>1. opt.max \in 1 .. MaxAttempts /\ attempt \in 1 .. opt.max
    BY DEF IInv, TypeOK, Options, Attempt
  <2>2. exit = "failed" => \A a \in 1 .. opt.max : seen[a] = "fail"
    BY <2>1, AttemptsAssumption DEF IInv, Record, Attempt
  <2>3. ASSUME NEW a \in Attempt, seen[a] = "ok" PROVE exit = "success" /\ a = attempt
    BY <2>1, <2>3, AttemptsAssumption DEF IInv, Record, Attempt
  <2> QED
    BY <2>2, <2>3 DEF IInv, Record, Deadline, VerdictMatchesAttempts
<1> QED
  BY <1>1, Invariance, PTL

\* A timeout leaves nothing of the group of the command that was cut off.
THEOREM GroupSwept == Spec => []TimeoutSweepsGroup
<1>1. IInv => TimeoutSweepsGroup
  BY DEF IInv, Group
<1> QED
  BY <1>1, Invariance, PTL
=============================================================================
