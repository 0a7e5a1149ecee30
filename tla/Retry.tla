-------------------------------- MODULE Retry --------------------------------
(***************************************************************************)
(* devutils/src/retry.cpp: run a command until it succeeds, at most max    *)
(* times, within an optional total runtime (-m), with a delay between the  *)
(* attempts (-d).  Each attempt is a child process in a process group of   *)
(* its own, which may leave descendants ("kin") in that group; when the    *)
(* runtime is over the group is sent SIGTERM, given a grace period, and    *)
(* SIGKILL.                                                                *)
(*                                                                         *)
(* Time is abstract: the deadline, the delay and the grace period are      *)
(* flags that the clock raises at an arbitrary moment, so that every       *)
(* scheduling of parent, child and clock is covered.                       *)
(***************************************************************************)
EXTENDS Naturals

CONSTANT MaxAttempts   \* largest -n considered

ASSUME AttemptsAssumption == MaxAttempts \in Nat \ {0}

VARIABLES
  opt,       \* options, and what the environment fixes for the whole run
  pc,        \* where main() is
  attempt,   \* the loop counter
  expired,   \* Clock::now() >= deadline
  elapsed,   \* the delay or the grace period in progress is over
  proc,      \* the direct child of every attempt
  grouped,   \* whether that child leads its own process group
  result,    \* status that child ended with
  kin,       \* descendants of that child in its group
  seen,      \* history: status main() took from waitpid and acted on
  termed,    \* history: SIGTERM was sent to the current attempt
  exit       \* how retry ended

vars == <<opt, pc, attempt, expired, elapsed, proc, grouped, result, kin, seen,
          termed, exit>>

clock == <<expired, elapsed>>
children == <<proc, grouped, result, kin>>

-----------------------------------------------------------------------------
Attempt == 1 .. MaxAttempts

\* timed: -m given; delay: -d above zero; autoreap: retry was started with
\* SIGCHLD ignored, so that the kernel reaps its children and waitpid finds none;
\* killable: the command may be signalled (it is not, say, a set-user-id program).
Options == [max : Attempt, timed : BOOLEAN, delay : BOOLEAN,
            autoreap : BOOLEAN, killable : BOOLEAN]

Locations == {"start", "fork", "setpgid", "poll", "pollReap", "wait", "sleep",
              "term", "grace", "graceReap", "sweep", "kill", "killReap", "done"}

Alive == {"forked", "running"}

Init ==
  /\ opt \in Options
  /\ pc = "start"
  /\ attempt = 1
  /\ expired = FALSE
  /\ elapsed = FALSE
  /\ proc = [a \in Attempt |-> "none"]
  /\ grouped = [a \in Attempt |-> FALSE]
  /\ result = [a \in Attempt |-> "none"]
  /\ kin = [a \in Attempt |-> "none"]
  /\ seen = [a \in Attempt |-> "none"]
  /\ termed = FALSE
  /\ exit = "none"

Leave(code) == pc' = "done" /\ exit' = code

-----------------------------------------------------------------------------
(* Process groups and signals.                                             *)

\* A child that ended waits to be reaped, unless nobody will.
Ended == IF opt.autoreap THEN "gone" ELSE "zombie"

\* kill(-pid, SIGKILL) on attempt a: every member of the group dies.  A child
\* that is not in the group yet is not reached, and the ESRCH is ignored.
KillGroup(a) ==
  IF ~opt.killable THEN UNCHANGED <<proc, result, kin>>
  ELSE /\ IF proc[a] \in Alive /\ grouped[a]
          THEN /\ proc' = [proc EXCEPT ![a] = Ended]
               /\ result' = [result EXCEPT ![a] = "fail"]
          ELSE UNCHANGED <<proc, result>>
       /\ kin' = [kin EXCEPT ![a] = IF @ = "alive" THEN "dead" ELSE @]

\* waitpid on the child of the current attempt: reaped, or already gone (ECHILD).
Reapable == proc[attempt] = "zombie"
NoChild == proc[attempt] = "gone"
ReapChild == proc' = [proc EXCEPT ![attempt] = "gone"]

-----------------------------------------------------------------------------
(* The attempt loop of main().                                             *)

Start ==
  /\ pc = "start"
  /\ IF opt.timed /\ expired THEN Leave("timeout")
                             ELSE pc' = "fork" /\ exit' = exit
  /\ UNCHANGED <<opt, attempt, clock, children, seen, termed>>

Fork ==
  /\ pc = "fork"
  /\ pc' = "setpgid"
  /\ proc' = [proc EXCEPT ![attempt] = "forked"]
  /\ UNCHANGED <<opt, attempt, clock, grouped, result, kin, seen, termed, exit>>

ForkFails ==
  /\ pc = "fork"
  /\ Leave("system")
  /\ UNCHANGED <<opt, attempt, clock, children, seen, termed>>

\* Mutant: the parent leaves setpgid to the child.
NoParentSetpgid ==
  /\ pc = "setpgid"
  /\ pc' = IF opt.timed THEN "poll" ELSE "wait"
  /\ UNCHANGED <<opt, attempt, clock, children, seen, termed, exit>>

\* The parent's setpgid: it closes the race with the child's own.  EACCES and
\* ESRCH mean that the child has already done it or is dead.
ParentSetpgid ==
  /\ pc = "setpgid"
  /\ grouped' = [grouped EXCEPT ![attempt] = @ \/ proc[attempt] \in Alive]
  /\ pc' = IF opt.timed THEN "poll" ELSE "wait"
  /\ UNCHANGED <<opt, attempt, clock, proc, result, kin, seen, termed, exit>>

\* while (Clock::now() < deadline)
Poll ==
  /\ pc = "poll"
  /\ pc' = IF expired THEN "term" ELSE "pollReap"
  /\ UNCHANGED <<opt, attempt, clock, children, seen, termed, exit>>

\* What main() does with the status of an attempt that ended by itself.
Conclude ==
  /\ ReapChild
  /\ seen' = [seen EXCEPT ![attempt] = result[attempt]]
  /\ \/ result[attempt] = "ok" /\ Leave("success") /\ UNCHANGED <<attempt, elapsed>>
     \/ /\ result[attempt] = "fail"
        /\ \/ attempt = opt.max /\ Leave("failed") /\ UNCHANGED <<attempt, elapsed>>
           \/ /\ attempt < opt.max /\ opt.delay
              /\ pc' = "sleep" /\ elapsed' = FALSE /\ UNCHANGED <<attempt, exit>>
           \/ /\ attempt < opt.max /\ ~opt.delay
              /\ pc' = "start" /\ attempt' = attempt + 1 /\ UNCHANGED <<elapsed, exit>>
  /\ UNCHANGED <<opt, expired, grouped, result, kin, termed>>

\* Mutant: waitpid(WNOHANG) returning 0 is taken for "finished".
PollReapTakesZero ==
  /\ pc = "pollReap"
  /\ seen' = [seen EXCEPT ![attempt] = "fail"]
  /\ IF attempt = opt.max THEN Leave("failed") /\ attempt' = attempt
                          ELSE pc' = "start" /\ attempt' = attempt + 1 /\ exit' = exit
  /\ UNCHANGED <<opt, clock, children, termed>>

\* waitpid(pid, WNOHANG): reap, or sleep and poll again, or give up: the group is
\* killed and the second waitpid fails at once like the first.
PollReap ==
  /\ pc = "pollReap"
  /\ \/ Reapable /\ Conclude
     \/ /\ proc[attempt] \in Alive
        /\ pc' = "poll"
        /\ UNCHANGED <<opt, attempt, clock, children, seen, termed, exit>>
     \/ /\ NoChild
        /\ KillGroup(attempt)
        /\ Leave("system")
        /\ UNCHANGED <<opt, attempt, clock, grouped, seen, termed>>

\* Without -m: a blocking waitpid.
Wait ==
  /\ pc = "wait"
  /\ \/ Reapable /\ Conclude
     \/ /\ NoChild
        /\ Leave("system")
        /\ UNCHANGED <<opt, attempt, clock, children, seen, termed>>

\* Mutant: a delay cut short returns the status of the last attempt.
SleepReturnsLast ==
  /\ pc = "sleep"
  /\ \/ /\ elapsed
        /\ pc' = "start" /\ attempt' = attempt + 1 /\ exit' = exit
     \/ /\ ~elapsed /\ opt.timed /\ expired
        /\ Leave("failed") /\ attempt' = attempt
  /\ UNCHANGED <<opt, clock, children, seen, termed>>

\* The delay: it ends, or the deadline cuts it short.
Sleep ==
  /\ pc = "sleep"
  /\ \/ /\ elapsed
        /\ pc' = "start" /\ attempt' = attempt + 1 /\ exit' = exit
     \/ /\ ~elapsed /\ opt.timed /\ expired
        /\ Leave("timeout") /\ attempt' = attempt
  /\ UNCHANGED <<opt, clock, children, seen, termed>>

-----------------------------------------------------------------------------
(* terminate_process_group.                                                *)

\* kill(-pid, SIGTERM): what the members do about it is up to them.
Term ==
  /\ pc = "term"
  /\ termed' = TRUE
  /\ elapsed' = FALSE
  /\ pc' = "grace"
  /\ UNCHANGED <<opt, attempt, expired, children, seen, exit>>

\* while (Clock::now() < grace_end)
Grace ==
  /\ pc = "grace"
  /\ pc' = IF elapsed THEN "kill" ELSE "graceReap"
  /\ UNCHANGED <<opt, attempt, clock, children, seen, termed, exit>>

\* Mutant: a child that ended in the grace period ends the timeout handling.
GraceReapNoSweep ==
  /\ pc = "graceReap"
  /\ \/ Reapable /\ ReapChild /\ Leave("timeout")
     \/ proc[attempt] \in Alive /\ pc' = "grace" /\ UNCHANGED <<proc, exit>>
     \/ NoChild /\ Leave("system") /\ UNCHANGED proc
  /\ UNCHANGED <<opt, attempt, clock, grouped, result, kin, seen, termed>>

GraceReap ==
  /\ pc = "graceReap"
  /\ \/ Reapable /\ ReapChild /\ pc' = "sweep" /\ exit' = exit
     \/ proc[attempt] \in Alive /\ pc' = "grace" /\ UNCHANGED <<proc, exit>>
     \/ NoChild /\ Leave("system") /\ UNCHANGED proc
  /\ UNCHANGED <<opt, attempt, clock, grouped, result, kin, seen, termed>>

\* The child is reaped; SIGKILL for what is left of its group.
Sweep ==
  /\ pc = "sweep"
  /\ KillGroup(attempt)
  /\ Leave("timeout")
  /\ UNCHANGED <<opt, attempt, clock, grouped, seen, termed>>

\* The grace period is over: SIGKILL for the group.
Kill ==
  /\ pc = "kill"
  /\ KillGroup(attempt)
  /\ pc' = "killReap"
  /\ UNCHANGED <<opt, attempt, clock, grouped, seen, termed, exit>>

KillReap ==
  /\ pc = "killReap"
  /\ \/ Reapable /\ ReapChild /\ Leave("timeout")
     \/ NoChild /\ Leave("system") /\ UNCHANGED proc
  /\ UNCHANGED <<opt, attempt, clock, grouped, result, kin, seen, termed>>

-----------------------------------------------------------------------------
(* The children and the clock.                                             *)

main == <<opt, pc, attempt, seen, termed, exit>>

\* The child's own setpgid(0, 0), then execvp.
ChildExecs(a) ==
  /\ proc[a] = "forked"
  /\ proc' = [proc EXCEPT ![a] = "running"]
  /\ grouped' = [grouped EXCEPT ![a] = TRUE]
  /\ UNCHANGED <<main, clock, result, kin>>

\* The command leaves a descendant behind in its group.
ChildSpawns(a) ==
  /\ proc[a] = "running" /\ kin[a] = "none"
  /\ kin' = [kin EXCEPT ![a] = "alive"]
  /\ UNCHANGED <<main, clock, proc, grouped, result>>

\* The command ends: on its own, of SIGTERM, or because it could not be run.
ChildEnds(a) ==
  /\ proc[a] \in Alive
  /\ proc' = [proc EXCEPT ![a] = Ended]
  /\ \E r \in {"ok", "fail"} :
       /\ proc[a] = "forked" => r = "fail"
       /\ result' = [result EXCEPT ![a] = r]
  /\ UNCHANGED <<main, clock, grouped, kin>>

KinEnds(a) ==
  /\ kin[a] = "alive"
  /\ kin' = [kin EXCEPT ![a] = "dead"]
  /\ UNCHANGED <<main, clock, proc, grouped, result>>

DeadlinePasses ==
  /\ opt.timed /\ ~expired /\ pc # "done"
  /\ expired' = TRUE
  /\ UNCHANGED <<main, children, elapsed>>

WaitElapses ==
  /\ pc \in {"sleep", "grace", "graceReap"} /\ ~elapsed
  /\ elapsed' = TRUE
  /\ UNCHANGED <<main, children, expired>>

MainStep ==
  \/ Start \/ Fork \/ ForkFails \/ ParentSetpgid \/ Poll \/ PollReap \/ Wait
  \/ Sleep \/ Term \/ Grace \/ GraceReap \/ Sweep \/ Kill \/ KillReap

Environment ==
  \/ \E a \in Attempt : ChildExecs(a) \/ ChildSpawns(a) \/ ChildEnds(a) \/ KinEnds(a)
  \/ DeadlinePasses
  \/ WaitElapses

\* main() has returned; the model rests.
Rest == pc = "done" /\ UNCHANGED vars

Next == MainStep \/ Environment \/ Rest

Spec == Init /\ [][Next]_vars

\* retry is scheduled and time passes; nothing is asked of the command.
FairSpec ==
  /\ Spec
  /\ WF_vars(MainStep)
  /\ WF_vars(DeadlinePasses)
  /\ WF_vars(WaitElapses)

CommandsEnd == \A a \in Attempt : WF_vars(ChildEnds(a))

-----------------------------------------------------------------------------
(* Properties.                                                             *)

TypeOK ==
  /\ opt \in Options
  /\ pc \in Locations
  /\ attempt \in 1 .. opt.max
  /\ expired \in BOOLEAN /\ elapsed \in BOOLEAN
  /\ proc \in [Attempt -> {"none", "forked", "running", "zombie", "gone"}]
  /\ grouped \in [Attempt -> BOOLEAN]
  /\ result \in [Attempt -> {"none", "ok", "fail"}]
  /\ kin \in [Attempt -> {"none", "alive", "dead"}]
  /\ seen \in [Attempt -> {"none", "ok", "fail"}]
  /\ termed \in BOOLEAN
  /\ exit \in {"none", "success", "failed", "timeout", "system"}

\* The command never runs twice at once, and retry never exits while it runs:
\* every earlier attempt's process is dead and reaped before the next is made,
\* and so is the last one before retry returns, however it returns.
NoCommandOutlived ==
  /\ \A a \in Attempt : a < attempt => proc[a] = "gone"
  /\ pc = "done" => \A a \in Attempt : proc[a] \in {"none", "gone"}

\* The exit status tells what happened: success means that the last attempt, and
\* none before it, succeeded; failure means that all the attempts allowed were
\* made and failed; and once a success was seen no other status is possible.
VerdictMatchesAttempts ==
  /\ exit = "success" => seen[attempt] = "ok"
  /\ exit = "failed" => /\ attempt = opt.max
                        /\ \A a \in 1 .. opt.max : seen[a] = "fail"
  /\ exit = "timeout" => opt.timed /\ expired
  /\ \A a \in Attempt : seen[a] = "ok" => exit = "success" /\ a = attempt

\* When a running command is cut off, nothing of its process group survives retry
\* (if the group may be signalled at all), also when the command itself heeds
\* SIGTERM and its descendants do not.
TimeoutSweepsGroup ==
  exit = "timeout" /\ termed /\ opt.killable => kin[attempt] # "alive"

\* With -m, retry ends whatever the command does: hang, ignore SIGTERM, leave
\* descendants, or not even have reached setpgid when the deadline passes.
TimedRunEnds == opt.timed /\ opt.killable ~> pc = "done"

\* Without -m, retry ends if every attempt does.
UntimedRunEnds == CommandsEnd => <>(pc = "done")

\* Every run of retry ends, with -m for its own sake and without for the attempts'.
RunEnds == TimedRunEnds /\ UntimedRunEnds

\* The comment at the first SIGKILL: the timeout leaves no member of the group
\* running, whatever the exit status.
NothingLeftAfterTimeout ==
  pc = "done" /\ termed /\ opt.killable => kin[attempt] # "alive"
=============================================================================
