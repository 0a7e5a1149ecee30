-------------------------------- MODULE Parg --------------------------------
(***************************************************************************)
(* The worker pool of devutils/src/parg.cpp (runBatches and what it        *)
(* calls).  main() starts min(threads, batches) worker threads; each loops *)
(* over a shared atomic counter, claims the next batch, asks for consent   *)
(* when -P is given, runs the batch's command in a child process and       *)
(* records a failure in a shared atomic flag.  main() joins them all.      *)
(*                                                                         *)
(* Batches are numbered from 0 as in the code; what a batch holds is the   *)
(* subject of module PargBatch.  One action is one access to the shared    *)
(* state or one system call, so that threads interleave between them.      *)
(***************************************************************************)
EXTENDS Naturals, FiniteSets

CONSTANTS
  MaxThreads,   \* largest -T considered
  MaxBatches    \* largest number of batches considered

ASSUME BoundsAssumption == /\ MaxThreads \in Nat \ {0}
                           /\ MaxBatches \in Nat \ {0}

VARIABLES
  opt,       \* the options that steer the pool
  size,      \* batches.size()
  next,      \* std::atomic<size_t> next
  failed,    \* std::atomic<bool> failed
  spawned,   \* threads main() has constructed so far
  pc,        \* where each worker is
  index,     \* the batch a worker claimed last
  outcome,   \* what became of every batch's command
  exit,      \* how the process ended
  late       \* history: commands launched after failed was set

vars == <<opt, size, next, failed, spawned, pc, index, outcome, exit, late>>

-----------------------------------------------------------------------------
Worker == 1 .. MaxThreads
Batches == 0 .. (size - 1)

\* parseOptions refuses -P together with more than one thread; inputFile says
\* whether -in was given, that is, whether standard input is still unread.
Options == {o \in [threads : Worker, stopOnError : BOOLEAN,
                   prompt : BOOLEAN, inputFile : BOOLEAN] :
              o.prompt => o.threads = 1}

Smaller(a, b) == IF a <= b THEN a ELSE b

\* The number of threads runBatches starts.
Count == Smaller(opt.threads, size)

Locations == {"unborn", "check", "claim", "confirm", "execute", "wait",
              "store", "done", "killed"}

\* Workers that hold a batch whose command has not ended.
Holding == {"confirm", "execute", "wait"}

Outcomes == {"none", "running", "ok", "failed", "declined"}

Running == exit = "none"

\* Answers std::getline can deliver: none once readInput has drained std::cin.
Answers == IF opt.inputFile THEN BOOLEAN ELSE {FALSE}

Goto(t, l) == pc' = [pc EXCEPT ![t] = l]

Init ==
  /\ opt \in Options
  /\ size \in 1 .. MaxBatches
  /\ next = 0
  /\ failed = FALSE
  /\ spawned = 0
  /\ pc = [t \in Worker |-> "unborn"]
  /\ index = [t \in Worker |-> 0]
  /\ outcome = [b \in Batches |-> "none"]
  /\ exit = "none"
  /\ late = 0

-----------------------------------------------------------------------------
(* The main thread.                                                        *)

\* workers.emplace_back(worker): the new thread runs at once, while main goes
\* on constructing the others.
Spawn ==
  /\ Running
  /\ spawned < Count
  /\ spawned' = spawned + 1
  /\ Goto(spawned + 1, "check")
  /\ UNCHANGED <<opt, size, next, failed, index, outcome, exit, late>>

\* The std::thread constructor throws: nothing catches it, std::terminate takes
\* the process down and with it every worker.  Children keep running.
SpawnFails ==
  /\ Running
  /\ spawned < Count
  /\ exit' = "aborted"
  /\ pc' = [t \in Worker |-> IF pc[t] = "unborn" THEN "unborn" ELSE "killed"]
  /\ UNCHANGED <<opt, size, next, failed, spawned, index, outcome, late>>

\* Every join has returned and failed decides the exit status.
Return ==
  /\ Running
  /\ spawned = Count
  /\ \A t \in 1 .. Count : pc[t] = "done"
  /\ exit' = IF failed THEN "failure" ELSE "success"
  /\ UNCHANGED <<opt, size, next, failed, spawned, pc, index, outcome, late>>

-----------------------------------------------------------------------------
(* A worker.                                                               *)

\* Mutant: -e forgotten.
CheckIgnoresFailure(t) ==
  /\ pc[t] = "check"
  /\ Goto(t, "claim")
  /\ UNCHANGED <<opt, size, next, failed, spawned, index, outcome, exit, late>>

\* if (opt.stopOnError && failed.load()) break;
Check(t) ==
  /\ pc[t] = "check"
  /\ Goto(t, IF opt.stopOnError /\ failed THEN "done" ELSE "claim")
  /\ UNCHANGED <<opt, size, next, failed, spawned, index, outcome, exit, late>>

\* Mutant: a worker that finds no batch left goes round again.
ClaimKeepsPolling(t) ==
  /\ pc[t] = "claim"
  /\ next' = IF next < size THEN next + 1 ELSE next
  /\ index' = [index EXCEPT ![t] = next]
  /\ Goto(t, IF next >= size THEN "check"
             ELSE IF opt.prompt THEN "confirm" ELSE "execute")
  /\ UNCHANGED <<opt, size, failed, spawned, outcome, exit, late>>

\* Mutant: the claim is made under a lock that is held until the command ends.
ClaimWhileNoneRuns(t) ==
  /\ pc[t] = "claim"
  /\ \A u \in Worker : pc[u] # "wait"
  /\ next' = next + 1
  /\ index' = [index EXCEPT ![t] = next]
  /\ Goto(t, IF next >= size THEN "done"
             ELSE IF opt.prompt THEN "confirm" ELSE "execute")
  /\ UNCHANGED <<opt, size, failed, spawned, outcome, exit, late>>

\* next.fetch_add(1); the counter moves even when no batch is left.
Claim(t) ==
  /\ pc[t] = "claim"
  /\ next' = next + 1
  /\ index' = [index EXCEPT ![t] = next]
  /\ Goto(t, IF next >= size THEN "done"
             ELSE IF opt.prompt THEN "confirm" ELSE "execute")
  /\ UNCHANGED <<opt, size, failed, spawned, outcome, exit, late>>

\* confirm() under promptMutex: a "no" drops the batch.
Confirm(t) ==
  /\ pc[t] = "confirm"
  /\ \E yes \in Answers :
       /\ Goto(t, IF yes THEN "execute" ELSE "check")
       /\ outcome' = IF yes THEN outcome
                            ELSE [outcome EXCEPT ![index[t]] = "declined"]
  /\ UNCHANGED <<opt, size, next, failed, spawned, index, exit, late>>

\* fork() succeeds and the child goes on to execvp.
Fork(t) ==
  /\ pc[t] = "execute"
  /\ Goto(t, "wait")
  /\ outcome' = [outcome EXCEPT ![index[t]] = "running"]
  /\ late' = IF failed THEN late + 1 ELSE late
  /\ UNCHANGED <<opt, size, next, failed, spawned, index, exit>>

\* fork() fails: execute returns 1 and no command was started.
ForkFails(t) ==
  /\ pc[t] = "execute"
  /\ Goto(t, "store")
  /\ outcome' = [outcome EXCEPT ![index[t]] = "failed"]
  /\ UNCHANGED <<opt, size, next, failed, spawned, index, exit, late>>

\* Mutant: failed = (status != 0), so that a later success hides a failure.
WaitOverwritesFailed(t) ==
  /\ pc[t] = "wait"
  /\ \E r \in {"ok", "failed"} :
       /\ outcome' = [outcome EXCEPT ![index[t]] = r]
       /\ failed' = (r = "failed")
       /\ Goto(t, "check")
  /\ UNCHANGED <<opt, size, next, spawned, index, exit, late>>

\* The child ends and waitpid delivers its status; exec failure (127), death by
\* signal (128 + sig) and a failing waitpid all count as a failure.
Wait(t) ==
  /\ pc[t] = "wait"
  /\ \E r \in {"ok", "failed"} :
       /\ outcome' = [outcome EXCEPT ![index[t]] = r]
       /\ Goto(t, IF r = "ok" THEN "check" ELSE "store")
  /\ UNCHANGED <<opt, size, next, failed, spawned, index, exit, late>>

\* failed.store(true)
Store(t) ==
  /\ pc[t] = "store"
  /\ failed' = TRUE
  /\ Goto(t, "check")
  /\ UNCHANGED <<opt, size, next, spawned, index, outcome, exit, late>>

WorkerStep(t) ==
  \/ Check(t) \/ Claim(t) \/ Confirm(t) \/ Fork(t) \/ ForkFails(t)
  \/ Wait(t) \/ Store(t)

\* The process has ended; the model rests.
Ended == ~Running /\ UNCHANGED vars

Next ==
  \/ Spawn
  \/ SpawnFails
  \/ Return
  \/ \E t \in Worker : WorkerStep(t)
  \/ Ended

Spec == Init /\ [][Next]_vars

\* The scheduler runs every thread; commands may run for ever.
SchedulerFairness ==
  /\ WF_vars(Spawn)
  /\ WF_vars(Return)
  /\ \A t \in Worker :
       WF_vars(Check(t) \/ Claim(t) \/ Confirm(t) \/ Fork(t) \/ ForkFails(t)
               \/ Store(t))

\* In addition every command ends.
CommandFairness == \A t \in Worker : WF_vars(Wait(t))

SchedulerSpec == Spec /\ SchedulerFairness

-----------------------------------------------------------------------------
(* Properties.                                                             *)

\* Every variable keeps its range; in particular runBatches starts no more
\* threads than there are batches (the clamp that computes count).
TypeOK ==
  /\ opt \in Options
  /\ size \in 1 .. MaxBatches
  /\ next \in Nat
  /\ failed \in BOOLEAN
  /\ spawned \in 0 .. size
  /\ pc \in [Worker -> Locations]
  /\ index \in [Worker -> Nat]
  /\ outcome \in [Batches -> Outcomes]
  /\ exit \in {"none", "success", "failure", "aborted"}
  /\ late \in Nat

\* -e is checked before the claim, not atomically with the launch: workers that
\* passed the check may still launch after failed is set, one command each.  So
\* at most Count - 1 commands start late, and none when there is one thread.
BoundedOvershoot == opt.stopOnError => late <= Count - 1

\* The run as its user sees it: batches are taken in input order, each by one
\* worker and with one result, and the status returned is 1 exactly when some
\* command failed, 0 only when nothing is in flight and no batch was left out
\* except after a failure under -e.  The threads implement JobRun.
TakenBatches == {index[t] : t \in {u \in Worker : pc[u] \in Holding}}

Results == [b \in Batches |-> IF outcome[b] = "running" THEN "none"
                              ELSE outcome[b]]

Jobs == INSTANCE JobRun WITH
          njobs <- size, stop <- opt.stopOnError,
          todo <- {b \in Batches : b >= next}, active <- TakenBatches,
          result <- Results, verdict <- exit

ImplementsJobRun == Jobs!JSpec

\* When every command ends, parg ends.
Terminates == CommandFairness => <>~Running

\* A command that never ends holds up its own worker only: one worker whose
\* commands end is enough for every batch to be taken up (or a failure to stop
\* the run).
OneLiveWorkerSuffices ==
  \A t \in Worker :
    WF_vars(Wait(t)) =>
      <>(\/ t > Count
         \/ next >= size
         \/ opt.stopOnError /\ failed
         \/ ~Running)
=============================================================================
