----------------------------- MODULE PargProofs -----------------------------
(***************************************************************************)
(* Proofs about parg.  Its worker pool (Parg), for every number of threads *)
(* and batches: what holds of the threads at every moment, and that they   *)
(* implement JobRun.  What it runs (PargBatch), for every text, every -mx  *)
(* and every -L: that no token is lost, duplicated or cut on its way from  *)
(* the input to the batches, that batches have the size asked for, and     *)
(* that commands have their placeholders replaced.                         *)
(***************************************************************************)
EXTENDS Parg, PargBatch, Integers, TLAPS, SequenceTheorems, FiniteSetTheorems,
        WellFoundedInduction

-----------------------------------------------------------------------------
(* The pool.                                                               *)

\* What ties the workers' positions to the shared counter, the shared flag and
\* the batches' outcomes.  Inductive together with TypeOK.
Threads ==
  /\ \A t \in Worker : pc[t] = "unborn" <=> t > spawned
  /\ spawned <= Count
  /\ \A t \in Worker : pc[t] = "killed" => exit = "aborted"
  /\ exit # "none" => \A t \in Worker : pc[t] \in {"unborn", "done", "killed"}

Claims ==
  /\ \A t \in Worker : pc[t] \in Holding => index[t] < next /\ index[t] < size
  /\ \A t, u \in Worker :
       pc[t] \in Holding /\ pc[u] \in Holding /\ t # u => index[t] # index[u]

Effects ==
  /\ \A t \in Worker :
       /\ pc[t] \in {"confirm", "execute"} => outcome[index[t]] = "none"
       /\ pc[t] = "wait" => outcome[index[t]] = "running"
  /\ \A b \in Batches : b >= next => outcome[b] = "none"
  /\ exit # "aborted" =>
       \A b \in Batches : b < next /\ outcome[b] \in {"none", "running"} =>
         \E t \in Worker : pc[t] \in Holding /\ index[t] = b

Flag ==
  /\ failed => \E b \in Batches : outcome[b] = "failed"
  /\ exit # "aborted" =>
       \A b \in Batches : outcome[b] = "failed" =>
         failed \/ \E t \in Worker : pc[t] = "store"
  /\ \A t \in Worker : pc[t] = "store" =>
       \E b \in Batches : outcome[b] = "failed"
  /\ \A t \in Worker : pc[t] = "done" => next >= size \/ (opt.stopOnError /\ failed)

IInv == TypeOK /\ Threads /\ Claims /\ Effects /\ Flag

-----------------------------------------------------------------------------
LEMMA CountRange ==
  ASSUME TypeOK
  PROVE  Count \in 1 .. size /\ Count <= opt.threads /\ Count \in Worker
BY BoundsAssumption DEF TypeOK, Count, Smaller, Options, Worker

LEMMA InitIInv == Init => IInv
<1> SUFFICES ASSUME Init PROVE IInv
  OBVIOUS
<1>1. TypeOK
  <2>1. size \in Nat /\ 0 \in 0 .. size
    BY BoundsAssumption DEF Init
  <2>2. pc \in [Worker -> Locations] /\ index \in [Worker -> Nat]
    BY DEF Init, Locations
  <2>3. outcome \in [Batches -> Outcomes]
    BY DEF Init, Outcomes
  <2> QED
    BY <2>1, <2>2, <2>3 DEF Init, TypeOK
<1>2. Threads
  <2>1. Count >= 0 /\ Count \in Nat
    BY <1>1, CountRange DEF TypeOK
  <2> QED
    BY <2>1 DEF Init, Threads, Worker
<1>3. Claims /\ Effects /\ Flag
  BY DEF Init, Claims, Effects, Flag, Holding, Batches, Worker
<1> QED
  BY <1>1, <1>2, <1>3 DEF IInv

\* Every step keeps the variables in their ranges.
LEMMA TypeOKStep == IInv /\ [Next]_vars => TypeOK'
<1> SUFFICES ASSUME IInv, [Next]_vars PROVE TypeOK'
  OBVIOUS
<1> USE DEF IInv, TypeOK, Batches
<1>1. CASE Spawn
  <2>1. spawned + 1 \in Worker /\ spawned + 1 <= size
    BY <1>1, CountRange, BoundsAssumption DEF Spawn, Worker, Options
  <2> QED
    BY <1>1, <2>1 DEF Spawn, Goto, Locations
<1>2. CASE SpawnFails
  BY <1>2 DEF SpawnFails, Locations
<1>3. CASE Return
  BY <1>3 DEF Return
<1>4. ASSUME NEW t \in Worker, WorkerStep(t) PROVE TypeOK'
  <2>1. CASE Check(t)
    BY <2>1 DEF Check, Goto, Locations
  <2>2. CASE Claim(t)
    BY <2>2 DEF Claim, Goto, Locations
  <2>3. CASE Confirm(t)
    BY <2>3 DEF Confirm, Goto, Locations, Outcomes
  <2>4. CASE Fork(t)
    <3>1. late' \in Nat
      BY <2>4 DEF Fork
    <3>2. pc' \in [Worker -> Locations]
      BY <2>4 DEF Fork, Goto, Locations
    <3>3. outcome' \in [Batches -> Outcomes] /\ Batches' = Batches
      BY <2>4 DEF Fork, Outcomes
    <3> QED
      BY <2>4, <3>1, <3>2, <3>3 DEF Fork
  <2>5. CASE ForkFails(t)
    BY <2>5 DEF ForkFails, Goto, Locations, Outcomes
  <2>6. CASE Wait(t)
    BY <2>6 DEF Wait, Goto, Locations, Outcomes
  <2>7. CASE Store(t)
    BY <2>7 DEF Store, Goto, Locations
  <2> QED
    BY <1>4, <2>1, <2>2, <2>3, <2>4, <2>5, <2>6, <2>7 DEF WorkerStep
<1>5. CASE UNCHANGED vars
  BY <1>5 DEF vars
<1> QED
  BY <1>1, <1>2, <1>3, <1>4, <1>5 DEF Next, Ended

-----------------------------------------------------------------------------
\* Worker steps happen only while the process runs.
LEMMA ActiveMeansRunning ==
  ASSUME IInv, NEW t \in Worker, WorkerStep(t)
  PROVE  /\ exit = "none" /\ exit' = exit
         /\ t <= spawned /\ spawned' = spawned
         /\ size' = size /\ opt' = opt
         /\ pc[t] \notin {"unborn", "done", "killed"}
         /\ pc'[t] \notin {"unborn", "killed"}
         /\ \A u \in Worker \ {t} : pc'[u] = pc[u] /\ index'[u] = index[u]
<1>1. pc[t] \notin {"unborn", "done", "killed"}
  BY DEF WorkerStep, Check, Claim, Confirm, Fork, ForkFails, Wait, Store
<1>2. exit = "none"
  BY <1>1 DEF IInv, Threads
<1>3. t <= spawned
  BY <1>1 DEF IInv, Threads, TypeOK, Worker
<1>4. pc \in [Worker -> Locations] /\ index \in [Worker -> Nat]
  BY DEF IInv, TypeOK
<1>5. /\ exit' = exit /\ spawned' = spawned /\ size' = size /\ opt' = opt
      /\ index' = index \/ index' = [index EXCEPT ![t] = next]
      /\ \E l \in {"check", "claim", "confirm", "execute", "wait", "store", "done"} :
           pc' = [pc EXCEPT ![t] = l]
  BY DEF WorkerStep, Check, Claim, Confirm, Fork, ForkFails, Wait, Store, Goto
<1> QED
  BY <1>1, <1>2, <1>3, <1>4, <1>5

LEMMA ThreadsStep == IInv /\ [Next]_vars => Threads'
<1> SUFFICES ASSUME IInv, [Next]_vars PROVE Threads'
  OBVIOUS
<1> USE DEF IInv
<1>t. TypeOK /\ pc \in [Worker -> Locations] /\ spawned \in Nat /\ Count \in 1 .. size
  BY CountRange DEF TypeOK
<1>1. CASE Spawn
  <2>1. /\ spawned + 1 \in Worker
        /\ pc' = [pc EXCEPT ![spawned + 1] = "check"]
        /\ spawned' = spawned + 1
        /\ exit = "none" /\ exit' = "none" /\ Count' = Count
    BY <1>1, <1>t, CountRange, BoundsAssumption
       DEF Spawn, Goto, Worker, TypeOK, Options, Running, Count
  <2>2. \A t \in Worker : pc'[t] = "unborn" <=> t > spawned + 1
    BY <2>1, <1>t DEF Threads, Worker
  <2> QED
    BY <1>1, <2>1, <2>2, <1>t DEF Threads, Spawn
<1>2. CASE SpawnFails
  BY <1>2, <1>t DEF SpawnFails, Threads, Count
<1>3. CASE Return
  <2>1. \A t \in Worker : pc[t] \in {"unborn", "done"}
    BY <1>3, <1>t DEF Return, Threads, Worker
  <2> QED
    BY <1>3, <2>1 DEF Return, Threads, Count
<1>4. ASSUME NEW t \in Worker, WorkerStep(t) PROVE Threads'
  <2>1. Count' = Count
    BY <1>4, ActiveMeansRunning DEF Count
  <2> QED
    BY <1>4, <1>t, <2>1, ActiveMeansRunning DEF Threads, Worker
<1>5. CASE UNCHANGED vars
  BY <1>5 DEF vars, Threads, Count
<1> QED
  BY <1>1, <1>2, <1>3, <1>4, <1>5 DEF Next, Ended

LEMMA ClaimsStep == IInv /\ [Next]_vars => Claims'
<1> SUFFICES ASSUME IInv, [Next]_vars PROVE Claims'
  OBVIOUS
<1> USE DEF IInv, Holding
<1>t. /\ pc \in [Worker -> Locations] /\ index \in [Worker -> Nat]
      /\ next \in Nat /\ size \in Nat /\ spawned \in Nat
  BY DEF TypeOK
<1>1. CASE Spawn
  <2>1. pc' = [pc EXCEPT ![spawned + 1] = "check"]
    BY <1>1 DEF Spawn, Goto
  <2> QED
    BY <1>1, <1>t, <2>1 DEF Spawn, Claims
<1>2. CASE SpawnFails
  BY <1>2, <1>t DEF SpawnFails, Claims
<1>3. CASE Return
  BY <1>3 DEF Return, Claims
<1>4. ASSUME NEW t \in Worker, WorkerStep(t) PROVE Claims'
  <2>1. CASE Claim(t)
    <3>1. \A u \in Worker \ {t} : pc[u] \in Holding => index[u] < next
      BY DEF Claims
    <3>2. /\ next' = next + 1 /\ index' = [index EXCEPT ![t] = next] /\ size' = size
          /\ pc'[t] \in Holding => next < size
      BY <2>1, <1>t DEF Claim, Goto
    <3> QED
      BY <3>1, <3>2, <1>4, <1>t, ActiveMeansRunning DEF Claims
  <2>2. CASE ~Claim(t)
    <3>1. /\ next' = next /\ index' = index /\ size' = size
          /\ pc'[t] \in Holding => pc[t] \in Holding
      BY <1>4, <2>2, <1>t
         DEF WorkerStep, Check, Confirm, Fork, ForkFails, Wait, Store, Goto
    <3> QED
      BY <3>1, <1>4, <1>t, ActiveMeansRunning DEF Claims
  <2> QED
    BY <2>1, <2>2
<1>5. CASE UNCHANGED vars
  BY <1>5 DEF vars, Claims
<1> QED
  BY <1>1, <1>2, <1>3, <1>4, <1>5 DEF Next, Ended

LEMMA EffectsStep == IInv /\ [Next]_vars => Effects'
<1> SUFFICES ASSUME IInv, [Next]_vars PROVE Effects'
  OBVIOUS
<1> USE DEF IInv, Holding
<1>t. /\ pc \in [Worker -> Locations] /\ index \in [Worker -> Nat]
      /\ next \in Nat /\ size \in Nat /\ spawned \in Nat
      /\ outcome \in [Batches -> Outcomes]
  BY DEF TypeOK
<1>1. CASE Spawn
  <2>1. pc' = [pc EXCEPT ![spawned + 1] = "check"]
    BY <1>1 DEF Spawn, Goto
  <2>2. spawned + 1 \in Worker => pc[spawned + 1] = "unborn"
    BY <1>t DEF Threads
  <2> QED
    BY <1>1, <1>t, <2>1, <2>2 DEF Spawn, Effects, Batches
<1>2. CASE SpawnFails
  BY <1>2, <1>t DEF SpawnFails, Effects, Batches
<1>3. CASE Return
  <2>1. exit = "none" /\ UNCHANGED <<size, next, pc, index, outcome>>
    BY <1>3 DEF Return, Running
  <2> QED
    BY <2>1 DEF Effects, Batches
<1>4. ASSUME NEW t \in Worker, WorkerStep(t) PROVE Effects'
  <2>0. /\ Batches' = Batches /\ exit = "none" /\ exit' = "none"
        /\ \A u \in Worker \ {t} : pc'[u] = pc[u] /\ index'[u] = index[u]
    BY <1>4, ActiveMeansRunning DEF Batches
  <2>1. CASE Check(t) \/ Store(t)
    <3>1. /\ UNCHANGED <<next, index, outcome>>
          /\ pc[t] \notin Holding /\ pc'[t] \notin Holding
      BY <2>1, <1>t DEF Check, Store, Goto
    <3> QED
      BY <2>0, <3>1, <1>t DEF Effects
  <2>2. CASE Claim(t)
    <3>1. /\ next' = next + 1 /\ outcome' = outcome
          /\ index' = [index EXCEPT ![t] = next]
          /\ pc[t] = "claim"
          /\ pc'[t] \in {"confirm", "execute", "done"}
          /\ next < size => pc'[t] \in {"confirm", "execute"}
          /\ next >= size => pc'[t] = "done"
      BY <2>2, <1>t DEF Claim, Goto
    <3>2. next < size => outcome[next] = "none"
      BY <1>t DEF Effects, Batches
    <3>3. \A u \in Worker :
            /\ pc'[u] \in {"confirm", "execute"} => outcome'[index'[u]] = "none"
            /\ pc'[u] = "wait" => outcome'[index'[u]] = "running"
      BY <2>0, <3>1, <3>2, <1>t DEF Effects
    <3>4. \A b \in Batches : b >= next' => outcome'[b] = "none"
      BY <3>1, <1>t DEF Effects, Batches
    <3>5. ASSUME NEW b \in Batches, b < next', outcome'[b] \in {"none", "running"}
          PROVE  \E u \in Worker : pc'[u] \in Holding /\ index'[u] = b
      <4>1. CASE b = next
        BY <4>1, <3>1, <1>t DEF Batches
      <4>2. CASE b # next
        <5>1. PICK u \in Worker : pc[u] \in Holding /\ index[u] = b
          BY <4>2, <3>5, <3>1, <2>0, <1>t DEF Effects, Batches
        <5> QED
          BY <5>1, <3>1, <2>0
      <4> QED
        BY <4>1, <4>2
    <3> QED
      BY <2>0, <3>3, <3>4, <3>5 DEF Effects
  <2>3. CASE Confirm(t) \/ Fork(t) \/ ForkFails(t) \/ Wait(t)
    <3>1. /\ UNCHANGED <<next, index>>
          /\ pc[t] \in Holding
          /\ \E r \in Outcomes : outcome' = [outcome EXCEPT ![index[t]] = r]
      BY <2>3, <1>t
         DEF Confirm, Fork, ForkFails, Wait, Effects, Outcomes
    <3>2. index[t] \in Batches /\ index[t] < next
      BY <3>1, <1>t DEF Claims, Batches
    <3>3. \/ pc'[t] = "execute" /\ outcome'[index[t]] = "none"
          \/ pc'[t] = "wait" /\ outcome'[index[t]] = "running"
          \/ pc'[t] \notin Holding /\ outcome'[index[t]] \notin {"none", "running"}
      BY <2>3, <3>2, <1>t DEF Confirm, Fork, ForkFails, Wait, Goto, Effects
    <3>4. \A u \in Worker \ {t} : pc[u] \in Holding => index[u] # index[t]
      BY <3>1 DEF Claims
    <3>5. \A u \in Worker :
            /\ pc'[u] \in {"confirm", "execute"} => outcome'[index'[u]] = "none"
            /\ pc'[u] = "wait" => outcome'[index'[u]] = "running"
      <4> TAKE u \in Worker
      <4>1. CASE u = t
        BY <4>1, <3>1, <3>3
      <4>2. CASE u # t
        <5>1. pc'[u] = pc[u] /\ index'[u] = index[u]
          BY <4>2, <2>0
        <5>2. pc[u] \in Holding => index[u] # index[t] /\ index[u] \in Batches
          BY <4>2, <3>4, <1>t DEF Claims, Batches
        <5>3. pc[u] \in Holding => outcome'[index[u]] = outcome[index[u]]
          BY <5>2, <3>1, <1>t
        <5> QED
          BY <5>1, <5>3 DEF Effects
      <4> QED
        BY <4>1, <4>2
    <3>6. \A b \in Batches : b >= next' => outcome'[b] = "none"
      <4> TAKE b \in Batches
      <4>1. b >= next => b # index[t]
        BY <3>2, <1>t DEF Batches
      <4> QED
        BY <4>1, <3>1, <1>t DEF Effects
    <3>7. ASSUME NEW b \in Batches, b < next', outcome'[b] \in {"none", "running"}
          PROVE  \E u \in Worker : pc'[u] \in Holding /\ index'[u] = b
      <4>1. CASE b = index[t]
        BY <4>1, <3>1, <3>3, <3>7
      <4>2. CASE b # index[t]
        <5>1. PICK u \in Worker : pc[u] \in Holding /\ index[u] = b
          BY <4>2, <3>7, <3>1, <2>0, <1>t DEF Effects
        <5> QED
          BY <5>1, <4>2, <3>1, <2>0
      <4> QED
        BY <4>1, <4>2
    <3> QED
      BY <2>0, <3>5, <3>6, <3>7 DEF Effects
  <2> QED
    BY <1>4, <2>1, <2>2, <2>3 DEF WorkerStep
<1>5. CASE UNCHANGED vars
  BY <1>5 DEF vars, Effects, Batches
<1> QED
  BY <1>1, <1>2, <1>3, <1>4, <1>5 DEF Next, Ended

LEMMA FlagStep == IInv /\ [Next]_vars => Flag'
<1> SUFFICES ASSUME IInv, [Next]_vars PROVE Flag'
  OBVIOUS
<1> USE DEF IInv
<1>t. /\ pc \in [Worker -> Locations] /\ index \in [Worker -> Nat]
      /\ next \in Nat /\ size \in Nat /\ spawned \in Nat
      /\ outcome \in [Batches -> Outcomes]
  BY DEF TypeOK
<1>1. CASE Spawn
  <2>1. pc' = [pc EXCEPT ![spawned + 1] = "check"]
    BY <1>1 DEF Spawn, Goto
  <2>2. spawned + 1 \in Worker => pc[spawned + 1] = "unborn"
    BY <1>t DEF Threads
  <2> QED
    BY <1>1, <1>t, <2>1, <2>2 DEF Spawn, Flag, Batches
<1>2. CASE SpawnFails
  BY <1>2, <1>t DEF SpawnFails, Flag, Batches
<1>3. CASE Return
  <2>1. exit = "none" /\ UNCHANGED <<opt, size, next, failed, pc, outcome>>
    BY <1>3 DEF Return, Running
  <2> QED
    BY <2>1 DEF Flag, Batches
<1>4. ASSUME NEW t \in Worker, WorkerStep(t) PROVE Flag'
  <2>0. /\ Batches' = Batches /\ exit = "none" /\ exit' = "none"
        /\ opt' = opt /\ size' = size
        /\ \A u \in Worker \ {t} : pc'[u] = pc[u] /\ index'[u] = index[u]
    BY <1>4, ActiveMeansRunning DEF Batches
  <2>1. CASE Check(t) \/ Claim(t)
    <3>1. /\ UNCHANGED <<failed, outcome>>
          /\ next' >= next /\ next' \in Nat
          /\ pc[t] # "store"
          /\ pc'[t] = "done" => next' >= size \/ (opt.stopOnError /\ failed)
          /\ pc'[t] # "store"
      BY <2>1, <1>t DEF Check, Claim, Goto
    <3>2. failed' => \E b \in Batches' : outcome'[b] = "failed"
      BY <2>0, <3>1 DEF Flag
    <3>3. \A b \in Batches' : outcome'[b] = "failed" =>
            failed' \/ \E u \in Worker : pc'[u] = "store"
      BY <2>0, <3>1 DEF Flag
    <3>4. \A u \in Worker : pc'[u] = "store" =>
            \E b \in Batches' : outcome'[b] = "failed"
      BY <2>0, <3>1 DEF Flag
    <3>5. \A u \in Worker : pc'[u] = "done" =>
            next' >= size' \/ (opt'.stopOnError /\ failed')
      BY <2>0, <3>1, <1>t DEF Flag
    <3> QED
      BY <3>2, <3>3, <3>4, <3>5 DEF Flag
  <2>2. CASE Store(t)
    <3>1. /\ failed' /\ UNCHANGED <<next, outcome, index>>
          /\ pc[t] = "store" /\ pc'[t] = "check"
      BY <2>2, <1>t DEF Store, Goto
    <3>2. \E b \in Batches : outcome[b] = "failed"
      BY <3>1 DEF Flag
    <3> QED
      BY <2>0, <3>1, <3>2 DEF Flag
  <2>3. CASE Confirm(t) \/ Fork(t) \/ ForkFails(t) \/ Wait(t)
    <3>1. /\ UNCHANGED <<next, index, failed>>
          /\ pc[t] \in Holding
          /\ \E r \in Outcomes : outcome' = [outcome EXCEPT ![index[t]] = r]
          /\ pc'[t] # "done"
      BY <2>3, <1>t
         DEF Confirm, Fork, ForkFails, Wait, Goto, Holding, Effects, Outcomes
    <3>2. index[t] \in Batches
      BY <3>1, <1>t DEF Claims, Batches
    <3>3. outcome'[index[t]] = "failed" => pc'[t] = "store"
      BY <2>3, <3>2, <1>t DEF Confirm, Fork, ForkFails, Wait, Goto, Effects
    <3>4. outcome[index[t]] # "failed"
      BY <3>1 DEF Effects, Holding
    <3>5. pc[t] # "store"
      BY <3>1 DEF Holding
    <3>6. \A b \in Batches : b # index[t] => outcome'[b] = outcome[b]
      BY <3>1, <1>t
    <3>7. pc'[t] = "store" => outcome'[index[t]] = "failed"
      BY <2>3, <3>2, <1>t DEF Confirm, Fork, ForkFails, Wait, Goto
    <3>8. failed' => \E b \in Batches' : outcome'[b] = "failed"
      BY <2>0, <3>1, <3>4, <3>6 DEF Flag
    <3>9. \A b \in Batches' : outcome'[b] = "failed" =>
            failed' \/ \E u \in Worker : pc'[u] = "store"
      BY <2>0, <3>1, <3>2, <3>3, <3>5, <3>6 DEF Flag
    <3>10. \A u \in Worker : pc'[u] = "store" =>
             \E b \in Batches' : outcome'[b] = "failed"
      BY <2>0, <3>1, <3>2, <3>4, <3>6, <3>7 DEF Flag
    <3>11. \A u \in Worker : pc'[u] = "done" =>
             next' >= size' \/ (opt'.stopOnError /\ failed')
      BY <2>0, <3>1 DEF Flag
    <3> QED
      BY <3>8, <3>9, <3>10, <3>11 DEF Flag
  <2> QED
    BY <1>4, <2>1, <2>2, <2>3 DEF WorkerStep
<1>5. CASE UNCHANGED vars
  BY <1>5 DEF vars, Flag, Batches
<1> QED
  BY <1>1, <1>2, <1>3, <1>4, <1>5 DEF Next, Ended

-----------------------------------------------------------------------------
LEMMA Invariance == Spec => []IInv
<1>1. IInv /\ [Next]_vars => IInv'
  BY TypeOKStep, ThreadsStep, ClaimsStep, EffectsStep, FlagStep DEF IInv
<1> QED
  BY InitIInv, <1>1, PTL DEF Spec

\* The variables of parg's pool stay in their ranges, and no more threads are
\* started than there are batches, for every -T and every input.
THEOREM TypeCorrect == Spec => []TypeOK
<1>1. IInv => TypeOK
  BY DEF IInv
<1> QED
  BY <1>1, Invariance, PTL

\* Two lemmas on the refinement mapping: what a step that keeps a variable of the
\* implementation keeps of the abstract state.
LEMMA MapUnchanged ==
  ASSUME UNCHANGED <<opt, size, next, outcome, exit>>, TakenBatches' = TakenBatches
  PROVE  UNCHANGED Jobs!jvars
<1>1. Batches' = Batches
  BY DEF Batches
<1>2. Results' = Results
  BY <1>1 DEF Results
<1>3. {b \in Batches : b >= next}' = {b \in Batches : b >= next}
  BY <1>1
<1> QED
  BY <1>2, <1>3 DEF Jobs!jvars

\* Claiming a batch takes the first job of the list; claiming past the end
\* changes nothing the user sees.
LEMMA ClaimRefines ==
  ASSUME IInv, NEW t \in Worker, Claim(t)
  PROVE  [Jobs!JNext]_(Jobs!jvars)
<1> USE DEF IInv
<1>t. /\ pc \in [Worker -> Locations] /\ index \in [Worker -> Nat]
      /\ next \in Nat /\ size \in Nat
  BY DEF TypeOK
<1>1. /\ pc[t] = "claim" /\ next' = next + 1
      /\ index' = [index EXCEPT ![t] = next]
      /\ UNCHANGED <<opt, size, outcome, exit>>
      /\ next < size => pc'[t] \in Holding
      /\ next >= size => pc'[t] \notin Holding
      /\ \A u \in Worker \ {t} : pc'[u] = pc[u] /\ index'[u] = index[u]
  BY <1>t DEF Claim, Goto, Holding
<1>2. exit = "none" /\ Batches' = Batches /\ pc[t] \notin Holding
  BY <1>1 DEF Threads, Batches, Holding
<1>3. Results' = Results
  BY <1>1, <1>2 DEF Results
<1>4. CASE next < size
  <2>1. TakenBatches' = TakenBatches \cup {next}
    BY <1>1, <1>2, <1>4, <1>t DEF TakenBatches
  <2>2. next \in Batches
    BY <1>4, <1>t DEF Batches
  <2> DEFINE T == {b \in Batches : b >= next}
  <2>3. T' = T \ {next} /\ next \in T /\ \A c \in T : next <= c
    BY <1>1, <1>2, <2>2, <1>t DEF Batches
  <2>4. PICK b \in T : b = next
    BY <2>3
  <2>5. Jobs!Take(b)
    BY <1>1, <1>2, <1>3, <2>1, <2>3, <2>4 DEF Jobs!Take
  <2> QED
    BY <2>4, <2>5 DEF Jobs!JNext
<1>5. CASE next >= size
  <2>1. TakenBatches' = TakenBatches
    BY <1>1, <1>2, <1>5 DEF TakenBatches
  <2>2. {b \in Batches : b >= next}' = {} /\ {b \in Batches : b >= next} = {}
    BY <1>1, <1>2, <1>5, <1>t DEF Batches
  <2>3. UNCHANGED Jobs!jvars
    BY <1>1, <1>3, <2>1, <2>2 DEF Jobs!jvars
  <2> QED
    BY <2>3
<1> QED
  BY <1>4, <1>5, <1>t

\* A batch gets its result: it is declined, cannot be started, or its command
\* ends.  Starting the command is invisible.
LEMMA ConcludeRefines ==
  ASSUME IInv, NEW t \in Worker,
         Confirm(t) \/ Fork(t) \/ ForkFails(t) \/ Wait(t)
  PROVE  [Jobs!JNext]_(Jobs!jvars)
<1> USE DEF IInv
<1>t. /\ pc \in [Worker -> Locations] /\ index \in [Worker -> Nat]
      /\ next \in Nat /\ size \in Nat /\ outcome \in [Batches -> Outcomes]
  BY DEF TypeOK
<1> DEFINE b == index[t]
<1>1. /\ UNCHANGED <<opt, size, next, index, exit>>
      /\ pc[t] \in Holding
      /\ \A u \in Worker \ {t} : pc'[u] = pc[u]
  BY <1>t DEF Confirm, Fork, ForkFails, Wait, Goto, Holding
<1>2. /\ exit = "none" /\ Batches' = Batches
      /\ b \in Batches /\ b \in TakenBatches
      /\ \A u \in Worker \ {t} : pc[u] \in Holding => index[u] # b
  BY <1>1, <1>t DEF Threads, Claims, Batches, TakenBatches, Holding
<1>3. outcome[b] \in {"none", "running"}
  BY <1>1 DEF Effects, Holding
<1>4. \/ pc'[t] \in Holding /\ outcome' = outcome
      \/ pc'[t] \in Holding /\ outcome' = [outcome EXCEPT ![b] = "running"]
      \/ pc'[t] \notin Holding
         /\ \E r \in {"ok", "failed", "declined"} : outcome' = [outcome EXCEPT ![b] = r]
  BY <1>t DEF Confirm, Fork, ForkFails, Wait, Goto, Holding
<1>5. CASE pc'[t] \in Holding
  <2>1. TakenBatches' = TakenBatches
    BY <1>1, <1>5 DEF TakenBatches
  <2>2. outcome' = outcome \/ outcome' = [outcome EXCEPT ![b] = "running"]
    BY <1>4, <1>5
  <2>3. Results' = Results
    BY <2>2, <1>2, <1>3, <1>t DEF Results
  <2>4. {c \in Batches : c >= next}' = {c \in Batches : c >= next}
    BY <1>1, <1>2
  <2> QED
    BY <1>1, <2>1, <2>3, <2>4 DEF Jobs!jvars
<1>6. CASE pc'[t] \notin Holding
  <2>1. PICK r \in {"ok", "failed", "declined"} : outcome' = [outcome EXCEPT ![b] = r]
    BY <1>4, <1>6
  <2>2. TakenBatches' = TakenBatches \ {b}
    BY <1>1, <1>2, <1>6 DEF TakenBatches
  <2>3. Results' = [Results EXCEPT ![b] = r] /\ Results[b] = "none"
    BY <2>1, <1>2, <1>3, <1>t DEF Results
  <2>4. {c \in Batches : c >= next}' = {c \in Batches : c >= next}
    BY <1>1, <1>2
  <2>5. Jobs!Conclude(b, r)
    BY <1>1, <1>2, <2>2, <2>3, <2>4 DEF Jobs!Conclude
  <2>6. r \in Jobs!Results \ {"none"}
    BY DEF Jobs!Results
  <2> QED
    BY <1>2, <2>5, <2>6 DEF Jobs!JNext
<1> QED
  BY <1>5, <1>6

\* main() reports when all its threads are joined.
LEMMA ReturnRefines ==
  ASSUME IInv, Return
  PROVE  [Jobs!JNext]_(Jobs!jvars)
<1> USE DEF IInv
<1>t. next \in Nat /\ size \in Nat /\ outcome \in [Batches -> Outcomes]
  BY DEF TypeOK
<1>1. \A t \in Worker : pc[t] \in {"unborn", "done"}
  BY DEF Return, Threads, Worker, TypeOK
<1>2. TakenBatches = {} /\ TakenBatches' = {}
  BY <1>1 DEF TakenBatches, Holding, Return
<1>3. failed <=> \E b \in Batches : outcome[b] = "failed"
  BY <1>1 DEF Flag, Return, Running
<1>4. Jobs!SomeFailed <=> failed
  BY <1>3 DEF Jobs!SomeFailed, Results
<1>5. next >= size \/ (opt.stopOnError /\ failed)
  <2>1. pc[1] = "done" /\ 1 \in Worker
    BY CountRange, BoundsAssumption DEF Return, Worker, TypeOK
  <2> QED
    BY <2>1 DEF Flag
<1>6. next >= size => {b \in Batches : b >= next} = {}
  BY <1>t DEF Batches
<1>7. UNCHANGED <<size, opt, next, outcome>> /\ exit = "none"
      /\ exit' = IF failed THEN "failure" ELSE "success"
  BY DEF Return, Running
<1>8. Results' = Results /\ {b \in Batches : b >= next}' = {b \in Batches : b >= next}
  BY <1>7 DEF Results, Batches
<1>9. Jobs!Report
  BY <1>2, <1>4, <1>5, <1>6, <1>7, <1>8 DEF Jobs!Report
<1> QED
  BY <1>9 DEF Jobs!JNext

LEMMA MappedStep == IInv /\ [Next]_vars => [Jobs!JNext]_(Jobs!jvars)
<1> SUFFICES ASSUME IInv, [Next]_vars PROVE [Jobs!JNext]_(Jobs!jvars)
  OBVIOUS
<1>t. pc \in [Worker -> Locations] /\ spawned \in Nat
  BY DEF IInv, TypeOK
<1>1. CASE Spawn
  <2>1. spawned + 1 \in Worker => pc[spawned + 1] = "unborn"
    BY <1>t DEF IInv, Threads
  <2>2. TakenBatches' = TakenBatches
    BY <1>1, <1>t, <2>1 DEF Spawn, Goto, TakenBatches, Holding
  <2> QED
    BY <1>1, <2>2, MapUnchanged DEF Spawn
<1>2. CASE SpawnFails
  <2>1. TakenBatches' = {}
    BY <1>2, <1>t DEF SpawnFails, TakenBatches, Holding
  <2>2. UNCHANGED <<opt, size, next, outcome>> /\ exit = "none" /\ exit' = "aborted"
    BY <1>2 DEF SpawnFails, Running
  <2>3. Results' = Results /\ {b \in Batches : b >= next}' = {b \in Batches : b >= next}
    BY <2>2 DEF Results, Batches
  <2>4. Jobs!Abort
    BY <2>1, <2>2, <2>3 DEF Jobs!Abort
  <2> QED
    BY <2>4 DEF Jobs!JNext
<1>3. CASE Return
  BY <1>3, ReturnRefines
<1>4. ASSUME NEW t \in Worker, WorkerStep(t) PROVE [Jobs!JNext]_(Jobs!jvars)
  <2>1. CASE Check(t) \/ Store(t)
    <3>1. TakenBatches' = TakenBatches /\ UNCHANGED <<opt, size, next, outcome, exit>>
      BY <2>1, <1>t DEF Check, Store, Goto, TakenBatches, Holding
    <3> QED
      BY <3>1, MapUnchanged
  <2>2. CASE Claim(t)
    BY <2>2, ClaimRefines
  <2>3. CASE Confirm(t) \/ Fork(t) \/ ForkFails(t) \/ Wait(t)
    BY <2>3, ConcludeRefines
  <2> QED
    BY <1>4, <2>1, <2>2, <2>3 DEF WorkerStep
<1>5. CASE UNCHANGED vars
  <2>1. TakenBatches' = TakenBatches
    BY <1>5 DEF vars, TakenBatches
  <2> QED
    BY <1>5, <2>1, MapUnchanged DEF vars
<1> QED
  BY <1>1, <1>2, <1>3, <1>4, <1>5 DEF Next, Ended

\* The pool implements the abstract run: whatever the number of threads and
\* batches and however they interleave, no batch is run twice, none is left out
\* without a failure under -e, and the status tells whether a command failed.
THEOREM PoolImplementsJobRun == Spec => ImplementsJobRun
<1>1. Init => Jobs!JInit
  <2> SUFFICES ASSUME Init PROVE Jobs!JInit
    OBVIOUS
  <2>1. size \in Nat \ {0} /\ opt.stopOnError \in BOOLEAN /\ size - 1 \in Nat
    BY BoundsAssumption DEF Init, Options
  <2>2. {b \in Batches : b >= next} = 0 .. (size - 1)
    BY <2>1 DEF Init, Batches
  <2>3. TakenBatches = {}
    BY DEF Init, TakenBatches, Holding
  <2>4. Results = [b \in 0 .. (size - 1) |-> "none"]
    BY DEF Init, Results, Batches
  <2> QED
    BY <2>1, <2>2, <2>3, <2>4 DEF Init, Jobs!JInit
<1>2. IInv /\ IInv' /\ [Next]_vars => [Jobs!JNext]_(Jobs!jvars)
  BY MappedStep
<1> QED
  BY <1>1, <1>2, Invariance, PTL DEF Spec, ImplementsJobRun, Jobs!JSpec

-----------------------------------------------------------------------------
\* Workers past the check of -e that have not launched their command yet.
Admitted == {t \in Worker : pc[t] \in {"claim", "confirm", "execute"}}

\* The bound on late launches, strengthened by the launches still to come.
OvershootInv ==
  opt.stopOnError =>
    /\ ~failed => late = 0
    /\ failed => late + Cardinality(Admitted) <= Count - 1

LEMMA AdmittedFinite ==
  IsFiniteSet(Admitted) /\ Cardinality(Admitted) \in Nat
<1>1. IsFiniteSet(Worker)
  BY FS_Interval, BoundsAssumption DEF Worker
<1> QED
  BY <1>1, FS_Subset, FS_CardinalityType DEF Admitted

LEMMA OvershootStep ==
  ASSUME IInv, OvershootInv, [Next]_vars
  PROVE  OvershootInv'
<1> USE DEF IInv
<1>t. /\ pc \in [Worker -> Locations] /\ late \in Nat /\ failed \in BOOLEAN
      /\ Count \in Nat /\ spawned \in Nat /\ size \in Nat
  BY CountRange DEF TypeOK
<1>c. opt' = opt /\ Count' = Count
  BY DEF Next, Ended, WorkerStep, Spawn, SpawnFails, Return, Check, Claim, Confirm,
         Fork, ForkFails, Wait, Store, vars, Count
<1>f. IsFiniteSet(Admitted) /\ Cardinality(Admitted) \in Nat
  BY AdmittedFinite
<1>1. ASSUME Admitted' \subseteq Admitted, failed' = failed, late' = late
      PROVE  OvershootInv'
  <2>1. Cardinality(Admitted') <= Cardinality(Admitted) /\ Cardinality(Admitted') \in Nat
    BY <1>1, <1>f, FS_Subset, FS_CardinalityType
  <2> QED
    BY <1>1, <1>c, <1>t, <1>f, <2>1 DEF OvershootInv
<1>2. CASE Spawn \/ SpawnFails \/ Return \/ UNCHANGED vars
  <2>1. Admitted' \subseteq Admitted
    BY <1>2, <1>t DEF Spawn, SpawnFails, Return, vars, Goto, Admitted
  <2> QED
    BY <1>1, <1>2, <2>1 DEF Spawn, SpawnFails, Return, vars
<1>3. ASSUME NEW t \in Worker, WorkerStep(t) PROVE OvershootInv'
  <2>1. CASE Claim(t) \/ Confirm(t) \/ ForkFails(t) \/ Wait(t)
    <3>1. Admitted' \subseteq Admitted
      BY <2>1, <1>t DEF Claim, Confirm, ForkFails, Wait, Goto, Admitted
    <3> QED
      BY <1>1, <2>1, <3>1 DEF Claim, Confirm, ForkFails, Wait
  <2>2. CASE Check(t)
    <3>1. CASE opt.stopOnError /\ failed
      <4>1. Admitted' \subseteq Admitted
        BY <2>2, <3>1, <1>t DEF Check, Goto, Admitted
      <4> QED
        BY <1>1, <2>2, <4>1 DEF Check
    <3>2. CASE ~(opt.stopOnError /\ failed)
      BY <2>2, <3>2, <1>c DEF Check, OvershootInv
    <3> QED
      BY <3>1, <3>2
  <2>3. CASE Fork(t)
    <3>1. t \in Admitted /\ Admitted' = Admitted \ {t}
      BY <2>3, <1>t DEF Fork, Goto, Admitted
    <3>2. Cardinality(Admitted') = Cardinality(Admitted) - 1
      BY <3>1, <1>f, FS_RemoveElement
    <3>3. failed' = failed /\ late' = IF failed THEN late + 1 ELSE late
      BY <2>3 DEF Fork
    <3> QED
      BY <3>2, <3>3, <1>c, <1>t, <1>f DEF OvershootInv
  <2>4. CASE Store(t)
    <3>1. late' = late /\ failed' /\ pc' = [pc EXCEPT ![t] = "check"] /\ pc[t] = "store"
      BY <2>4 DEF Store, Goto
    <3>2. CASE failed
      <4>1. Admitted' \subseteq Admitted
        BY <3>1, <1>t DEF Admitted
      <4> QED
        BY <1>1, <3>1, <3>2, <4>1, <1>t
    <3>3. CASE ~failed
      <4>1. t \in 1 .. Count
        BY <3>1, <1>t DEF Threads, Worker
      <4>2. Admitted' \subseteq (1 .. Count) \ {t}
        BY <3>1, <1>t DEF Admitted, Threads, Worker
      <4>3. IsFiniteSet(1 .. Count) /\ Cardinality(1 .. Count) = Count
        BY <1>t, FS_Interval
      <4>4. /\ IsFiniteSet((1 .. Count) \ {t})
            /\ Cardinality((1 .. Count) \ {t}) = Count - 1
        BY <4>1, <4>3, FS_RemoveElement
      <4>5. /\ IsFiniteSet(Admitted')
            /\ Cardinality(Admitted') <= Cardinality((1 .. Count) \ {t})
        BY <4>2, <4>4, FS_Subset
      <4>6. Cardinality(Admitted') <= Count - 1 /\ Cardinality(Admitted') \in Nat
        BY <4>4, <4>5, FS_CardinalityType
      <4> QED
        BY <3>1, <3>3, <4>6, <1>c, <1>t DEF OvershootInv
    <3> QED
      BY <3>2, <3>3
  <2> QED
    BY <1>3, <2>1, <2>2, <2>3, <2>4 DEF WorkerStep
<1> QED
  BY <1>2, <1>3 DEF Next, Ended

\* Under -e at most Count - 1 commands are launched after a failure has been
\* recorded, whatever the number of threads: none at all with one thread.
THEOREM OvershootBounded == Spec => []BoundedOvershoot
<1>1. Init => OvershootInv
  BY DEF Init, OvershootInv
<1>2. IInv /\ OvershootInv /\ [Next]_vars => OvershootInv'
  BY OvershootStep
<1>3. IInv /\ OvershootInv => BoundedOvershoot
  <2> SUFFICES ASSUME IInv, OvershootInv PROVE BoundedOvershoot
    OBVIOUS
  <2>1. Count \in Nat /\ Count >= 1 /\ late \in Nat /\ failed \in BOOLEAN
    BY CountRange DEF IInv, TypeOK
  <2> QED
    BY <2>1, AdmittedFinite DEF OvershootInv, BoundedOvershoot
<1> QED
  BY <1>1, <1>2, <1>3, Invariance, PTL DEF Spec

-----------------------------------------------------------------------------
(* Induction over sets of numbers, and functions defined by recursion.     *)

LEMMA NatSetInduction ==
  ASSUME NEW S, 0 \in S, \A k \in Nat : k \in S => k + 1 \in S
  PROVE  \A k \in Nat : k \in S
<1> DEFINE T == Nat \ S
<1>1. SUFFICES ASSUME T # {}
               PROVE  FALSE
  OBVIOUS
<1>2. PICK n \in T : \A m \in T : ~ (<<m, n>> \in OpToRel(<, Nat))
  BY <1>1, WFMin, NatLessThanWellFounded
<1>3. \A m \in T : ~ (m < n)
  BY <1>2 DEF OpToRel
<1>4. n # 0 /\ n - 1 \in Nat
  OBVIOUS
<1>5. n - 1 \in S
  BY <1>3, <1>4
<1>6. n - 1 + 1 = n
  BY <1>4
<1> QED
  BY <1>4, <1>5, <1>6

\* From the first number of an interval to the last.
Inductive(S, m, last) ==
  /\ m \in Nat /\ last \in Nat /\ m \in S
  /\ \A n \in m .. last - 1 : n \in S => n + 1 \in S

LEMMA RangeInduction ==
  ASSUME NEW S, NEW m, NEW last, Inductive(S, m, last)
  PROVE  \A n \in m .. last : n \in S
<1> USE DEF Inductive
<1> DEFINE R == {k \in Nat : m + k <= last => m + k \in S}
<1>1. 0 \in R
  OBVIOUS
<1>2. ASSUME NEW k \in Nat, k \in R
      PROVE  k + 1 \in R
  <2>1. SUFFICES ASSUME m + (k + 1) <= last
                 PROVE  m + (k + 1) \in S
    OBVIOUS
  <2>2. PICK n : n = m + k
    OBVIOUS
  <2>3. n \in m .. last - 1 /\ n \in S /\ m + (k + 1) = n + 1
    BY <1>2, <2>1, <2>2
  <2> QED
    BY <2>3
<1> HIDE DEF R
<1>3. \A k \in Nat : k \in R
  BY <1>1, <1>2, NatSetInduction
<1>4. ASSUME NEW n \in m .. last
      PROVE  n \in S
  <2>1. PICK k : k = n - m
    OBVIOUS
  <2>2. k \in Nat /\ m + k = n
    BY <2>1
  <2>3. k \in R
    BY <2>2, <1>3
  <2> QED
    BY <2>2, <2>3 DEF R
<1> QED
  BY <1>4

\* The values of f follow from base by step.
Steps(T, base, step, m, last) ==
  /\ m \in Nat /\ last \in Nat /\ m <= last
  /\ base \in T
  /\ \A n \in m .. last : \A a \in T : step[<<n, a>>] \in T

Follows(f, T, base, step, m, last) ==
  /\ f \in [m .. last -> T]
  /\ f[m] = base
  /\ \A n \in m .. last - 1 : f[n + 1] = step[<<n, f[n]>>]

\* Such a function exists,
LEMMA Recursion ==
  ASSUME NEW T, NEW base, NEW step, NEW m, NEW last, Steps(T, base, step, m, last)
  PROVE  \E f : Follows(f, T, base, step, m, last)
<1> USE DEF Steps
<1> DEFINE Good(k) == \E f : Follows(f, T, base, step, m, k)
           S == {k \in Nat : k <= last => Good(k)}
<1>1. m \in S
  <2> DEFINE f == [n \in m .. m |-> base]
  <2>1. Follows(f, T, base, step, m, m)
    BY DEF Follows
  <2> QED
    BY <2>1
<1>2. ASSUME NEW k \in m .. last - 1, k \in S
      PROVE  k + 1 \in S
  <2>1. PICK f : Follows(f, T, base, step, m, k)
    BY <1>2
  <2>2. f \in [m .. k -> T] /\ f[m] = base
    BY <2>1 DEF Follows
  <2>3. PICK after : after = step[<<k, f[k]>>]
    OBVIOUS
  <2>4. after \in T
    <3>1. f[k] \in T /\ k \in m .. last
      BY <2>2
    <3> QED
      BY <2>3, <3>1
  <2> DEFINE h == [n \in m .. k + 1 |-> IF n = k + 1 THEN after ELSE f[n]]
  <2>5. h \in [m .. k + 1 -> T]
    BY <2>2, <2>4
  <2>6. h[m] = base
    BY <2>2
  <2>7. ASSUME NEW n \in m .. (k + 1) - 1
        PROVE  h[n + 1] = step[<<n, h[n]>>]
    <3>1. h[n] = f[n]
      OBVIOUS
    <3>2. CASE n = k
      <4>1. h[k + 1] = after
        OBVIOUS
      <4> QED
        BY <3>1, <3>2, <4>1, <2>3
    <3>3. CASE n # k
      <4>1. n \in m .. k - 1 /\ n + 1 \in m .. k + 1 /\ n + 1 # k + 1
        BY <3>3
      <4>2. f[n + 1] = step[<<n, f[n]>>]
        BY <2>1, <4>1 DEF Follows
      <4> QED
        BY <3>1, <4>1, <4>2
    <3> QED
      BY <3>2, <3>3
  <2> HIDE DEF h
  <2>8. Follows(h, T, base, step, m, k + 1)
    BY <2>5, <2>6, <2>7 DEF Follows
  <2> QED
    BY <2>8
<1> HIDE DEF S
<1>3. Inductive(S, m, last)
  BY <1>1, <1>2 DEF Inductive
<1>4. last \in S
  BY <1>3, RangeInduction
<1> QED
  BY <1>4 DEF S

\* and is the only one.
Agree(f, g, m, last) ==
  /\ m \in Nat /\ last \in Nat
  /\ f[m] = g[m]
  /\ \A n \in m .. last - 1 : f[n] = g[n] => f[n + 1] = g[n + 1]

LEMMA SameRecursion ==
  ASSUME NEW f, NEW g, NEW m, NEW last, Agree(f, g, m, last)
  PROVE  \A n \in m .. last : f[n] = g[n]
<1> DEFINE S == {n \in Nat : f[n] = g[n]}
<1>1. m \in Nat /\ last \in Nat /\ m \in S
  BY DEF Agree
<1>2. \A n \in m .. last - 1 : n \in S => n + 1 \in S
  BY <1>1 DEF Agree
<1> HIDE DEF S
<1>3. Inductive(S, m, last)
  BY <1>1, <1>2 DEF Inductive
<1>4. \A n \in m .. last : n \in S
  BY <1>3, RangeInduction
<1> QED
  BY <1>4 DEF S

-----------------------------------------------------------------------------
(* Sequences put end to end.                                               *)

LEMMA AppendFacts ==
  ASSUME NEW B, NEW s, NEW x, s \in Seq(B), x \in B
  PROVE  /\ Append(s, x) \in Seq(B) /\ Append(s, x) # <<>>
         /\ Len(s) \in Nat /\ Len(Append(s, x)) = Len(s) + 1
         /\ \A i \in 1 .. Len(s) : Append(s, x)[i] = s[i]
         /\ Append(s, x)[Len(s) + 1] = x
  OBVIOUS

LEMMA SeqFacts ==
  ASSUME NEW B, NEW s, s \in Seq(B)
  PROVE  /\ Len(s) \in Nat /\ DOMAIN s = 1 .. Len(s)
         /\ \A i \in 1 .. Len(s) : s[i] \in B
         /\ s = <<>> <=> Len(s) = 0
  OBVIOUS

LEMMA ConcatFacts ==
  ASSUME NEW B, NEW s, NEW t, s \in Seq(B), t \in Seq(B)
  PROVE  /\ s \o t \in Seq(B) /\ Len(s \o t) = Len(s) + Len(t)
         /\ Len(s) \in Nat /\ Len(t) \in Nat
         /\ \A i \in 1 .. Len(s) : (s \o t)[i] = s[i]
         /\ \A i \in 1 .. Len(t) : (s \o t)[Len(s) + i] = t[i]
         /\ s \o <<>> = s /\ <<>> \o s = s
  OBVIOUS

\* The function f adds up the elements of ss.
AddsUp(f, ss, T) ==
  /\ f \in [1 .. Len(ss) -> Seq(T)]
  /\ f[1] = ss[1]
  /\ \A n \in 1 .. Len(ss) - 1 : f[n + 1] = f[n] \o ss[n + 1]

LEMMA FlattenFunction ==
  ASSUME NEW T, NEW ss, ss \in Seq(Seq(T)), ss # <<>>
  PROVE  \E f : AddsUp(f, ss, T) /\ FlattenSeq(ss) = f[Len(ss)]
<1> DEFINE last == Len(ss)
           B == Seq(T)
           Body(f, i) == IF i = 1 THEN ss[i] ELSE f[i - 1] \o ss[i]
           flatten == CHOOSE f : f = [i \in 1 .. last |-> Body(f, i)]
           step == [p \in (1 .. last) \X B |->
                      IF p[1] < last THEN p[2] \o ss[p[1] + 1] ELSE p[2]]
<1>1. last \in Nat /\ 1 <= last /\ \A i \in 1 .. last : ss[i] \in B
  BY SeqFacts
<1>2. ASSUME NEW n \in 1 .. last, NEW a \in B
      PROVE  /\ step[<<n, a>>] \in B
             /\ n < last => step[<<n, a>>] = a \o ss[n + 1]
  <2>1. \A b \in B : a \o b \in B
    BY ConcatFacts
  <2> HIDE DEF B
  <2>2. <<n, a>> \in (1 .. last) \X B
    OBVIOUS
  <2>3. step[<<n, a>>] = IF n < last THEN a \o ss[n + 1] ELSE a
    BY <2>2
  <2> HIDE DEF step
  <2>4. n < last => n + 1 \in 1 .. last
    BY <1>1
  <2> QED
    BY <1>1, <2>1, <2>3, <2>4
<1>3. Steps(B, ss[1], step, 1, last)
  <2> HIDE DEF step, B
  <2> QED
    <3>1. 1 \in Nat /\ last \in Nat /\ 1 <= last /\ ss[1] \in B
      BY <1>1
    <3>2. \A n \in 1 .. last : \A a \in B : step[<<n, a>>] \in B
      BY <1>2
    <3> QED
      BY <3>1, <3>2, Zenon DEF Steps
<1>4. PICK g : Follows(g, B, ss[1], step, 1, last)
  <2> HIDE DEF step, B, last
  <2> QED
    BY <1>3, Recursion, Zenon
<1>5. /\ g \in [1 .. last -> B] /\ g[1] = ss[1]
      /\ \A n \in 1 .. last - 1 : g[n + 1] = g[n] \o ss[n + 1]
  <2> HIDE DEF step, B
  <2>1. g \in [1 .. last -> B] /\ g[1] = ss[1]
    BY <1>4 DEF Follows
  <2>2. ASSUME NEW n \in 1 .. last - 1
        PROVE  g[n + 1] = g[n] \o ss[n + 1]
    <3>1. g[n + 1] = step[<<n, g[n]>>]
      BY <1>4, <2>2 DEF Follows
    <3>2. n \in 1 .. last /\ n < last /\ g[n] \in B
      BY <1>1, <2>1
    <3> QED
      BY <3>1, <3>2, <1>2
  <2> QED
    BY <2>1, <2>2
<1>6. g = [i \in 1 .. last |-> Body(g, i)]
  <2>1. ASSUME NEW i \in 1 .. last
        PROVE  g[i] = Body(g, i)
    <3>1. CASE i = 1
      BY <3>1, <1>5
    <3>2. CASE i # 1
      <4>1. PICK n : n = i - 1
        OBVIOUS
      <4>2. n \in 1 .. last - 1 /\ i = n + 1
        BY <3>2, <4>1, <1>1
      <4>3. g[n + 1] = g[n] \o ss[n + 1]
        BY <4>2, <1>5
      <4> QED
        BY <3>2, <4>1, <4>2, <4>3
    <3> QED
      BY <3>1, <3>2
  <2> HIDE DEF Body, B
  <2> QED
    BY <2>1, <1>5
<1>7. flatten = [i \in 1 .. last |-> Body(flatten, i)]
  BY <1>6
<1>8. Agree(flatten, g, 1, last)
  <2> HIDE DEF flatten
  <2>1. flatten[1] = g[1]
    BY <1>1, <1>5, <1>7
  <2>2. ASSUME NEW n \in 1 .. last - 1, flatten[n] = g[n]
        PROVE  flatten[n + 1] = g[n + 1]
    <3>1. n + 1 \in 1 .. last /\ n + 1 # 1 /\ (n + 1) - 1 = n
      BY <1>1
    <3>2. flatten[n + 1] = Body(flatten, n + 1)
      BY <1>7, <3>1
    <3> QED
      BY <1>5, <2>2, <3>1, <3>2
  <2> QED
    BY <1>1, <2>1, <2>2 DEF Agree
<1>9. FlattenSeq(ss) = g[last]
  <2>1. FlattenSeq(ss) = flatten[last]
    BY <1>1 DEF FlattenSeq
  <2> HIDE DEF flatten
  <2>2. \A n \in 1 .. last : flatten[n] = g[n]
    BY <1>8, SameRecursion
  <2> QED
    BY <1>1, <2>1, <2>2
<1> QED
  BY <1>5, <1>9 DEF AddsUp

LEMMA FlattenEmpty == FlattenSeq(<<>>) = <<>>
  BY DEF FlattenSeq

LEMMA FlattenType ==
  ASSUME NEW T, NEW ss, ss \in Seq(Seq(T))
  PROVE  FlattenSeq(ss) \in Seq(T)
<1>1. CASE ss = <<>>
  <2>1. <<>> \in Seq(T)
    OBVIOUS
  <2> QED
    BY <1>1, <2>1, FlattenEmpty
<1>2. CASE ss # <<>>
  <2>1. PICK f : AddsUp(f, ss, T) /\ FlattenSeq(ss) = f[Len(ss)]
    BY <1>2, FlattenFunction
  <2>2. Len(ss) \in 1 .. Len(ss)
    BY <1>2, SeqFacts
  <2> QED
    BY <2>1, <2>2 DEF AddsUp
<1> QED
  BY <1>1, <1>2

LEMMA FlattenAppend ==
  ASSUME NEW T, NEW ss, NEW x, ss \in Seq(Seq(T)), x \in Seq(T)
  PROVE  FlattenSeq(Append(ss, x)) = FlattenSeq(ss) \o x
<1>0. PICK longer : longer = Append(ss, x)
  OBVIOUS
<1>1. /\ longer \in Seq(Seq(T)) /\ longer # <<>> /\ Len(longer) = Len(ss) + 1
      /\ \A i \in 1 .. Len(ss) : longer[i] = ss[i]
      /\ longer[Len(ss) + 1] = x /\ Len(ss) \in Nat
  <2>1. PICK B : B = Seq(T)
    OBVIOUS
  <2> QED
    BY <1>0, <2>1, AppendFacts
<1>2. PICK f : AddsUp(f, longer, T) /\ FlattenSeq(longer) = f[Len(longer)]
  BY <1>1, FlattenFunction
<1>3. CASE ss = <<>>
  <2>1. FlattenSeq(longer) = x
    BY <1>1, <1>2, <1>3 DEF AddsUp
  <2> QED
    BY <1>0, <1>3, <2>1, FlattenEmpty
<1>4. CASE ss # <<>>
  <2>1. PICK g : AddsUp(g, ss, T) /\ FlattenSeq(ss) = g[Len(ss)]
    BY <1>4, FlattenFunction
  <2>2. Len(ss) > 0
    BY <1>4, SeqFacts
  <2>3. Agree(f, g, 1, Len(ss))
    <3>1. f[1] = g[1]
      BY <1>1, <1>2, <2>1, <2>2 DEF AddsUp
    <3>2. ASSUME NEW n \in 1 .. Len(ss) - 1, f[n] = g[n]
          PROVE  f[n + 1] = g[n + 1]
      <4>1. n \in 1 .. Len(longer) - 1 /\ n + 1 \in 1 .. Len(ss)
        BY <1>1
      <4>2. f[n + 1] = f[n] \o longer[n + 1] /\ g[n + 1] = g[n] \o ss[n + 1]
        BY <1>2, <2>1, <4>1 DEF AddsUp
      <4> QED
        BY <1>1, <3>2, <4>1, <4>2
    <3> QED
      BY <1>1, <3>1, <3>2 DEF Agree
  <2>4. f[Len(ss)] = g[Len(ss)]
    <3>1. \A n \in 1 .. Len(ss) : f[n] = g[n]
      BY <2>3, SameRecursion
    <3> QED
      BY <1>1, <2>2, <3>1
  <2>5. f[Len(ss) + 1] = f[Len(ss)] \o longer[Len(ss) + 1]
    <3>1. PICK n : n = Len(ss)
      OBVIOUS
    <3>2. n \in 1 .. Len(longer) - 1
      BY <1>1, <2>2, <3>1
    <3> QED
      BY <1>2, <3>1, <3>2 DEF AddsUp
  <2> QED
    BY <1>0, <1>1, <1>2, <2>1, <2>4, <2>5
<1> QED
  BY <1>3, <1>4

\* The first k elements, and how they grow.
Upto(s, k) == SubSeq(s, 1, k)

LEMMA UptoFacts ==
  ASSUME NEW T, NEW s, s \in Seq(T)
  PROVE  /\ Upto(s, 0) = <<>> /\ Upto(s, Len(s)) = s
         /\ \A k \in 0 .. Len(s) :
              /\ Upto(s, k) \in Seq(T) /\ Len(Upto(s, k)) = k
              /\ \A i \in 1 .. k : Upto(s, k)[i] = s[i]
         /\ \A k \in 1 .. Len(s) : Upto(s, k) = Append(Upto(s, k - 1), s[k])
<1>1. Upto(s, 0) = <<>> /\ Upto(s, Len(s)) = s
  BY DEF Upto
<1>2. ASSUME NEW k \in 0 .. Len(s)
      PROVE  /\ Upto(s, k) \in Seq(T) /\ Len(Upto(s, k)) = k
             /\ \A i \in 1 .. k : Upto(s, k)[i] = s[i]
  BY DEF Upto
<1>3. ASSUME NEW k \in 1 .. Len(s)
      PROVE  Upto(s, k) = Append(Upto(s, k - 1), s[k])
  BY DEF Upto
<1> QED
  BY <1>1, <1>2, <1>3

-----------------------------------------------------------------------------
(* Text, words, and find().                                                *)

Classes == {"x", "P", "blank", "nl", "cr"}

Texts == Seq(Classes)

\* Tokens are never empty.
Words == Texts \ {<<>>}

LEMMA MinFacts ==
  ASSUME NEW S, S # {}, S \subseteq Nat
  PROVE  Min(S) \in S /\ \A x \in S : Min(S) <= x
<1>1. PICK n \in S : \A m \in S : ~ (<<m, n>> \in OpToRel(<, Nat))
  BY WFMin, NatLessThanWellFounded
<1>2. \A m \in S : ~ (m < n)
  BY <1>1 DEF OpToRel
<1>3. \A m \in S : n <= m
  BY <1>2
<1> QED
  BY <1>3 DEF Min

\* The place found is not before the first place looked at; if it is inside the text the
\* delimiter stands there.
LEMMA FindFacts ==
  ASSUME NEW s, NEW d, NEW start, s \in Texts, d \in Words, start \in Nat \ {0}
  PROVE  /\ Find(s, d, start) \in 1 .. Len(s) + 1
         /\ start <= Len(s) => start <= Find(s, d, start)
         /\ start > Len(s) => Find(s, d, start) = Len(s) + 1
         /\ Find(s, d, start) <= Len(s) =>
              /\ start <= Find(s, d, start)
              /\ Find(s, d, start) + Len(d) <= Len(s) + 1
              /\ SubSeq(s, Find(s, d, start), Find(s, d, start) + Len(d) - 1) = d
         /\ \A i \in start .. Len(s) + 1 - Len(d) :
              SubSeq(s, i, i + Len(d) - 1) = d => Find(s, d, start) <= i
         /\ Len(s) \in Nat /\ Len(d) \in Nat /\ Len(d) >= 1
<1> DEFINE S == {i \in start .. (Len(s) + 1 - Len(d)) : SubSeq(s, i, i + Len(d) - 1) = d}
           T == {Len(s) + 1} \cup S
<1>1. Len(s) \in Nat /\ Len(d) \in Nat /\ Len(d) >= 1
  BY SeqFacts DEF Texts, Words
<1>2. T # {} /\ T \subseteq Nat
  BY <1>1
<1>3. \A i \in S : i >= start /\ i + Len(d) <= Len(s) + 1 /\ i <= Len(s)
  BY <1>1
<1> HIDE DEF T
<1>4. Min(T) \in T /\ \A x \in T : Min(T) <= x
  BY <1>2, MinFacts
<1>5. Find(s, d, start) = Min(T)
  BY DEF Find, T
<1>6. PICK f : f = Find(s, d, start)
  OBVIOUS
<1>7. (f = Len(s) + 1 \/ f \in S) /\ f <= Len(s) + 1 /\ \A x \in S : f <= x
  BY <1>4, <1>5, <1>6 DEF T
<1> QED
  BY <1>1, <1>3, <1>6, <1>7

\* The turns of a loop with find(): every one begins behind the one before.
LEMMA StartsFacts ==
  ASSUME NEW s, NEW d, s \in Texts, d \in Words
  PROVE  /\ Starts(s, d) \in [1 .. Len(s) + 1 -> Nat \ {0}]
         /\ Starts(s, d)[1] = 1
         /\ \A n \in 1 .. Len(s) :
              Starts(s, d)[n + 1] = Find(s, d, Starts(s, d)[n]) + Len(d)
<1> DEFINE last == Len(s) + 1
           B == Nat \ {0}
           Body(f, i) == IF i = 1 THEN 1 ELSE Find(s, d, f[i - 1]) + Len(d)
           starts == CHOOSE f : f = [i \in 1 .. last |-> Body(f, i)]
           step == [p \in (1 .. last) \X B |-> Find(s, d, p[2]) + Len(d)]
<1>1. Len(s) \in Nat /\ last \in Nat /\ 1 <= last
  BY SeqFacts DEF Texts
<1>2. ASSUME NEW n \in 1 .. last, NEW a \in B
      PROVE  step[<<n, a>>] \in B /\ step[<<n, a>>] = Find(s, d, a) + Len(d)
  <2>1. Find(s, d, a) \in Nat /\ Len(d) \in Nat /\ Len(d) >= 1
    <3>1. Find(s, d, a) \in 1 .. Len(s) + 1 /\ Len(d) \in Nat /\ Len(d) >= 1
      BY FindFacts
    <3> QED
      BY <1>1, <3>1
  <2>2. step[<<n, a>>] = Find(s, d, a) + Len(d)
    OBVIOUS
  <2> QED
    BY <2>1, <2>2
<1>3. Steps(B, 1, step, 1, last)
  <2> HIDE DEF step
  <2>1. 1 \in Nat /\ last \in Nat /\ 1 <= last /\ 1 \in B
    BY <1>1
  <2>2. \A n \in 1 .. last : \A a \in B : step[<<n, a>>] \in B
    BY <1>2
  <2> HIDE DEF B, last
  <2> QED
    BY <2>1, <2>2, Zenon DEF Steps
<1>4. PICK g : Follows(g, B, 1, step, 1, last)
  <2> HIDE DEF step, B, last
  <2> QED
    BY <1>3, Recursion, Zenon
<1>5. /\ g \in [1 .. last -> B] /\ g[1] = 1
      /\ \A n \in 1 .. Len(s) : g[n + 1] = Find(s, d, g[n]) + Len(d)
  <2> HIDE DEF step, B
  <2>1. g \in [1 .. last -> B] /\ g[1] = 1
    BY <1>4 DEF Follows
  <2>2. ASSUME NEW n \in 1 .. Len(s)
        PROVE  g[n + 1] = Find(s, d, g[n]) + Len(d)
    <3>1. n \in 1 .. last - 1
      BY <1>1
    <3>2. g[n + 1] = step[<<n, g[n]>>]
      BY <1>4, <3>1 DEF Follows
    <3>3. n \in 1 .. last /\ g[n] \in B
      BY <1>1, <2>1
    <3> QED
      BY <3>2, <3>3, <1>2
  <2> QED
    BY <2>1, <2>2
<1>6. g = [i \in 1 .. last |-> Body(g, i)]
  <2>1. ASSUME NEW i \in 1 .. last
        PROVE  g[i] = Body(g, i)
    <3>1. CASE i = 1
      BY <3>1, <1>5
    <3>2. CASE i # 1
      <4>1. PICK n : n = i - 1
        OBVIOUS
      <4>2. n \in 1 .. Len(s) /\ i = n + 1
        BY <3>2, <4>1, <1>1
      <4>3. g[n + 1] = Find(s, d, g[n]) + Len(d)
        BY <4>2, <1>5
      <4> QED
        BY <3>2, <4>1, <4>2, <4>3
    <3> QED
      BY <3>1, <3>2
  <2> HIDE DEF Body, B
  <2> QED
    BY <2>1, <1>5
<1>7. starts = [i \in 1 .. last |-> Body(starts, i)]
  BY <1>6
<1>8. Agree(starts, g, 1, last)
  <2> HIDE DEF starts
  <2>1. starts[1] = g[1]
    BY <1>1, <1>5, <1>7
  <2>2. ASSUME NEW n \in 1 .. last - 1, starts[n] = g[n]
        PROVE  starts[n + 1] = g[n + 1]
    <3>1. n \in 1 .. Len(s) /\ n + 1 \in 1 .. last /\ n + 1 # 1 /\ (n + 1) - 1 = n
      BY <1>1
    <3>2. starts[n + 1] = Body(starts, n + 1)
      BY <1>7, <3>1
    <3> QED
      BY <1>5, <2>2, <3>1, <3>2
  <2> QED
    BY <1>1, <2>1, <2>2 DEF Agree
<1>9. starts = g
  <2> HIDE DEF starts, B
  <2>1. \A n \in 1 .. last : starts[n] = g[n]
    BY <1>8, SameRecursion
  <2> QED
    BY <1>5, <1>7, <2>1
<1>10. Starts(s, d) = starts
  BY DEF Starts
<1> QED
  <2> HIDE DEF starts
  <2> QED
    BY <1>1, <1>5, <1>9, <1>10

LEMMA SubTexts ==
  ASSUME NEW B, NEW s, NEW i, NEW j, s \in Seq(B), i \in Nat \ {0}, j \in Nat, j <= Len(s)
  PROVE  /\ SubSeq(s, i, j) \in Seq(B)
         /\ i <= j + 1 => Len(SubSeq(s, i, j)) = j + 1 - i
         /\ i > j => SubSeq(s, i, j) = <<>>
         /\ \A n \in 1 .. j + 1 - i : SubSeq(s, i, j)[n] = s[i + n - 1]
OBVIOUS

\* The loop ends, after at most as many turns as the text has characters, and what its turns
\* look at are pieces of the text.
LEMMA PiecesFacts ==
  ASSUME NEW s, NEW d, s \in Texts, d \in Words
  PROVE  /\ Pieces(s, d) \in Seq(Texts)
         /\ Len(Pieces(s, d)) \in 0 .. Len(s)
         /\ Starts(s, d)[Len(Pieces(s, d)) + 1] > Len(s)
         /\ \A n \in 1 .. Len(Pieces(s, d)) :
              /\ Starts(s, d)[n] \in 1 .. Len(s)
              /\ Pieces(s, d)[n] = SubSeq(s, Starts(s, d)[n], Find(s, d, Starts(s, d)[n]) - 1)
<1>1. PICK start : start = Starts(s, d)
  OBVIOUS
<1>2. PICK len : len = Len(s)
  OBVIOUS
<1>3. PICK width : width = Len(d)
  OBVIOUS
<1>4. len \in Nat /\ width \in Nat \ {0}
  BY <1>2, <1>3, SeqFacts DEF Texts, Words
<1>5. /\ start \in [1 .. len + 1 -> Nat \ {0}] /\ start[1] = 1
      /\ \A n \in 1 .. len : start[n + 1] = Find(s, d, start[n]) + width
  BY <1>1, <1>2, <1>3, StartsFacts
<1>6. \A n \in 1 .. len :
        /\ start[n] <= len => start[n + 1] > start[n]
        /\ start[n] > len => start[n + 1] > len + 1
        /\ Find(s, d, start[n]) \in 1 .. len + 1
  <2>1. ASSUME NEW n \in 1 .. len
        PROVE  /\ start[n] <= len => start[n + 1] > start[n]
               /\ start[n] > len => start[n + 1] > len + 1
               /\ Find(s, d, start[n]) \in 1 .. len + 1
    <3>1. PICK a : a = start[n]
      OBVIOUS
    <3>2. a \in Nat \ {0}
      BY <1>4, <1>5, <3>1
    <3>3. /\ Find(s, d, a) \in 1 .. len + 1
          /\ a <= len => a <= Find(s, d, a)
          /\ a > len => Find(s, d, a) = len + 1
      BY <1>2, <3>2, FindFacts
    <3>4. start[n + 1] = Find(s, d, a) + width
      BY <1>5, <3>1
    <3> QED
      BY <1>4, <3>1, <3>2, <3>3, <3>4
  <2> QED
    BY <2>1
<1>7. \A n \in 1 .. len + 1 : start[n] >= n
  <2> DEFINE S == {n \in Nat : n \in 1 .. len + 1 => start[n] >= n}
  <2>1. 1 \in S
    BY <1>5
  <2>2. ASSUME NEW n \in 1 .. (len + 1) - 1, n \in S
        PROVE  n + 1 \in S
    <3>1. n \in 1 .. len /\ n \in 1 .. len + 1 /\ n + 1 \in 1 .. len + 1
      BY <1>4
    <3>2. start[n] >= n /\ start[n] \in Nat /\ start[n + 1] \in Nat
      BY <1>5, <2>2, <3>1
    <3> QED
      BY <1>4, <1>6, <3>1, <3>2
  <2> HIDE DEF S
  <2>3. Inductive(S, 1, len + 1)
    BY <1>4, <2>1, <2>2 DEF Inductive
  <2>4. \A n \in 1 .. len + 1 : n \in S
    BY <2>3, RangeInduction
  <2> QED
    BY <1>4, <2>4 DEF S
<1>8. PICK k : /\ k \in 0 .. len /\ start[k + 1] > len
               /\ \A n \in 1 .. k : start[n] <= len
  <2> DEFINE E == {n \in 1 .. len + 1 : start[n] > len}
  <2>1. len + 1 \in E /\ E \subseteq Nat
    <3>1. start[len + 1] >= len + 1 /\ start[len + 1] \in Nat
      BY <1>4, <1>5, <1>7
    <3> QED
      BY <1>4, <3>1
  <2> HIDE DEF E
  <2>2. PICK e : e = Min(E)
    OBVIOUS
  <2>3. e \in E /\ \A n \in E : e <= n
    BY <2>1, <2>2, MinFacts
  <2>4. PICK k : k = e - 1
    OBVIOUS
  <2>5. k \in 0 .. len /\ start[k + 1] > len /\ k + 1 = e
    BY <1>4, <2>3, <2>4 DEF E
  <2>6. \A n \in 1 .. k : start[n] <= len
    <3>1. ASSUME NEW n \in 1 .. k
          PROVE  start[n] <= len
      <4>1. n \in 1 .. len + 1 /\ ~ (e <= n) /\ start[n] \in Nat
        BY <1>4, <1>5, <2>5
      <4>2. ~ (start[n] > len)
        BY <2>3, <4>1 DEF E
      <4> QED
        BY <1>4, <4>1, <4>2
    <3> QED
      BY <3>1
  <2> QED
    BY <2>5, <2>6
<1>9. \A n \in k + 1 .. len + 1 : start[n] > len
  <2> DEFINE S == {n \in Nat : n \in k + 1 .. len + 1 => start[n] > len}
  <2>1. k + 1 \in S
    BY <1>4, <1>8
  <2>2. ASSUME NEW n \in k + 1 .. (len + 1) - 1, n \in S
        PROVE  n + 1 \in S
    <3>1. n \in 1 .. len /\ n \in k + 1 .. len + 1 /\ n + 1 \in k + 1 .. len + 1
      BY <1>4, <1>8
    <3>2. start[n] > len /\ start[n + 1] \in Nat
      BY <1>4, <1>5, <2>2, <3>1
    <3>3. start[n + 1] > len + 1
      BY <1>6, <3>1, <3>2
    <3> QED
      BY <1>4, <3>1, <3>2, <3>3
  <2> HIDE DEF S
  <2>3. Inductive(S, k + 1, len + 1)
    BY <1>4, <1>8, <2>1, <2>2 DEF Inductive
  <2>4. \A n \in k + 1 .. len + 1 : n \in S
    BY <2>3, RangeInduction
  <2> QED
    BY <1>4, <1>8, <2>4 DEF S
<1>10. PICK dom : dom = {m \in DOMAIN start : start[m] <= len}
  OBVIOUS
<1>11. dom = 1 .. k
  <2>1. \A m \in dom : m \in 1 .. k
    <3>1. ASSUME NEW m \in dom
          PROVE  m \in 1 .. k
      <4>1. m \in 1 .. len + 1 /\ start[m] <= len /\ start[m] \in Nat
        BY <1>5, <1>10
      <4>2. ~ (start[m] > len)
        BY <1>4, <4>1
      <4>3. ~ (m \in k + 1 .. len + 1)
        BY <1>9, <4>2
      <4> QED
        BY <1>4, <1>8, <4>1, <4>3
    <3> QED
      BY <3>1
  <2>2. \A m \in 1 .. k : m \in dom
    BY <1>4, <1>5, <1>8, <1>10
  <2> QED
    BY <2>1, <2>2
<1>12. Pieces(s, d) = [n \in 1 .. k |-> SubSeq(s, start[n], Find(s, d, start[n]) - 1)]
  <2>1. Pieces(s, d) = [n \in dom |-> SubSeq(s, start[n], Find(s, d, start[n]) - 1)]
    BY <1>1, <1>2, <1>10 DEF Pieces
  <2> QED
    BY <1>11, <2>1
<1>13. \A n \in 1 .. k : SubSeq(s, start[n], Find(s, d, start[n]) - 1) \in Texts
  <2>1. ASSUME NEW n \in 1 .. k
        PROVE  SubSeq(s, start[n], Find(s, d, start[n]) - 1) \in Texts
    <3>1. PICK i : i = start[n]
      OBVIOUS
    <3>2. PICK j : j = Find(s, d, start[n]) - 1
      OBVIOUS
    <3>3. n \in 1 .. len /\ n \in 1 .. len + 1
      BY <1>4, <1>8
    <3>4. i \in Nat \ {0} /\ j \in Nat /\ j <= Len(s)
      <4>1. PICK f : f = Find(s, d, start[n])
        OBVIOUS
      <4>2. f \in 1 .. len + 1
        BY <1>6, <3>3, <4>1
      <4>3. start[n] \in Nat \ {0}
        BY <1>5, <3>3
      <4> QED
        BY <1>2, <1>4, <3>1, <3>2, <4>1, <4>2, <4>3
    <3>5. SubSeq(s, i, j) \in Texts
      BY <3>4 DEF Texts
    <3> QED
      BY <3>1, <3>2, <3>5
  <2> QED
    BY <2>1
<1>14. Pieces(s, d) \in Seq(Texts) /\ Len(Pieces(s, d)) = k
  BY <1>8, <1>12, <1>13
<1>15. \A n \in 1 .. k : start[n] \in 1 .. len
  BY <1>4, <1>5, <1>8
<1> QED
  BY <1>1, <1>2, <1>8, <1>12, <1>14, <1>15

-----------------------------------------------------------------------------
(* The three loops of split() return non-empty tokens.                     *)

BlankStates == [pieces : Seq(Words), piece : Texts]

LEMMA KeepType ==
  ASSUME NEW B, NEW ws, NEW w, ws \in Seq(Seq(B) \ {<<>>}), w \in Seq(B)
  PROVE  /\ Keep(ws, w) \in Seq(Seq(B) \ {<<>>})
         /\ Keep(ws, w) = <<>> <=> (ws = <<>> /\ w = <<>>)
         /\ w = <<>> => Keep(ws, w) = ws
         /\ w # <<>> => Keep(ws, w) = Append(ws, w)
<1> DEFINE W == Seq(B) \ {<<>>}
<1>1. CASE w = <<>>
  BY <1>1 DEF Keep
<1>2. CASE w # <<>>
  <2>1. w \in W
    BY <1>2
  <2>2. ws \in Seq(W)
    OBVIOUS
  <2> HIDE DEF W
  <2>3. Append(ws, w) \in Seq(W) /\ Append(ws, w) # <<>>
    BY <2>1, <2>2, AppendFacts
  <2> QED
    BY <1>2, <2>3 DEF Keep, W
<1> QED
  BY <1>1, <1>2

LEMMA BlankStepType ==
  ASSUME NEW acc, NEW c, acc \in BlankStates, c \in Classes
  PROVE  /\ BlankStep(acc, c) \in BlankStates
         /\ IsSpace(c) => /\ BlankStep(acc, c).pieces = Keep(acc.pieces, acc.piece)
                          /\ BlankStep(acc, c).piece = <<>>
         /\ ~IsSpace(c) => /\ BlankStep(acc, c).pieces = acc.pieces
                           /\ BlankStep(acc, c).piece = Append(acc.piece, c)
<1>1. acc.pieces \in Seq(Words) /\ acc.piece \in Texts
  BY DEF BlankStates
<1>2. Keep(acc.pieces, acc.piece) \in Seq(Words)
  BY <1>1, KeepType DEF Words, Texts
<1>3. CASE IsSpace(c)
  <2>1. <<>> \in Texts
    BY DEF Texts
  <2> QED
    BY <1>2, <1>3, <2>1 DEF BlankStep, BlankStates
<1>4. CASE ~IsSpace(c)
  <2>1. Append(acc.piece, c) \in Texts
    BY <1>1, AppendFacts DEF Texts
  <2>2. BlankStep(acc, c) = [pieces |-> acc.pieces, piece |-> Append(acc.piece, c)]
    BY <1>1, <1>4 DEF BlankStep, BlankStates
  <2> QED
    BY <1>1, <1>4, <2>1, <2>2 DEF BlankStates
<1> QED
  BY <1>3, <1>4

LEMMA BlankLoopFacts ==
  ASSUME NEW s, s \in Texts
  PROVE  /\ BlankLoop(s) \in [0 .. Len(s) -> BlankStates]
         /\ BlankLoop(s)[0] = [pieces |-> <<>>, piece |-> <<>>]
         /\ \A n \in 0 .. Len(s) - 1 :
              BlankLoop(s)[n + 1] = BlankStep(BlankLoop(s)[n], s[n + 1])
<1> DEFINE last == Len(s)
           B == BlankStates
           base == [pieces |-> <<>>, piece |-> <<>>]
           Body(f, i) == IF i = 0 THEN base ELSE BlankStep(f[i - 1], s[i])
           loop == CHOOSE f : f = [i \in 0 .. last |-> Body(f, i)]
           step == [p \in (0 .. last) \X B |->
                      IF p[1] < last THEN BlankStep(p[2], s[p[1] + 1]) ELSE p[2]]
<1>1. last \in Nat /\ \A i \in 1 .. last : s[i] \in Classes
  BY SeqFacts DEF Texts
<1>2. ASSUME NEW n \in 0 .. last, NEW a \in B
      PROVE  /\ step[<<n, a>>] \in B
             /\ n < last => step[<<n, a>>] = BlankStep(a, s[n + 1])
  <2> HIDE DEF B
  <2>1. step[<<n, a>>] = IF n < last THEN BlankStep(a, s[n + 1]) ELSE a
    OBVIOUS
  <2> HIDE DEF step
  <2>2. n < last => s[n + 1] \in Classes
    BY <1>1
  <2>3. n < last => BlankStep(a, s[n + 1]) \in B
    BY <2>2, BlankStepType DEF B
  <2> QED
    BY <2>1, <2>3
<1>3. Steps(B, base, step, 0, last)
  <2>1. base \in B
    BY DEF BlankStates, Texts
  <2> HIDE DEF step, base, B
  <2>2. 0 \in Nat /\ last \in Nat /\ 0 <= last
    BY <1>1
  <2>3. \A n \in 0 .. last : \A a \in B : step[<<n, a>>] \in B
    BY <1>2
  <2> HIDE DEF last
  <2> QED
    BY <2>1, <2>2, <2>3, Zenon DEF Steps
<1>4. PICK g : Follows(g, B, base, step, 0, last)
  <2> HIDE DEF step, B, base, last
  <2> QED
    BY <1>3, Recursion, Zenon
<1>5. /\ g \in [0 .. last -> B] /\ g[0] = base
      /\ \A n \in 0 .. last - 1 : g[n + 1] = BlankStep(g[n], s[n + 1])
  <2> HIDE DEF step, B, base
  <2>1. g \in [0 .. last -> B] /\ g[0] = base
    BY <1>4 DEF Follows
  <2>2. ASSUME NEW n \in 0 .. last - 1
        PROVE  g[n + 1] = BlankStep(g[n], s[n + 1])
    <3>1. g[n + 1] = step[<<n, g[n]>>]
      BY <1>4, <2>2 DEF Follows
    <3>2. n \in 0 .. last /\ n < last /\ g[n] \in B
      BY <1>1, <2>1
    <3> QED
      BY <3>1, <3>2, <1>2
  <2> QED
    BY <2>1, <2>2
<1>6. g = [i \in 0 .. last |-> Body(g, i)]
  <2>1. ASSUME NEW i \in 0 .. last
        PROVE  g[i] = Body(g, i)
    <3>1. CASE i = 0
      BY <3>1, <1>5
    <3>2. CASE i # 0
      <4>1. PICK n : n = i - 1
        OBVIOUS
      <4>2. n \in 0 .. last - 1 /\ i = n + 1
        BY <3>2, <4>1, <1>1
      <4>3. g[n + 1] = BlankStep(g[n], s[n + 1])
        BY <4>2, <1>5
      <4> QED
        BY <3>2, <4>1, <4>2, <4>3
    <3> QED
      BY <3>1, <3>2
  <2> HIDE DEF Body, B
  <2> QED
    BY <2>1, <1>5
<1>7. loop = [i \in 0 .. last |-> Body(loop, i)]
  BY <1>6
<1>8. Agree(loop, g, 0, last)
  <2> HIDE DEF loop
  <2>1. loop[0] = g[0]
    BY <1>1, <1>5, <1>7
  <2>2. ASSUME NEW n \in 0 .. last - 1, loop[n] = g[n]
        PROVE  loop[n + 1] = g[n + 1]
    <3>1. n + 1 \in 0 .. last /\ n + 1 # 0 /\ (n + 1) - 1 = n
      BY <1>1
    <3>2. loop[n + 1] = Body(loop, n + 1)
      BY <1>7, <3>1
    <3> HIDE DEF base
    <3> QED
      BY <1>5, <2>2, <3>1, <3>2
  <2> QED
    BY <1>1, <2>1, <2>2 DEF Agree
<1>9. loop = g
  <2> HIDE DEF loop, B
  <2>1. \A n \in 0 .. last : loop[n] = g[n]
    BY <1>8, SameRecursion
  <2> QED
    BY <1>5, <1>7, <2>1
<1>10. BlankLoop(s) = loop
  BY DEF BlankLoop
<1> QED
  <2> HIDE DEF loop
  <2> QED
    BY <1>1, <1>5, <1>9, <1>10

LEMMA BlankTokensType ==
  ASSUME NEW s, s \in Texts
  PROVE  BlankTokens(s) \in Seq(Words)
<1>1. PICK end : end = BlankLoop(s)[Len(s)]
  OBVIOUS
<1>2. Len(s) \in Nat
  BY SeqFacts DEF Texts
<1>3. end \in BlankStates
  BY <1>1, <1>2, BlankLoopFacts
<1>4. end.pieces \in Seq(Words) /\ end.piece \in Texts
  BY <1>3 DEF BlankStates
<1>5. Keep(end.pieces, end.piece) \in Seq(Words)
  BY <1>4, KeepType DEF Words, Texts
<1> QED
  BY <1>1, <1>5 DEF BlankTokens

\* A text as a token, if there is something in it.
KeepOne(p) == Keep(<<>>, p)

LEMMA KeepOneType ==
  ASSUME NEW p, p \in Texts
  PROVE  /\ KeepOne(p) \in Seq(Words)
         /\ p = <<>> => KeepOne(p) = <<>>
         /\ p # <<>> => KeepOne(p) = <<p>>
<1>1. <<>> \in Seq(Words)
  OBVIOUS
<1>2. Keep(<<>>, p) \in Seq(Words)
  BY <1>1, KeepType DEF Words, Texts
<1> QED
  BY <1>2 DEF KeepOne, Keep

LEMMA DelimitedType ==
  ASSUME NEW s, NEW d, s \in Texts, d \in Words
  PROVE  DelimitedTokens(s, d) \in Seq(Words)
<1>1. PICK pieces : pieces = Pieces(s, d)
  OBVIOUS
<1>2. pieces \in Seq(Texts)
  BY <1>1, PiecesFacts
<1>3. PICK n : n = Len(pieces)
  OBVIOUS
<1>4. n \in Nat /\ DOMAIN pieces = 1 .. n /\ \A i \in 1 .. n : pieces[i] \in Texts
  BY <1>2, <1>3, SeqFacts
<1>5. PICK kept : kept = [i \in 1 .. n |-> KeepOne(pieces[i])]
  OBVIOUS
<1>6. \A i \in 1 .. n : KeepOne(pieces[i]) \in Seq(Words)
  BY <1>4, KeepOneType
<1>7. kept \in Seq(Seq(Words))
  BY <1>4, <1>5, <1>6
<1>8. FlattenSeq(kept) \in Seq(Words)
  BY <1>7, FlattenType
<1> QED
  BY <1>1, <1>4, <1>5, <1>8 DEF DelimitedTokens, KeepOne

LEMMA SplitType ==
  ASSUME NEW s, NEW o, s \in Texts, o \in PlanOptions
  PROVE  split(s, o) \in Seq(Words)
<1>1. o.delimiter \in Delimiters
  BY DEF PlanOptions
<1>2. o.delimiter # <<>> => o.delimiter \in Words
  <2>1. o.delimiter # <<>> =>
          o.delimiter \in {<<"blank">>, <<"blank", "blank">>}
    BY <1>1 DEF Delimiters
  <2>2. "blank" \in Classes
    BY DEF Classes
  <2>3. <<"blank">> \in Words /\ <<"blank", "blank">> \in Words
    BY <2>2 DEF Words, Texts
  <2> QED
    BY <2>1, <2>3
<1> QED
  BY <1>2, BlankTokensType, DelimitedType DEF split

-----------------------------------------------------------------------------
(* The lines, and the loop of -L over them.                                *)

LEMMA ChompType ==
  ASSUME NEW l, l \in Texts
  PROVE  Chomp(l) \in Texts
<1>1. CASE l # <<>> /\ Last(l) = "cr"
  <2>1. Len(l) \in Nat /\ Len(l) >= 1
    BY <1>1, SeqFacts DEF Texts
  <2>2. PICK n : n = Len(l) - 1
    OBVIOUS
  <2>3. Chomp(l) = SubSeq(l, 1, n)
    BY <1>1, <2>2 DEF Chomp, Front
  <2>4. n \in Nat /\ n <= Len(l)
    BY <2>1, <2>2
  <2> QED
    BY <2>3, <2>4 DEF Texts
<1>2. CASE ~ (l # <<>> /\ Last(l) = "cr")
  <2>1. Chomp(l) = l
    BY <1>2 DEF Chomp
  <2> QED
    BY <2>1
<1> QED
  BY <1>1, <1>2

LEMMA LinesType ==
  ASSUME NEW s, s \in Texts
  PROVE  Lines(s) \in Seq(Texts)
<1>1. <<"nl">> \in Words
  BY DEF Words, Texts, Classes
<1>2. PICK pieces : pieces = Pieces(s, <<"nl">>)
  OBVIOUS
<1>3. pieces \in Seq(Texts)
  BY <1>1, <1>2, PiecesFacts
<1>4. PICK n : n = Len(pieces)
  OBVIOUS
<1>5. n \in Nat /\ DOMAIN pieces = 1 .. n /\ \A i \in 1 .. n : pieces[i] \in Texts
  BY <1>3, <1>4, SeqFacts
<1>6. \A i \in 1 .. n : Chomp(pieces[i]) \in Texts
  BY <1>5, ChompType
<1>7. Lines(s) = [i \in 1 .. n |-> Chomp(pieces[i])]
  BY <1>2, <1>5 DEF Lines
<1> QED
  BY <1>5, <1>6, <1>7

\* The tokens of c lines behind the first from of them, put end to end.
Batch(ls, from, c, o) == FlattenSeq([j \in 1 .. c |-> split(ls[from + j], o)])

Within(ls, from, c, o) ==
  /\ ls \in Seq(Texts) /\ o \in PlanOptions
  /\ from \in Nat /\ c \in Nat /\ from + c <= Len(ls)

LEMMA BatchParts ==
  ASSUME NEW ls, NEW from, NEW c, NEW o, Within(ls, from, c, o)
  PROVE  [j \in 1 .. c |-> split(ls[from + j], o)] \in Seq(Seq(Words))
<1>1. ASSUME NEW j \in 1 .. c
      PROVE  split(ls[from + j], o) \in Seq(Words)
  <2>1. PICK i : i = from + j
    OBVIOUS
  <2>2. Len(ls) \in Nat /\ from \in Nat /\ c \in Nat /\ from + c <= Len(ls)
    BY SeqFacts DEF Within
  <2>3. i \in 1 .. Len(ls)
    BY <2>1, <2>2
  <2>4. ls[i] \in Texts
    BY <2>3 DEF Within
  <2>5. split(ls[i], o) \in Seq(Words)
    BY <2>4, SplitType DEF Within
  <2> QED
    BY <2>1, <2>5
<1>2. c \in Nat
  BY DEF Within
<1> QED
  BY <1>1, <1>2

LEMMA BatchType ==
  ASSUME NEW ls, NEW from, NEW c, NEW o, Within(ls, from, c, o)
  PROVE  Batch(ls, from, c, o) \in Seq(Words)
BY BatchParts, FlattenType DEF Batch

LEMMA BatchEmpty == \A ls, from, o : Batch(ls, from, 0, o) = <<>>
<1>1. ASSUME NEW ls, NEW from, NEW o
      PROVE  Batch(ls, from, 0, o) = <<>>
  <2>1. [j \in 1 .. 0 |-> split(ls[from + j], o)] = <<>>
    OBVIOUS
  <2> QED
    BY <2>1, FlattenEmpty DEF Batch
<1> QED
  BY <1>1

OneMore(c, d) == c \in Nat /\ d = c + 1

LEMMA BatchGrows ==
  ASSUME NEW ls, NEW from, NEW c, NEW d, NEW o, Within(ls, from, d, o), OneMore(c, d)
  PROVE  Batch(ls, from, d, o) = Batch(ls, from, c, o) \o split(ls[from + d], o)
<1>1. d = c + 1 /\ c \in Nat
  BY DEF OneMore
<1>2. PICK longer : longer = [j \in 1 .. d |-> split(ls[from + j], o)]
  OBVIOUS
<1>3. PICK parts : parts = [j \in 1 .. c |-> split(ls[from + j], o)]
  OBVIOUS
<1>4. Within(ls, from, c, o) /\ Within(ls, from, d, o) /\ d \in Nat
  <2>1. Len(ls) \in Nat /\ from \in Nat /\ from + d <= Len(ls)
    BY SeqFacts DEF Within
  <2>2. from + c <= Len(ls)
    BY <1>1, <2>1
  <2> QED
    BY <1>1, <2>1, <2>2 DEF Within
<1>5. longer \in Seq(Seq(Words)) /\ parts \in Seq(Seq(Words))
  BY <1>2, <1>3, <1>4, BatchParts
<1>6. PICK x : x = longer[d]
  OBVIOUS
<1>7. x = split(ls[from + d], o) /\ x \in Seq(Words) /\ Len(longer) = d
  BY <1>1, <1>2, <1>4, <1>5, <1>6
<1>8. longer = Append(parts, x)
  <2>1. PICK W : W = Seq(Words)
    OBVIOUS
  <2>2. parts \in Seq(W) /\ longer \in Seq(W) /\ x \in W /\ Len(longer) = d
    BY <1>5, <1>7, <2>1
  <2>3. Len(parts) = c
    BY <1>1, <1>3, <2>2
  <2>4. \A i \in 1 .. c : longer[i] = parts[i]
    BY <1>1, <1>2, <1>3
  <2> QED
    BY <1>1, <1>6, <2>2, <2>3, <2>4
<1>9. FlattenSeq(Append(parts, x)) = FlattenSeq(parts) \o x
  BY <1>5, <1>7, FlattenAppend
<1> QED
  BY <1>1, <1>2, <1>3, <1>7, <1>8, <1>9 DEF Batch

LEMMA BatchSame ==
  ASSUME NEW ls, NEW l, NEW from, NEW c, NEW o, l \in Texts, Within(ls, from, c, o)
  PROVE  Batch(Append(ls, l), from, c, o) = Batch(ls, from, c, o)
<1>1. ls \in Seq(Texts) /\ from \in Nat /\ c \in Nat /\ from + c <= Len(ls) /\ Len(ls) \in Nat
  BY SeqFacts DEF Within
<1>2. ASSUME NEW j \in 1 .. c
      PROVE  Append(ls, l)[from + j] = ls[from + j]
  <2>1. PICK i : i = from + j
    OBVIOUS
  <2>2. i \in 1 .. Len(ls)
    BY <1>1, <2>1
  <2> QED
    BY <1>1, <2>1, <2>2, AppendFacts
<1>3. [j \in 1 .. c |-> split(Append(ls, l)[from + j], o)]
       = [j \in 1 .. c |-> split(ls[from + j], o)]
  BY <1>2
<1> QED
  BY <1>3 DEF Batch

\* Lines that have tokens make batches that have some.
LEMMA BatchFull ==
  ASSUME NEW ls, NEW from, NEW c, NEW o, Within(ls, from, c, o), c # 0,
         \A i \in 1 .. Len(ls) : split(ls[i], o) # <<>>
  PROVE  Batch(ls, from, c, o) # <<>>
<1>1. PICK b : b = c - 1
  OBVIOUS
<1>2. c \in Nat /\ from \in Nat /\ from + c <= Len(ls) /\ Len(ls) \in Nat
  BY SeqFacts DEF Within
<1>3. b \in Nat /\ c = b + 1
  BY <1>1, <1>2
<1>4. Within(ls, from, b, o)
  <2>1. from + b <= Len(ls)
    BY <1>2, <1>3
  <2> QED
    BY <1>2, <1>3, <2>1 DEF Within
<1>5. PICK i : i = from + c
  OBVIOUS
<1>6. i \in 1 .. Len(ls)
  BY <1>2, <1>3, <1>5
<1>7. split(ls[i], o) \in Seq(Words) /\ split(ls[i], o) # <<>>
  <2>1. ls[i] \in Texts
    BY <1>6 DEF Within
  <2> QED
    BY <1>6, <2>1, SplitType DEF Within
<1>8. Batch(ls, from, c, o) = Batch(ls, from, b, o) \o split(ls[i], o)
  <2>1. OneMore(b, c)
    BY <1>3 DEF OneMore
  <2>2. Batch(ls, from, c, o) = Batch(ls, from, b, o) \o split(ls[from + c], o)
    BY <2>1, BatchGrows
  <2> QED
    BY <1>5, <2>2
<1>9. Batch(ls, from, b, o) \in Seq(Words)
  BY <1>4, BatchType
<1>10. PICK u : u = Batch(ls, from, b, o)
  OBVIOUS
<1>11. PICK v : v = split(ls[i], o)
  OBVIOUS
<1>12. Len(u \o v) = Len(u) + Len(v) /\ Len(u) \in Nat /\ Len(v) \in Nat /\ Len(v) # 0
  <2>1. u \in Seq(Words) /\ v \in Seq(Words) /\ v # <<>>
    BY <1>7, <1>9, <1>10, <1>11
  <2> QED
    BY <2>1, ConcatFacts, SeqFacts
<1>13. u \o v # <<>>
  BY <1>12
<1> QED
  BY <1>8, <1>10, <1>11, <1>13

LineStates == [done : Seq(Seq(Words)), current : Seq(Words), count : Nat]

LEMMA LineStepType ==
  ASSUME NEW acc, NEW tokens, NEW n, acc \in LineStates, tokens \in Seq(Words)
  PROVE  LineStep(acc, tokens, n) \in LineStates
<1>1. acc.done \in Seq(Seq(Words)) /\ acc.current \in Seq(Words) /\ acc.count \in Nat
  BY DEF LineStates
<1>2. PICK current : current = acc.current \o tokens
  OBVIOUS
<1>3. PICK count : count = IF tokens = <<>> THEN acc.count ELSE acc.count + 1
  OBVIOUS
<1>4. current \in Seq(Words) /\ count \in Nat
  BY <1>1, <1>2, <1>3, ConcatFacts
<1>5. Append(acc.done, current) \in Seq(Seq(Words))
  BY <1>1, <1>4, AppendFacts
<1>6. LineStep(acc, tokens, n) =
        IF count = n
        THEN [done |-> Append(acc.done, current), current |-> <<>>, count |-> 0]
        ELSE [done |-> acc.done, current |-> current, count |-> count]
  BY <1>2, <1>3 DEF LineStep
<1>7. <<>> \in Seq(Words)
  OBVIOUS
<1> QED
  BY <1>1, <1>4, <1>5, <1>6, <1>7 DEF LineStates

LEMMA LineLoopFacts ==
  ASSUME NEW lines, NEW n, NEW o, lines \in Seq(Texts), o \in PlanOptions
  PROVE  /\ LineLoop(lines, n, o) \in [0 .. Len(lines) -> LineStates]
         /\ LineLoop(lines, n, o)[0] = [done |-> <<>>, current |-> <<>>, count |-> 0]
         /\ \A k \in 0 .. Len(lines) - 1 :
              LineLoop(lines, n, o)[k + 1] =
                LineStep(LineLoop(lines, n, o)[k], split(lines[k + 1], o), n)
<1> DEFINE last == Len(lines)
           B == LineStates
           base == [done |-> <<>>, current |-> <<>>, count |-> 0]
           Body(f, i) == IF i = 0 THEN base ELSE LineStep(f[i - 1], split(lines[i], o), n)
           loop == CHOOSE f : f = [i \in 0 .. last |-> Body(f, i)]
           step == [p \in (0 .. last) \X B |->
                      IF p[1] < last THEN LineStep(p[2], split(lines[p[1] + 1], o), n) ELSE p[2]]
<1>1. last \in Nat /\ \A i \in 1 .. last : split(lines[i], o) \in Seq(Words)
  BY SeqFacts, SplitType
<1>2. ASSUME NEW k \in 0 .. last, NEW a \in B
      PROVE  /\ step[<<k, a>>] \in B
             /\ k < last => step[<<k, a>>] = LineStep(a, split(lines[k + 1], o), n)
  <2> HIDE DEF B
  <2>1. step[<<k, a>>] = IF k < last THEN LineStep(a, split(lines[k + 1], o), n) ELSE a
    OBVIOUS
  <2> HIDE DEF step
  <2>2. k < last => split(lines[k + 1], o) \in Seq(Words)
    BY <1>1
  <2>3. k < last => LineStep(a, split(lines[k + 1], o), n) \in B
    BY <2>2, LineStepType DEF B
  <2> QED
    BY <2>1, <2>3
<1>3. Steps(B, base, step, 0, last)
  <2>1. base \in B
    BY DEF LineStates
  <2> HIDE DEF step, base, B
  <2>2. 0 \in Nat /\ last \in Nat /\ 0 <= last
    BY <1>1
  <2>3. \A k \in 0 .. last : \A a \in B : step[<<k, a>>] \in B
    BY <1>2
  <2> HIDE DEF last
  <2> QED
    BY <2>1, <2>2, <2>3, Zenon DEF Steps
<1>4. PICK g : Follows(g, B, base, step, 0, last)
  <2> HIDE DEF step, B, base, last
  <2> QED
    BY <1>3, Recursion, Zenon
<1>5. /\ g \in [0 .. last -> B] /\ g[0] = base
      /\ \A k \in 0 .. last - 1 : g[k + 1] = LineStep(g[k], split(lines[k + 1], o), n)
  <2> HIDE DEF step, B, base
  <2>1. g \in [0 .. last -> B] /\ g[0] = base
    BY <1>4 DEF Follows
  <2>2. ASSUME NEW k \in 0 .. last - 1
        PROVE  g[k + 1] = LineStep(g[k], split(lines[k + 1], o), n)
    <3>1. g[k + 1] = step[<<k, g[k]>>]
      BY <1>4, <2>2 DEF Follows
    <3>2. k \in 0 .. last /\ k < last /\ g[k] \in B
      BY <1>1, <2>1
    <3> QED
      BY <3>1, <3>2, <1>2
  <2> QED
    BY <2>1, <2>2
<1>6. g = [i \in 0 .. last |-> Body(g, i)]
  <2>1. ASSUME NEW i \in 0 .. last
        PROVE  g[i] = Body(g, i)
    <3>1. CASE i = 0
      BY <3>1, <1>5
    <3>2. CASE i # 0
      <4>1. PICK k : k = i - 1
        OBVIOUS
      <4>2. k \in 0 .. last - 1 /\ i = k + 1
        BY <3>2, <4>1, <1>1
      <4>3. g[k + 1] = LineStep(g[k], split(lines[k + 1], o), n)
        BY <4>2, <1>5
      <4> QED
        BY <3>2, <4>1, <4>2, <4>3
    <3> QED
      BY <3>1, <3>2
  <2> HIDE DEF Body, B
  <2> QED
    BY <2>1, <1>5
<1>7. loop = [i \in 0 .. last |-> Body(loop, i)]
  BY <1>6
<1>8. Agree(loop, g, 0, last)
  <2> HIDE DEF loop
  <2>1. loop[0] = g[0]
    BY <1>1, <1>5, <1>7
  <2>2. ASSUME NEW k \in 0 .. last - 1, loop[k] = g[k]
        PROVE  loop[k + 1] = g[k + 1]
    <3>1. k + 1 \in 0 .. last /\ k + 1 # 0 /\ (k + 1) - 1 = k
      BY <1>1
    <3>2. loop[k + 1] = Body(loop, k + 1)
      BY <1>7, <3>1
    <3> HIDE DEF base
    <3> QED
      BY <1>5, <2>2, <3>1, <3>2
  <2> QED
    BY <1>1, <2>1, <2>2 DEF Agree
<1>9. loop = g
  <2> HIDE DEF loop, B
  <2>1. \A k \in 0 .. last : loop[k] = g[k]
    BY <1>8, SameRecursion
  <2> QED
    BY <1>5, <1>7, <2>1
<1>10. LineLoop(lines, n, o) = loop
  BY DEF LineLoop
<1> QED
  <2> HIDE DEF loop
  <2> QED
    BY <1>1, <1>5, <1>9, <1>10

\* What the loop has done when ls are the lines with tokens so far: n of them make a batch.
GroupInv(acc, ls, n, o) ==
  /\ ls \in Seq(Texts) /\ o \in PlanOptions /\ n \in Nat \ {0}
  /\ acc \in LineStates /\ acc.count < n
  /\ Len(ls) = n * Len(acc.done) + acc.count
  /\ \A i \in 1 .. Len(ls) : split(ls[i], o) # <<>>
  /\ \A i \in 1 .. Len(acc.done) : acc.done[i] = Batch(ls, n * (i - 1), n, o)
  /\ acc.current = Batch(ls, n * Len(acc.done), acc.count, o)

LEMMA GroupStart ==
  ASSUME NEW n, NEW o, n \in Nat \ {0}, o \in PlanOptions
  PROVE  GroupInv([done |-> <<>>, current |-> <<>>, count |-> 0], <<>>, n, o)
<1>1. <<>> \in Seq(Texts) /\ Len(<<>>) = n * 0 + 0
  OBVIOUS
<1>2. [done |-> <<>>, current |-> <<>>, count |-> 0] \in LineStates
  BY DEF LineStates
<1> QED
  BY <1>1, <1>2, BatchEmpty DEF GroupInv

LEMMA Times ==
  ASSUME NEW n, NEW m, n \in Nat, m \in Nat
  PROVE  /\ n * (m + 1) = n * m + n
         /\ n * m \in Nat
         /\ (m + 1) - 1 = m
OBVIOUS

LEMMA TimesMonotone ==
  ASSUME NEW n, NEW i, NEW m, n \in Nat, i \in Nat, m \in Nat, i < m
  PROVE  n * i + n <= n * m
<1>1. PICK k : k = m - (i + 1)
  OBVIOUS
<1>2. k \in Nat /\ m = (i + 1) + k
  BY <1>1
<1>3. n * m = n * (i + 1) + n * k
  BY <1>2
<1>4. n * (i + 1) = n * i + n /\ n * k >= 0
  BY <1>2
<1> QED
  BY <1>3, <1>4, <1>2

\* The groups before the last are inside what there is.
LEMMA GroupWithin ==
  ASSUME NEW acc, NEW ls, NEW n, NEW o, GroupInv(acc, ls, n, o)
  PROVE  /\ Within(ls, n * Len(acc.done), acc.count, o)
         /\ \A i \in 1 .. Len(acc.done) :
              /\ Within(ls, n * (i - 1), n, o)
              /\ n * (i - 1) + n <= n * Len(acc.done)
<1>1. PICK m : m = Len(acc.done)
  OBVIOUS
<1>2. /\ ls \in Seq(Texts) /\ o \in PlanOptions /\ n \in Nat \ {0} /\ acc \in LineStates
      /\ Len(ls) = n * m + acc.count /\ Len(ls) \in Nat
  BY <1>1, SeqFacts DEF GroupInv
<1>3. m \in Nat /\ acc.count \in Nat
  <2>1. acc.done \in Seq(Seq(Words)) /\ acc.count \in Nat
    BY <1>2 DEF LineStates
  <2> QED
    BY <1>1, <2>1
<1>4. n * m \in Nat
  BY <1>2, <1>3
<1>5. Within(ls, n * m, acc.count, o)
  <2>1. PICK from : from = n * m
    OBVIOUS
  <2>2. from \in Nat /\ from + acc.count <= Len(ls)
    BY <1>2, <1>3, <1>4, <2>1
  <2> QED
    BY <1>2, <1>3, <2>1, <2>2 DEF Within
<1>6. ASSUME NEW i \in 1 .. m
      PROVE  Within(ls, n * (i - 1), n, o) /\ n * (i - 1) + n <= n * m
  <2>1. PICK h : h = i - 1
    OBVIOUS
  <2>2. h \in Nat /\ h < m
    BY <1>3, <2>1
  <2>3. n * h + n <= n * m /\ n * h \in Nat
    BY <1>2, <1>3, <2>2, TimesMonotone
  <2>4. PICK from : from = n * h
    OBVIOUS
  <2>5. from \in Nat /\ from + n <= Len(ls)
    <3>1. PICK all : all = n * m
      OBVIOUS
    <3> QED
      BY <1>2, <1>3, <1>4, <2>3, <2>4, <3>1
  <2>6. Within(ls, from, n, o)
    BY <1>2, <2>5 DEF Within
  <2> QED
    BY <2>1, <2>3, <2>4, <2>6
<1> QED
  BY <1>1, <1>5, <1>6

\* The line itself if it has tokens.
IfTokens(l, o) == IF split(l, o) = <<>> THEN <<>> ELSE <<l>>

LEMMA GroupStep ==
  ASSUME NEW acc, NEW ls, NEW n, NEW o, NEW l, GroupInv(acc, ls, n, o), l \in Texts
  PROVE  GroupInv(LineStep(acc, split(l, o), n), ls \o IfTokens(l, o), n, o)
<1>1. PICK m : m = Len(acc.done)
  OBVIOUS
<1>2. PICK tokens : tokens = split(l, o)
  OBVIOUS
<1>3. /\ ls \in Seq(Texts) /\ o \in PlanOptions /\ n \in Nat \ {0} /\ acc \in LineStates
      /\ acc.count < n /\ Len(ls) = n * m + acc.count /\ Len(ls) \in Nat
      /\ \A i \in 1 .. Len(ls) : split(ls[i], o) # <<>>
      /\ \A i \in 1 .. m : acc.done[i] = Batch(ls, n * (i - 1), n, o)
      /\ acc.current = Batch(ls, n * m, acc.count, o)
  BY <1>1, SeqFacts DEF GroupInv
<1>4. /\ acc.done \in Seq(Seq(Words)) /\ acc.current \in Seq(Words) /\ acc.count \in Nat
      /\ m \in Nat
  <2>1. acc.done \in Seq(Seq(Words)) /\ acc.current \in Seq(Words) /\ acc.count \in Nat
    BY <1>3 DEF LineStates
  <2> QED
    BY <1>1, <2>1
<1>5. tokens \in Seq(Words)
  BY <1>2, <1>3, SplitType
<1>6. CASE tokens = <<>>
  <2>1. acc.current \o tokens = acc.current
    BY <1>4, <1>6, ConcatFacts
  <2>2. acc.count # n
    BY <1>3, <1>4
  <2>3. LineStep(acc, tokens, n) = [done |-> acc.done, current |-> acc.current, count |-> acc.count]
    BY <1>6, <2>1, <2>2 DEF LineStep
  <2>4. LineStep(acc, tokens, n) = acc
    BY <1>3, <2>3 DEF LineStates
  <2>5. ls \o IfTokens(l, o) = ls
    BY <1>2, <1>3, <1>6, ConcatFacts DEF IfTokens
  <2> QED
    BY <1>2, <2>4, <2>5
<1>7. CASE tokens # <<>>
  <2>1. PICK longer : longer = Append(ls, l)
    OBVIOUS
  <2>2. ls \o IfTokens(l, o) = longer
    <3>1. ls \o <<l>> = Append(ls, l)
      BY <1>3
    <3> QED
      BY <1>2, <1>7, <2>1, <3>1 DEF IfTokens
  <2>3. /\ longer \in Seq(Texts) /\ Len(longer) = Len(ls) + 1
        /\ \A i \in 1 .. Len(ls) : longer[i] = ls[i]
        /\ longer[Len(ls) + 1] = l
    BY <1>3, <2>1, AppendFacts
  <2>4. PICK from : from = n * m
    OBVIOUS
  <2>5. PICK c : c = acc.count
    OBVIOUS
  <2>6. PICK d : d = c + 1
    OBVIOUS
  <2>7. from \in Nat /\ c \in Nat /\ d \in Nat /\ Len(ls) = from + c /\ d <= n /\ d # 0
    BY <1>3, <1>4, <2>4, <2>5, <2>6
  <2>8. PICK current : current = acc.current \o tokens
    OBVIOUS
  <2>9. current = Batch(longer, from, d, o)
    <3>1. Within(longer, from, d, o) /\ OneMore(c, d)
      <4>1. from + d <= Len(longer)
        BY <2>3, <2>6, <2>7
      <4> QED
        BY <1>3, <2>3, <2>6, <2>7, <4>1 DEF Within, OneMore
    <3>2. Batch(longer, from, d, o) = Batch(longer, from, c, o) \o split(longer[from + d], o)
      BY <3>1, BatchGrows
    <3>3. from + d = Len(ls) + 1
      BY <2>6, <2>7
    <3>4. split(longer[from + d], o) = tokens
      BY <1>2, <2>3, <3>3
    <3>5. Within(ls, from, c, o)
      BY <1>1, <2>4, <2>5, GroupWithin
    <3>6. Batch(longer, from, c, o) = Batch(ls, from, c, o)
      BY <2>1, <3>5, BatchSame
    <3>7. Batch(ls, from, c, o) = acc.current
      BY <1>3, <2>4, <2>5
    <3> QED
      BY <2>8, <3>2, <3>4, <3>6, <3>7
  <2>10. \A i \in 1 .. m : acc.done[i] = Batch(longer, n * (i - 1), n, o)
    <3>1. ASSUME NEW i \in 1 .. m
          PROVE  acc.done[i] = Batch(longer, n * (i - 1), n, o)
      <4>1. Within(ls, n * (i - 1), n, o)
        BY <1>1, GroupWithin
      <4>2. Batch(longer, n * (i - 1), n, o) = Batch(ls, n * (i - 1), n, o)
        BY <2>1, <4>1, BatchSame
      <4> QED
        BY <1>3, <4>2
    <3> QED
      BY <3>1
  <2>11. \A i \in 1 .. Len(longer) : split(longer[i], o) # <<>>
    <3>1. ASSUME NEW i \in 1 .. Len(longer)
          PROVE  split(longer[i], o) # <<>>
      <4>1. CASE i \in 1 .. Len(ls)
        BY <1>3, <2>3, <4>1
      <4>2. CASE ~ (i \in 1 .. Len(ls))
        <5>1. i = Len(ls) + 1
          BY <1>3, <2>3, <4>2
        <5> QED
          BY <1>2, <1>7, <2>3, <5>1
      <4> QED
        BY <4>1, <4>2
    <3> QED
      BY <3>1
  <2>12. PICK after : after = LineStep(acc, tokens, n)
    OBVIOUS
  <2>13. after \in LineStates
    BY <1>3, <1>5, <2>12, LineStepType
  <2>14. after = IF d = n
                THEN [done |-> Append(acc.done, current), current |-> <<>>, count |-> 0]
                ELSE [done |-> acc.done, current |-> current, count |-> d]
    BY <1>7, <2>5, <2>6, <2>8, <2>12 DEF LineStep
  <2>15. CASE d = n
    <3>1. PICK done : done = after.done
      OBVIOUS
    <3>2. after.count = 0 /\ after.current = <<>> /\ done = Append(acc.done, current)
      BY <2>14, <2>15, <3>1
    <3>3. /\ Len(done) = m + 1
          /\ \A i \in 1 .. m : done[i] = acc.done[i]
          /\ done[m + 1] = current
      <4>1. current \in Seq(Words)
        BY <1>4, <1>5, <2>8, ConcatFacts
      <4>2. PICK B : B = Seq(Words)
        OBVIOUS
      <4>3. acc.done \in Seq(B) /\ current \in B
        BY <1>4, <4>1, <4>2
      <4> QED
        BY <1>1, <3>2, <4>3, AppendFacts
    <3>4. n * Len(done) = from + n
      BY <1>3, <1>4, <2>4, <3>3, Times
    <3>5. Len(longer) = n * Len(done) + after.count
      BY <1>3, <2>3, <2>6, <2>7, <2>15, <3>2, <3>4
    <3>6. ASSUME NEW i \in 1 .. Len(done)
          PROVE  done[i] = Batch(longer, n * (i - 1), n, o)
      <4>1. CASE i \in 1 .. m
        BY <2>10, <3>3, <4>1
      <4>2. CASE ~ (i \in 1 .. m)
        <5>1. i = m + 1 /\ i - 1 = m
          BY <1>4, <3>3, <4>2
        <5> QED
          BY <2>4, <2>9, <2>15, <3>3, <5>1
      <4> QED
        BY <4>1, <4>2
    <3>7. after.current = Batch(longer, n * Len(done), after.count, o)
      BY <3>2, BatchEmpty
    <3>8. after.count < n
      BY <1>3, <3>2
    <3>9. GroupInv(after, longer, n, o)
      BY <1>3, <2>3, <2>11, <2>13, <3>1, <3>5, <3>6, <3>7, <3>8 DEF GroupInv
    <3> QED
      BY <1>2, <2>2, <2>12, <3>9
  <2>16. CASE d # n
    <3>1. after.count = d /\ after.current = current /\ after.done = acc.done
      BY <2>14, <2>16
    <3>2. Len(longer) = n * m + after.count
      BY <2>3, <2>4, <2>6, <2>7, <3>1
    <3>3. after.count < n
      BY <1>3, <2>7, <2>16, <3>1
    <3>4. after.current = Batch(longer, n * m, after.count, o)
      BY <2>4, <2>9, <3>1
    <3>5. GroupInv(after, longer, n, o)
      BY <1>1, <1>3, <2>3, <2>10, <2>11, <2>13, <3>1, <3>2, <3>3, <3>4 DEF GroupInv
    <3> QED
      BY <1>2, <2>2, <2>12, <3>5
  <2> QED
    BY <2>15, <2>16
<1> QED
  BY <1>6, <1>7

\* The lines that have tokens, as the reference picks them.
TokenLines(lines, o) == FlattenSeq([k \in DOMAIN lines |-> IfTokens(lines[k], o)])

LEMMA GroupAll ==
  ASSUME NEW lines, NEW n, NEW o, lines \in Seq(Texts), n \in Nat \ {0}, o \in PlanOptions
  PROVE  GroupInv(LineLoop(lines, n, o)[Len(lines)], TokenLines(lines, o), n, o)
<1>1. PICK last : last = Len(lines)
  OBVIOUS
<1>2. last \in Nat /\ DOMAIN lines = 1 .. last /\ \A k \in 1 .. last : lines[k] \in Texts
  BY <1>1, SeqFacts
<1>3. PICK loop : loop = LineLoop(lines, n, o)
  OBVIOUS
<1>4. /\ loop[0] = [done |-> <<>>, current |-> <<>>, count |-> 0]
      /\ \A k \in 0 .. last - 1 :
           loop[k + 1] = LineStep(loop[k], split(lines[k + 1], o), n)
  BY <1>1, <1>3, LineLoopFacts
<1>5. PICK picks : picks = [k \in 1 .. last |-> IfTokens(lines[k], o)]
  OBVIOUS
<1>6. picks \in Seq(Seq(Texts)) /\ Len(picks) = last
  <2>1. \A k \in 1 .. last : IfTokens(lines[k], o) \in Seq(Texts)
    BY <1>2 DEF IfTokens
  <2> QED
    BY <1>2, <1>5, <2>1
<1>7. /\ Upto(picks, 0) = <<>> /\ Upto(picks, last) = picks
      /\ \A k \in 0 .. last : Upto(picks, k) \in Seq(Seq(Texts))
      /\ \A k \in 1 .. last : Upto(picks, k) = Append(Upto(picks, k - 1), picks[k])
  <2>1. PICK B : B = Seq(Texts)
    OBVIOUS
  <2>2. picks \in Seq(B)
    BY <1>6, <2>1
  <2> QED
    BY <1>6, <2>1, <2>2, UptoFacts
<1> DEFINE S == {k \in Nat : GroupInv(loop[k], FlattenSeq(Upto(picks, k)), n, o)}
<1>8. 0 \in S
  BY <1>4, <1>7, FlattenEmpty, GroupStart
<1>9. ASSUME NEW k \in 0 .. last - 1, k \in S
      PROVE  k + 1 \in S
  <2>1. PICK j : j = k + 1
    OBVIOUS
  <2>2. j \in 1 .. last /\ k = j - 1 /\ k \in 0 .. last /\ j \in Nat
    BY <1>2, <2>1
  <2>3. FlattenSeq(Upto(picks, j)) = FlattenSeq(Upto(picks, k)) \o picks[j]
    <3>1. Upto(picks, j) = Append(Upto(picks, k), picks[j])
      BY <1>7, <2>2
    <3>2. Upto(picks, k) \in Seq(Seq(Texts)) /\ picks[j] \in Seq(Texts)
      BY <1>6, <1>7, <2>2
    <3> QED
      BY <3>1, <3>2, FlattenAppend
  <2>4. picks[j] = IfTokens(lines[j], o) /\ lines[j] \in Texts
    BY <1>2, <1>5, <2>2
  <2>5. loop[j] = LineStep(loop[k], split(lines[j], o), n)
    BY <1>4, <1>9, <2>1
  <2>6. GroupInv(loop[k], FlattenSeq(Upto(picks, k)), n, o)
    BY <1>9
  <2>7. GroupInv(loop[j], FlattenSeq(Upto(picks, j)), n, o)
    BY <2>3, <2>4, <2>5, <2>6, GroupStep
  <2> QED
    BY <2>1, <2>2, <2>7
<1> HIDE DEF S
<1>10. Inductive(S, 0, last)
  BY <1>2, <1>8, <1>9 DEF Inductive
<1>11. last \in S
  <2>1. \A k \in 0 .. last : k \in S
    BY <1>10, RangeInduction
  <2> QED
    BY <1>2, <2>1
<1>12. TokenLines(lines, o) = FlattenSeq(Upto(picks, last))
  BY <1>2, <1>5, <1>7 DEF TokenLines
<1> QED
  BY <1>1, <1>3, <1>11, <1>12 DEF S

LEMMA MinPair ==
  ASSUME NEW a, NEW b, a \in Nat, b \in Nat
  PROVE  Min({a, b}) = IF a <= b THEN a ELSE b
<1>1. PICK S : S = {a, b}
  OBVIOUS
<1>2. S # {} /\ S \subseteq Nat /\ a \in S /\ b \in S
  BY <1>1
<1>3. Min(S) \in S /\ \A x \in S : Min(S) <= x
  BY <1>2, MinFacts
<1>4. (Min(S) = a \/ Min(S) = b) /\ Min(S) <= a /\ Min(S) <= b
  BY <1>1, <1>2, <1>3
<1> QED
  BY <1>1, <1>4

\* -L: what is said of the batches, n lines with tokens to each.
ByLinesShape(bs, ls, n, o) ==
  /\ bs \in Seq(Seq(Words))
  /\ bs = <<>> <=> ls = <<>>
  /\ \A i \in 1 .. Len(bs) :
       /\ bs[i] # <<>>
       /\ bs[i] = Batch(ls, n * (i - 1), Min({n, Len(ls) - n * (i - 1)}), o)

LEMMA GroupShape ==
  ASSUME NEW acc, NEW ls, NEW n, NEW o, GroupInv(acc, ls, n, o)
  PROVE  ByLinesShape(Keep(acc.done, acc.current), ls, n, o)
<1>1. PICK m : m = Len(acc.done)
  OBVIOUS
<1>2. PICK c : c = acc.count
  OBVIOUS
<1>3. PICK done : done = acc.done
  OBVIOUS
<1>4. PICK from : from = n * m
  OBVIOUS
<1>5. /\ ls \in Seq(Texts) /\ o \in PlanOptions /\ n \in Nat \ {0} /\ acc \in LineStates
      /\ c < n /\ Len(ls) = from + c /\ Len(ls) \in Nat
      /\ \A i \in 1 .. Len(ls) : split(ls[i], o) # <<>>
      /\ \A i \in 1 .. m : done[i] = Batch(ls, n * (i - 1), n, o)
      /\ acc.current = Batch(ls, from, c, o)
  BY <1>1, <1>2, <1>3, <1>4, SeqFacts DEF GroupInv
<1>6. done \in Seq(Seq(Words)) /\ acc.current \in Seq(Words) /\ c \in Nat /\ m \in Nat
  <2>1. acc.done \in Seq(Seq(Words)) /\ acc.current \in Seq(Words) /\ acc.count \in Nat
    BY <1>5 DEF LineStates
  <2> QED
    BY <1>1, <1>2, <1>3, <2>1
<1>7. from \in Nat
  BY <1>4, <1>5, <1>6
<1>8. ASSUME NEW i \in 1 .. m
      PROVE  /\ done[i] # <<>>
             /\ done[i] = Batch(ls, n * (i - 1), Min({n, Len(ls) - n * (i - 1)}), o)
  <2>1. PICK h : h = n * (i - 1)
    OBVIOUS
  <2>2. Within(ls, h, n, o) /\ h + n <= from
    BY <1>1, <1>4, <2>1, GroupWithin
  <2>3. h \in Nat
    BY <2>2 DEF Within
  <2>4. PICK r : r = Len(ls) - h
    OBVIOUS
  <2>5. r \in Nat /\ n <= r
    BY <1>5, <1>6, <1>7, <2>2, <2>3, <2>4
  <2>6. Min({n, r}) = n
    BY <1>5, <2>5, MinPair
  <2>7. Batch(ls, h, n, o) # <<>>
    BY <1>5, <2>2, BatchFull
  <2> QED
    BY <1>5, <2>1, <2>4, <2>6, <2>7
<1>9. CASE c = 0
  <2>1. acc.current = <<>>
    BY <1>5, <1>9, BatchEmpty
  <2>2. Keep(acc.done, acc.current) = done
    BY <1>3, <2>1 DEF Keep
  <2>3. done = <<>> <=> ls = <<>>
    <3>1. (done = <<>> <=> m = 0) /\ (ls = <<>> <=> Len(ls) = 0)
      BY <1>1, <1>3, <1>5, <1>6, SeqFacts
    <3>2. from = 0 <=> m = 0
      <4>1. m = 0 => from = 0
        BY <1>4, <1>5
      <4>2. ASSUME m # 0
            PROVE  from # 0
        <5>1. 0 < m /\ 0 \in Nat /\ n \in Nat
          BY <1>5, <1>6, <4>2
        <5>2. n * 0 + n <= n * m
          BY <1>6, <5>1, TimesMonotone
        <5>3. n * 0 = 0
          BY <1>5
        <5> QED
          BY <1>4, <1>5, <1>7, <5>2, <5>3
      <4> QED
        BY <4>1, <4>2
    <3> QED
      BY <1>5, <1>7, <1>9, <3>1, <3>2
  <2> QED
    BY <1>1, <1>3, <1>6, <1>8, <2>2, <2>3 DEF ByLinesShape
<1>10. CASE c # 0
  <2>1. Within(ls, from, c, o)
    BY <1>1, <1>2, <1>4, GroupWithin
  <2>2. acc.current # <<>>
    BY <1>5, <1>10, <2>1, BatchFull
  <2>3. PICK bs : bs = Keep(acc.done, acc.current)
    OBVIOUS
  <2>4. bs = Append(done, acc.current)
    BY <1>3, <2>2, <2>3 DEF Keep
  <2>5. /\ bs \in Seq(Seq(Words)) /\ bs # <<>> /\ Len(bs) = m + 1
        /\ \A i \in 1 .. m : bs[i] = done[i]
        /\ bs[m + 1] = acc.current
    <3>1. PICK B : B = Seq(Words)
      OBVIOUS
    <3>2. done \in Seq(B) /\ acc.current \in B
      BY <1>6, <3>1
    <3> QED
      BY <1>1, <1>3, <2>4, <3>1, <3>2, AppendFacts
  <2>6. ls # <<>>
    <3>1. Len(ls) # 0
      BY <1>5, <1>6, <1>7, <1>10
    <3> QED
      BY <1>5, <3>1, SeqFacts
  <2>7. ASSUME NEW i \in 1 .. Len(bs)
        PROVE  /\ bs[i] # <<>>
               /\ bs[i] = Batch(ls, n * (i - 1), Min({n, Len(ls) - n * (i - 1)}), o)
    <3>1. CASE i \in 1 .. m
      BY <1>8, <2>5, <3>1
    <3>2. CASE ~ (i \in 1 .. m)
      <4>1. i = m + 1 /\ i - 1 = m
        BY <1>6, <2>5, <3>2
      <4>2. bs[i] = acc.current
        BY <2>5, <4>1
      <4>3. Len(ls) - from = c
        BY <1>5, <1>6, <1>7
      <4>4. Min({n, c}) = c
        <5>1. n \in Nat /\ c \in Nat /\ ~ (n <= c)
          BY <1>5, <1>6
        <5> QED
          BY <5>1, MinPair
      <4> QED
        BY <1>4, <1>5, <2>2, <4>1, <4>2, <4>3, <4>4
    <3> QED
      BY <3>1, <3>2
  <2>8. ByLinesShape(bs, ls, n, o)
    BY <2>5, <2>6, <2>7 DEF ByLinesShape
  <2> QED
    BY <2>3, <2>8
<1> QED
  BY <1>9, <1>10

LEMMA ByLinesFacts ==
  ASSUME NEW lines, NEW n, NEW o, lines \in Seq(Texts), n \in Nat \ {0}, o \in PlanOptions
  PROVE  ByLinesShape(ByLines(lines, n, o), TokenLines(lines, o), n, o)
BY GroupAll, GroupShape DEF ByLines

-----------------------------------------------------------------------------
(* Batches by count.                                                       *)

LEMMA DivMod ==
  ASSUME NEW len, NEW n, len \in Nat, n \in Nat \ {0}
  PROVE  /\ len \div n \in Nat /\ len % n \in Nat /\ len % n < n
         /\ len = n * (len \div n) + (len % n)
<1>1. len \in Int /\ n \in Int /\ n > 0
  OBVIOUS
<1>2. len = n * (len \div n) + (len % n)
  BY <1>1
<1>3. len \div n \in Nat /\ len % n \in Nat /\ len % n < n
  OBVIOUS
<1> QED
  BY <1>2, <1>3

\* -mx: what is said of the batches, n tokens to each.
ByCountShape(bs, tokens, n) ==
  /\ bs \in Seq(Seq(Words))
  /\ bs = <<>> <=> tokens = <<>>
  /\ \A i \in 1 .. Len(bs) :
       /\ bs[i] # <<>>
       /\ n * (i - 1) \in Nat
       /\ n * (i - 1) + Len(bs[i]) <= Len(tokens)
       /\ Len(bs[i]) <= n
       /\ i < Len(bs) => Len(bs[i]) = n
       /\ i = Len(bs) => n * (i - 1) + Len(bs[i]) = Len(tokens)
       /\ bs[i] = SubSeq(tokens, n * (i - 1) + 1, n * (i - 1) + Len(bs[i]))

LEMMA ByCountFacts ==
  ASSUME NEW tokens, NEW n, tokens \in Seq(Words), n \in Nat \ {0}
  PROVE  ByCountShape(ByCount(tokens, n), tokens, n)
<1>1. PICK len : len = Len(tokens)
  OBVIOUS
<1>2. PICK full : full = len \div n
  OBVIOUS
<1>3. PICK r : r = len % n
  OBVIOUS
<1>4. PICK count : count = IF r = 0 THEN full ELSE full + 1
  OBVIOUS
<1>5. PICK bs : bs = ByCount(tokens, n)
  OBVIOUS
<1>6. PICK all : all = n * full
  OBVIOUS
<1>7. /\ len \in Nat /\ full \in Nat /\ r \in Nat /\ r < n /\ len = all + r /\ all \in Nat
      /\ count \in Nat
  <2>1. len \in Nat
    BY <1>1, SeqFacts
  <2>2. full \in Nat /\ r \in Nat /\ r < n /\ len = all + r
    BY <1>2, <1>3, <1>6, <2>1, DivMod
  <2>3. all \in Nat
    BY <1>6, <2>2
  <2> QED
    BY <1>4, <2>1, <2>2, <2>3
<1>8. bs = [i \in 1 .. count |-> SubSeq(tokens, n * (i - 1) + 1, Min({n * i, len}))]
  BY <1>1, <1>2, <1>3, <1>4, <1>5 DEF ByCount
<1>9. ASSUME NEW i \in 1 .. count
      PROVE  /\ n * (i - 1) \in Nat
             /\ i # count \/ r = 0 => n * (i - 1) + n <= len /\ Min({n * i, len}) = n * (i - 1) + n
             /\ i = count /\ r # 0 => n * (i - 1) + r = len /\ Min({n * i, len}) = len
             /\ i = count /\ r = 0 => n * (i - 1) + n = len
  <2>1. PICK h : h = i - 1
    OBVIOUS
  <2>2. h \in Nat /\ h < count /\ i = h + 1 /\ i \in Nat
    BY <1>7, <2>1
  <2>3. PICK from : from = n * h
    OBVIOUS
  <2>4. from \in Nat /\ n * i = from + n
    BY <2>2, <2>3, Times
  <2>5. i # count \/ r = 0 => from + n <= all
    <3>1. ASSUME i # count \/ r = 0
          PROVE  h < full
      BY <1>4, <1>7, <2>2, <3>1
    <3>2. h < full => n * h + n <= n * full
      BY <1>7, <2>2, TimesMonotone
    <3> QED
      BY <1>6, <2>3, <3>1, <3>2
  <2>6. i = count /\ r # 0 => from = all
    <3>1. ASSUME i = count, r # 0
          PROVE  h = full
      BY <1>4, <1>7, <2>2, <3>1
    <3> QED
      BY <1>6, <2>3, <3>1
  <2>7. i = count /\ r = 0 => from + n = all
    BY <1>4, <1>6, <2>4
  <2>8. Min({n * i, len}) = IF from + n <= len THEN from + n ELSE len
    <3>1. PICK to : to = from + n
      OBVIOUS
    <3>2. to \in Nat
      BY <2>4, <3>1
    <3>3. Min({to, len}) = IF to <= len THEN to ELSE len
      BY <1>7, <3>2, MinPair
    <3> QED
      BY <2>4, <3>1, <3>3
  <2>9. PICK min : min = Min({n * i, len})
    OBVIOUS
  <2> QED
    BY <1>7, <2>1, <2>3, <2>4, <2>5, <2>6, <2>7, <2>8, <2>9
<1>10. ASSUME NEW i \in 1 .. count
       PROVE  /\ bs[i] \in Seq(Words) /\ bs[i] # <<>>
              /\ n * (i - 1) \in Nat
              /\ n * (i - 1) + Len(bs[i]) <= len
              /\ Len(bs[i]) <= n
              /\ i < count => Len(bs[i]) = n
              /\ i = count => n * (i - 1) + Len(bs[i]) = len
              /\ bs[i] = SubSeq(tokens, n * (i - 1) + 1, n * (i - 1) + Len(bs[i]))
  <2>1. PICK from : from = n * (i - 1)
    OBVIOUS
  <2>2. PICK most : most = IF i # count \/ r = 0 THEN n ELSE r
    OBVIOUS
  <2>3. /\ from \in Nat /\ most \in Nat \ {0} /\ from + most <= len /\ most <= n
        /\ i = count => from + most = len
        /\ i < count => most = n
    <3>1. from \in Nat
      BY <1>9, <2>1
    <3>2. CASE i # count \/ r = 0
      <4>1. most = n /\ from + n <= len
        BY <1>9, <2>1, <2>2, <3>2
      <4>2. i = count => from + n = len
        BY <1>9, <2>1, <3>2
      <4> QED
        BY <1>7, <3>1, <4>1, <4>2
    <3>3. CASE ~ (i # count \/ r = 0)
      <4>1. most = r /\ from + r = len
        BY <1>9, <2>1, <2>2, <3>3
      <4> QED
        BY <1>7, <3>1, <3>3, <4>1
    <3> QED
      BY <3>2, <3>3
  <2>4. PICK to : to = from + most
    OBVIOUS
  <2>5. bs[i] = SubSeq(tokens, from + 1, to)
    <3>1. Min({n * i, len}) = to
      BY <1>7, <1>9, <2>1, <2>2, <2>4
    <3> QED
      BY <1>8, <2>1, <3>1
  <2>6. PICK first : first = from + 1
    OBVIOUS
  <2>7. first \in Nat \ {0} /\ to \in Nat /\ to <= Len(tokens) /\ to + 1 - first = most
        /\ first <= to + 1
    BY <1>1, <2>3, <2>4, <2>6
  <2>8. bs[i] \in Seq(Words) /\ Len(bs[i]) = most
    <3>1. /\ SubSeq(tokens, first, to) \in Seq(Words)
          /\ Len(SubSeq(tokens, first, to)) = to + 1 - first
      BY <2>7, SubTexts
    <3> QED
      BY <2>5, <2>6, <2>7, <3>1
  <2>9. bs[i] # <<>>
    BY <2>3, <2>8
  <2> QED
    BY <1>7, <2>1, <2>3, <2>4, <2>5, <2>8, <2>9
<1>11. bs \in Seq(Seq(Words)) /\ Len(bs) = count
  <2>1. PICK B : B = Seq(Words)
    OBVIOUS
  <2>2. \A i \in 1 .. count : bs[i] \in B
    BY <1>10, <2>1
  <2>3. DOMAIN bs = 1 .. count /\ bs = [i \in 1 .. count |-> bs[i]]
    BY <1>8
  <2>4. bs \in [1 .. count -> B]
    BY <2>2, <2>3
  <2>5. bs \in Seq(B) /\ Len(bs) = count
    BY <1>7, <2>4
  <2> QED
    BY <2>1, <2>5
<1>12. bs = <<>> <=> tokens = <<>>
  <2>1. (bs = <<>> <=> count = 0) /\ (tokens = <<>> <=> len = 0)
    BY <1>1, <1>11, SeqFacts
  <2>2. count = 0 => len = 0
    <3>1. count = 0 => full = 0 /\ r = 0
      BY <1>4, <1>7
    <3> QED
      BY <1>6, <1>7, <3>1
  <2>3. len = 0 => count = 0
    <3>1. ASSUME count # 0
          PROVE  len # 0
      <4>1. 1 \in 1 .. count
        BY <1>7, <3>1
      <4>2. PICK b : b = bs[1]
        OBVIOUS
      <4>3. b \in Seq(Words) /\ b # <<>> /\ Len(b) <= len
        <5>1. PICK h : h = n * (1 - 1)
          OBVIOUS
        <5>2. h = 0
          BY <5>1
        <5>3. b \in Seq(Words) /\ b # <<>> /\ h + Len(b) <= len
          BY <1>10, <4>1, <4>2, <5>1
        <5>4. Len(b) \in Nat
          BY <5>3, SeqFacts
        <5> QED
          BY <5>2, <5>3, <5>4
      <4> QED
        BY <1>7, <4>3, SeqFacts
    <3> QED
      BY <3>1
  <2> QED
    BY <2>1, <2>2, <2>3
<1> QED
  BY <1>1, <1>5, <1>10, <1>11, <1>12 DEF ByCountShape

-----------------------------------------------------------------------------
(* What main() plans for a text.                                           *)

\* The batches before main() decides about the bare command.
Made(s, o) == IF o.holder = "p" THEN [i \in DOMAIN split(s, o) |-> <<split(s, o)[i]>>]
                                ELSE makeBatches(s, o)

NoTokenIn(s, o) == IF o.maxLines > 0 THEN WordLines(s, o) = <<>> ELSE split(s, o) = <<>>

LEMMA OptionFacts ==
  ASSUME NEW o, o \in PlanOptions
  PROVE  /\ o.maxArgs \in Nat /\ o.maxLines \in Nat
         /\ o.maxArgs = 0 \/ o.maxLines = 0
         /\ o.holder = "p" => o.maxArgs = 0 /\ o.maxLines = 0
         /\ o.holder \in {"none", "p", "J"}
         /\ o.noRunEmpty \in BOOLEAN
         /\ o.delimiter = <<>> \/ o.delimiter \in Words
<1>1. /\ o.maxArgs \in Limits /\ o.maxLines \in Limits
      /\ o.maxArgs = 0 \/ o.maxLines = 0
      /\ o.holder = "p" => o.maxArgs = 0 /\ o.maxLines = 0
      /\ o.holder \in {"none", "p", "J"}
      /\ o.noRunEmpty \in BOOLEAN
      /\ o.delimiter \in Delimiters
  BY DEF PlanOptions
<1>2. Limits \subseteq Nat
  BY ParameterAssumption
<1>3. <<"blank">> \in Words /\ <<"blank", "blank">> \in Words
  <2>1. "blank" \in Classes
    BY DEF Classes
  <2> QED
    BY <2>1 DEF Words, Texts
<1> QED
  BY <1>1, <1>2, <1>3 DEF Delimiters

LEMMA Singles ==
  ASSUME NEW tokens, tokens \in Seq(Words)
  PROVE  /\ [i \in DOMAIN tokens |-> <<tokens[i]>>] \in Seq(Seq(Words))
         /\ Len([i \in DOMAIN tokens |-> <<tokens[i]>>]) = Len(tokens)
<1>1. PICK n : n = Len(tokens)
  OBVIOUS
<1>2. n \in Nat /\ DOMAIN tokens = 1 .. n /\ \A i \in 1 .. n : tokens[i] \in Words
  BY <1>1, SeqFacts
<1>3. \A i \in 1 .. n : <<tokens[i]>> \in Seq(Words)
  BY <1>2
<1>4. [i \in 1 .. n |-> <<tokens[i]>>] \in Seq(Seq(Words))
  BY <1>2, <1>3
<1>5. Len([i \in 1 .. n |-> <<tokens[i]>>]) = n
  BY <1>2
<1> QED
  BY <1>1, <1>2, <1>4, <1>5

LEMMA MadeFacts ==
  ASSUME NEW s, NEW o, s \in Texts, o \in PlanOptions
  PROVE  /\ Made(s, o) \in Seq(Seq(Words))
         /\ \A i \in 1 .. Len(Made(s, o)) : Made(s, o)[i] # <<>>
         /\ Made(s, o) = <<>> <=> NoTokenIn(s, o)
         /\ o.maxLines > 0 => ByLinesShape(Made(s, o), WordLines(s, o), o.maxLines, o)
         /\ o.maxArgs > 0 => ByCountShape(Made(s, o), split(s, o), o.maxArgs)
<1>1. PICK tokens : tokens = split(s, o)
  OBVIOUS
<1>2. PICK made : made = Made(s, o)
  OBVIOUS
<1>3. tokens \in Seq(Words)
  BY <1>1, SplitType
<1>4. /\ o.maxArgs \in Nat /\ o.maxLines \in Nat
      /\ o.maxArgs = 0 \/ o.maxLines = 0
      /\ o.holder = "p" => o.maxArgs = 0 /\ o.maxLines = 0
  BY OptionFacts
<1>5. CASE o.holder = "p"
  <2>1. made = [i \in DOMAIN tokens |-> <<tokens[i]>>]
    BY <1>1, <1>2, <1>5 DEF Made
  <2>2. made \in Seq(Seq(Words)) /\ Len(made) = Len(tokens)
    BY <1>3, <2>1, Singles
  <2>3. \A i \in 1 .. Len(made) : made[i] # <<>>
    <3>1. ASSUME NEW i \in 1 .. Len(made)
          PROVE  made[i] # <<>>
      <4>1. i \in DOMAIN tokens
        BY <1>3, <2>2, SeqFacts
      <4>2. made[i] = <<tokens[i]>>
        BY <2>1, <4>1
      <4> QED
        BY <4>2
    <3> QED
      BY <3>1
  <2>4. made = <<>> <=> tokens = <<>>
    BY <1>3, <2>2, SeqFacts
  <2>5. ~ (o.maxLines > 0) /\ ~ (o.maxArgs > 0)
    BY <1>4, <1>5
  <2> QED
    BY <1>1, <1>2, <2>2, <2>3, <2>4, <2>5 DEF NoTokenIn
<1>6. CASE o.holder # "p" /\ o.maxLines > 0
  <2>1. made = ByLines(Lines(s), o.maxLines, o)
    BY <1>2, <1>6 DEF Made, makeBatches
  <2>2. WordLines(s, o) = TokenLines(Lines(s), o)
    BY DEF WordLines, TokenLines, IfTokens
  <2>3. Lines(s) \in Seq(Texts)
    BY LinesType
  <2>4. o.maxLines \in Nat \ {0}
    BY <1>4, <1>6
  <2>5. ByLinesShape(made, WordLines(s, o), o.maxLines, o)
    BY <2>1, <2>2, <2>3, <2>4, ByLinesFacts
  <2>6. ~ (o.maxArgs > 0)
    BY <1>4, <1>6
  <2>7. /\ made \in Seq(Seq(Words)) /\ (made = <<>> <=> WordLines(s, o) = <<>>)
        /\ \A i \in 1 .. Len(made) : made[i] # <<>>
    BY <2>5 DEF ByLinesShape
  <2> QED
    BY <1>2, <1>6, <2>5, <2>6, <2>7 DEF NoTokenIn
<1>7. CASE o.holder # "p" /\ o.maxLines = 0 /\ o.maxArgs > 0
  <2>1. made = ByCount(tokens, o.maxArgs)
    BY <1>1, <1>2, <1>7 DEF Made, makeBatches
  <2>2. o.maxArgs \in Nat \ {0}
    BY <1>4, <1>7
  <2>3. ByCountShape(made, tokens, o.maxArgs)
    BY <1>3, <2>1, <2>2, ByCountFacts
  <2>4. /\ made \in Seq(Seq(Words)) /\ (made = <<>> <=> tokens = <<>>)
        /\ \A i \in 1 .. Len(made) : made[i] # <<>>
    BY <2>3 DEF ByCountShape
  <2> QED
    BY <1>1, <1>2, <1>7, <2>3, <2>4 DEF NoTokenIn
<1>8. CASE o.holder # "p" /\ o.maxLines = 0 /\ o.maxArgs = 0
  <2>1. made = Keep(<<>>, tokens)
    BY <1>1, <1>2, <1>8 DEF Made, makeBatches
  <2>2. CASE tokens = <<>>
    <3>1. made = <<>>
      BY <2>1, <2>2 DEF Keep
    <3>2. made \in Seq(Seq(Words)) /\ Len(made) = 0
      BY <3>1
    <3> QED
      BY <1>1, <1>2, <1>8, <2>2, <3>1, <3>2 DEF NoTokenIn
  <2>3. CASE tokens # <<>>
    <3>1. made = <<tokens>>
      BY <2>1, <2>3 DEF Keep
    <3>2. made \in Seq(Seq(Words)) /\ made # <<>> /\ Len(made) = 1 /\ made[1] = tokens
      BY <1>3, <3>1
    <3> QED
      BY <1>1, <1>2, <1>8, <2>3, <3>2 DEF NoTokenIn
  <2> QED
    BY <2>2, <2>3
<1> QED
  BY <1>4, <1>5, <1>6, <1>7, <1>8

-----------------------------------------------------------------------------
(* The inductive invariant: what main() has made of the text so far.       *)

BatchInv ==
  /\ options \in PlanOptions
  /\ input \in Texts
  /\ text \in Texts
  /\ stage \in {"read", "batch", "build", "run", "exit"}
  /\ stage \in {"build", "run"} =>
       batches = PlannedBatches(text, options) /\ batches # <<>>
  /\ stage = "run" => argvs = [i \in DOMAIN batches |-> argvOf(batches[i], options)]
  /\ stage = "exit" /\ status # "1" => options.noRunEmpty \/ options.holder # "none"

LEMMA InputType ==
  ASSUME PlanInit
  PROVE  input \in Texts
<1>1. PICK n \in 0 .. InputLength : input \in [1 .. n -> Chars]
  BY DEF PlanInit
<1>2. n \in Nat /\ Chars \subseteq Classes
  BY ParameterAssumption DEF Classes
<1>3. input \in [1 .. n -> Classes]
  BY <1>1, <1>2
<1> QED
  BY <1>2, <1>3 DEF Texts

LEMMA BatchInit == PlanInit => BatchInv
<1>1. ASSUME PlanInit
      PROVE  BatchInv
  <2>1. input \in Texts
    BY <1>1, InputType
  <2>2. <<>> \in Texts
    BY DEF Texts
  <2> QED
    BY <1>1, <2>1, <2>2 DEF PlanInit, BatchInv
<1> QED
  BY <1>1

LEMMA BatchNext == BatchInv /\ [PlanNext]_planVars => BatchInv'
<1>1. SUFFICES ASSUME BatchInv, [PlanNext]_planVars
               PROVE  BatchInv'
  OBVIOUS
<1> USE DEF BatchInv
<1>2. CASE ReadInput
  <2>1. <<>> \in Texts
    BY DEF Texts
  <2>2. /\ stage = "read" /\ options' = options /\ input' = input
        /\ text' \in {input, <<>>}
        /\ \/ stage' = "exit" /\ status' = "1"
           \/ stage' = "exit" /\ options.noRunEmpty
           \/ stage' = "batch"
    BY <1>2 DEF ReadInput
  <2> QED
    BY <1>1, <2>1, <2>2
<1>3. CASE MakeBatches
  <2>1. /\ options' = options /\ input' = input /\ text' = text
        /\ batches' = PlannedBatches(text, options)
        /\ \/ batches' = <<>> /\ stage' = "exit"
           \/ batches' # <<>> /\ stage' = "build"
    BY <1>3 DEF MakeBatches
  <2>2. batches' = <<>> => options.noRunEmpty \/ options.holder # "none"
    BY <2>1 DEF PlannedBatches
  <2> QED
    BY <1>1, <2>1, <2>2
<1>4. CASE BuildArgs
  <2>1. /\ stage = "build" /\ stage' = "run"
        /\ options' = options /\ input' = input /\ text' = text /\ batches' = batches
        /\ argvs' = [i \in DOMAIN batches |-> argvOf(batches[i], options)]
    BY <1>4 DEF BuildArgs
  <2> QED
    BY <1>1, <2>1
<1>5. CASE UNCHANGED planVars
  BY <1>1, <1>5 DEF planVars
<1>6. CASE PlanEnded
  BY <1>5, <1>6 DEF PlanEnded
<1> QED
  BY <1>1, <1>2, <1>3, <1>4, <1>5, <1>6 DEF PlanNext

\* What main() has made of the text so far is always what is planned for it.
THEOREM BatchesPlanned == PlanSpec => []BatchInv
<1>1. PlanInit => BatchInv
  BY BatchInit
<1>2. BatchInv /\ [PlanNext]_planVars => BatchInv'
  BY BatchNext
<1> QED
  BY <1>1, <1>2, PTL DEF PlanSpec

-----------------------------------------------------------------------------
(* The size of the batches.                                                *)

\* Either what is planned is what was made, or there is no token and the bare command stands
\* in for it.
LEMMA PlannedFacts ==
  ASSUME NEW s, NEW o, s \in Texts, o \in PlanOptions
  PROVE  \/ /\ PlannedBatches(s, o) = Made(s, o)
            /\ ~ (NoTokenIn(s, o) /\ ~o.noRunEmpty /\ o.holder = "none")
         \/ /\ PlannedBatches(s, o) = <<<<>>>>
            /\ NoTokenIn(s, o) /\ ~o.noRunEmpty /\ o.holder = "none"
<1>1. PICK made : made = Made(s, o)
  OBVIOUS
<1>2. PlannedBatches(s, o) =
        IF made = <<>> /\ ~o.noRunEmpty /\ o.holder = "none" THEN <<<<>>>> ELSE made
  BY <1>1 DEF PlannedBatches, Made
<1>3. made = <<>> <=> NoTokenIn(s, o)
  BY <1>1, MadeFacts
<1> QED
  BY <1>1, <1>2, <1>3

LEMMA ShapeFromInv ==
  ASSUME BatchInv
  PROVE  BatchShape
<1>1. options \in PlanOptions /\ text \in Texts
  BY DEF BatchInv
<1>2. PICK made : made = Made(text, options)
  OBVIOUS
<1>3. /\ made \in Seq(Seq(Words))
      /\ \A i \in 1 .. Len(made) : made[i] # <<>>
      /\ options.maxLines > 0 => ByLinesShape(made, WordLines(text, options),
                                               options.maxLines, options)
      /\ options.maxArgs > 0 => ByCountShape(made, split(text, options), options.maxArgs)
  BY <1>1, <1>2, MadeFacts
<1>4. NoTokenIn(text, options) <=> NoToken
  BY DEF NoTokenIn, NoToken
<1>5. PICK bare : bare = (NoToken /\ ~options.noRunEmpty /\ options.holder = "none")
  OBVIOUS
<1>6. \/ PlannedBatches(text, options) = made /\ ~bare
      \/ PlannedBatches(text, options) = <<<<>>>> /\ bare
  BY <1>1, <1>2, <1>4, <1>5, PlannedFacts
<1>7. Grouped => batches = PlannedBatches(text, options)
  BY DEF BatchInv, Grouped
<1>8. Len(made) \in Nat /\ DOMAIN made = 1 .. Len(made)
  BY <1>3
<1>9. made # <<<<>>>>
  <2>1. ASSUME made = <<<<>>>>
        PROVE  FALSE
    <3>1. Len(made) = 1 /\ made[1] = <<>>
      BY <2>1
    <3> QED
      BY <1>3, <3>1
  <2> QED
    BY <2>1
<1>10. options.maxArgs \in Nat /\ options.maxLines \in Nat
  BY <1>1, OptionFacts
<1>11. ASSUME Grouped, NEW i \in DOMAIN batches, batches[i] = <<>>
       PROVE  batches = <<<<>>>>
  BY <1>3, <1>6, <1>7, <1>8, <1>11
<1>12. ASSUME Grouped, options.maxArgs > 0
       PROVE  /\ \A b \in Range(batches) : Len(b) <= options.maxArgs
              /\ \A i \in 1 .. (Len(batches) - 1) : Len(batches[i]) = options.maxArgs
  <2>1. CASE batches = made
    <3>1. /\ \A i \in 1 .. Len(made) : Len(made[i]) <= options.maxArgs
          /\ \A i \in 1 .. Len(made) : i < Len(made) => Len(made[i]) = options.maxArgs
      BY <1>3, <1>12 DEF ByCountShape
    <3>2. \A i \in 1 .. Len(made) - 1 : i \in 1 .. Len(made) /\ i < Len(made)
      BY <1>8
    <3>3. \A i \in 1 .. Len(made) - 1 : Len(made[i]) = options.maxArgs
      BY <3>1, <3>2
    <3>4. ASSUME NEW b \in Range(made)
          PROVE  Len(b) <= options.maxArgs
      <4>1. PICK i \in DOMAIN made : b = made[i]
        BY DEF Range
      <4> QED
        BY <1>8, <3>1, <4>1
    <3> QED
      BY <2>1, <3>3, <3>4
  <2>2. CASE batches = <<<<>>>>
    <3>1. Range(batches) = {<<>>} /\ Len(batches) = 1
      BY <2>2 DEF Range
    <3>2. Len(<<>>) = 0
      OBVIOUS
    <3> QED
      BY <1>10, <3>1, <3>2
  <2> QED
    BY <1>6, <1>7, <1>12, <2>1, <2>2
<1>13. ASSUME Grouped, options.maxLines > 0, NEW i \in DOMAIN batches
       PROVE  batches[i] = Batch(WordLines(text, options), options.maxLines * (i - 1),
                             Min({options.maxLines, Len(WordLines(text, options))
                                      - options.maxLines * (i - 1)}),
                             options)
  <2>1. CASE batches = made
    BY <1>3, <1>8, <1>13, <2>1 DEF ByLinesShape
  <2>2. CASE batches = <<<<>>>> /\ bare
    <3>1. WordLines(text, options) = <<>>
      BY <1>5, <1>13, <2>2 DEF NoToken
    <3>2. i = 1 /\ batches[i] = <<>>
      BY <2>2
    <3>3. options.maxLines * (1 - 1) = 0
      BY <1>10
    <3>4. Len(<<>>) - 0 = 0
      OBVIOUS
    <3>5. Min({options.maxLines, 0}) = 0
      BY <1>10, <1>13, MinPair
    <3> QED
      BY <3>1, <3>2, <3>3, <3>4, <3>5, BatchEmpty
  <2> QED
    BY <1>6, <1>7, <1>13, <2>1, <2>2
<1>14. ASSUME stage \in {"run", "exit"}, status # "1"
       PROVE  (stage = "run" /\ batches = <<<<>>>>) <=> bare
  <2>1. CASE stage = "run"
    BY <1>6, <1>7, <1>9, <2>1 DEF Grouped
  <2>2. CASE stage = "exit"
    <3>1. options.noRunEmpty \/ options.holder # "none"
      BY <1>14, <2>2 DEF BatchInv
    <3> QED
      BY <1>5, <2>2, <3>1
  <2> QED
    BY <1>14, <2>1, <2>2
<1>15. Grouped =>
         /\ \A i \in DOMAIN batches : batches[i] = <<>> => batches = <<<<>>>>
         /\ options.maxArgs > 0 =>
              /\ \A b \in Range(batches) : Len(b) <= options.maxArgs
              /\ \A i \in 1 .. (Len(batches) - 1) : Len(batches[i]) = options.maxArgs
         /\ options.maxLines > 0 =>
              LET lines == WordLines(text, options) IN
              \A i \in DOMAIN batches :
                batches[i] = FlattenSeq(
                  [k \in 1 .. Min({options.maxLines, Len(lines) - options.maxLines * (i - 1)}) |->
                     split(lines[options.maxLines * (i - 1) + k], options)])
  BY <1>11, <1>12, <1>13 DEF Batch
<1> QED
  BY <1>5, <1>14, <1>15 DEF BatchShape

\* For every text, every -mx and every -L: all batches but the last are full, none is empty
\* except the one that stands for the bare command, and that one is run exactly when the text
\* has no token and nothing forbids it.
THEOREM BatchesShaped == PlanSpec => []BatchShape
<1>1. BatchInv => BatchShape
  BY ShapeFromInv
<1> QED
  BY <1>1, BatchesPlanned, PTL

-----------------------------------------------------------------------------
(* The argument vectors.                                                   *)

\* What an argument is made of: the characters of the text and those of the command.
Letter == Classes \cup {"c"}

Arguments == Seq(Letter)

LEMMA SameSeq ==
  ASSUME NEW B, NEW s, NEW t, s \in Seq(B), t \in Seq(B), Len(s) = Len(t),
         \A i \in 1 .. Len(s) : s[i] = t[i]
  PROVE  s = t
OBVIOUS

LEMMA Tuples ==
  ASSUME NEW B, NEW s, s \in Seq(B)
  PROVE  /\ Len(s) = 1 => s = <<s[1]>>
         /\ Len(s) = 2 => s = <<s[1], s[2]>>
         /\ Len(s) = 3 => s = <<s[1], s[2], s[3]>>
OBVIOUS

LEMMA SubOne ==
  ASSUME NEW B, NEW s, s \in Seq(B)
  PROVE  \A i \in 1 .. Len(s) : SubSeq(s, i, i) = <<s[i]>>
<1>1. ASSUME NEW i \in 1 .. Len(s)
      PROVE  SubSeq(s, i, i) = <<s[i]>>
  <2>1. PICK t : t = SubSeq(s, i, i)
    OBVIOUS
  <2>2. t \in Seq(B) /\ Len(t) = 1 /\ t[1] = s[i]
    BY <2>1
  <2> QED
    BY <2>1, <2>2, Tuples
<1> QED
  BY <1>1

LEMMA FlattenOne ==
  ASSUME NEW T, NEW a, a \in Seq(T)
  PROVE  FlattenSeq(<<a>>) = a
<1>1. <<>> \in Seq(Seq(T))
  OBVIOUS
<1>2. FlattenSeq(Append(<<>>, a)) = FlattenSeq(<<>>) \o a
  BY <1>1, FlattenAppend
<1>3. Append(<<>>, a) = <<a>>
  OBVIOUS
<1>4. <<>> \o a = a
  OBVIOUS
<1> QED
  BY <1>2, <1>3, <1>4, FlattenEmpty

ThreeParts(T, ss, a, b, c) ==
  a \in Seq(T) /\ b \in Seq(T) /\ c \in Seq(T) /\ ss = <<a, b, c>>

LEMMA FlattenThree ==
  ASSUME NEW T, NEW ss, NEW a, NEW b, NEW c, ThreeParts(T, ss, a, b, c)
  PROVE  FlattenSeq(ss) = a \o b \o c
<1> USE DEF ThreeParts
<1>1. <<a>> \in Seq(Seq(T)) /\ <<a, b>> \in Seq(Seq(T))
  <2>1. PICK B : B = Seq(T)
    OBVIOUS
  <2>2. a \in B /\ b \in B
    BY <2>1
  <2>3. <<a>> \in Seq(B) /\ <<a, b>> \in Seq(B)
    BY <2>2
  <2> QED
    BY <2>1, <2>3
<1>2. FlattenSeq(<<a>>) = a
  BY FlattenOne
<1>3. FlattenSeq(Append(<<a>>, b)) = FlattenSeq(<<a>>) \o b
  BY <1>1, FlattenAppend
<1>4. FlattenSeq(Append(<<a, b>>, c)) = FlattenSeq(<<a, b>>) \o c
  BY <1>1, FlattenAppend
<1>5. Append(<<a>>, b) = <<a, b>> /\ Append(<<a, b>>, c) = <<a, b, c>>
  <2>1. PICK B : B = Seq(T)
    OBVIOUS
  <2>2. a \in B /\ b \in B /\ c \in B
    BY <2>1
  <2>3. PICK s : s = Append(<<a>>, b)
    OBVIOUS
  <2>4. s \in Seq(B) /\ Len(s) = 2 /\ s[1] = a /\ s[2] = b
    BY <2>2, <2>3
  <2>5. s = <<a, b>>
    BY <2>4, Tuples
  <2>6. PICK t : t = Append(s, c)
    OBVIOUS
  <2>7. t \in Seq(B) /\ Len(t) = 3 /\ t[1] = a /\ t[2] = b /\ t[3] = c
    <3>1. /\ t \in Seq(B) /\ Len(t) = Len(s) + 1 /\ t[Len(s) + 1] = c
          /\ \A i \in 1 .. Len(s) : t[i] = s[i]
      <4>1. s \in Seq(B) /\ c \in B
        BY <2>2, <2>4
      <4> QED
        BY <2>6, <4>1, AppendFacts
    <3> QED
      BY <2>4, <3>1
  <2>8. t = <<a, b, c>>
    BY <2>7, Tuples
  <2> QED
    BY <2>3, <2>5, <2>6, <2>8
<1> QED
  BY <1>2, <1>3, <1>4, <1>5

\* -p
LEMMA IndividualFacts ==
  ASSUME NEW v, v \in Arguments
  PROVE  replaceIndividual(Command, v) = <<<<"c">>, <<"c">> \o v \o v, v>>
<1> DEFINE expand(arg) ==
             FlattenSeq([i \in DOMAIN arg |-> IF arg[i] = "P" THEN v ELSE <<arg[i]>>])
<1>1. <<"c">> \in Arguments
  BY DEF Arguments, Letter
<1>2. expand(<<"c">>) = <<"c">>
  <2>1. [i \in DOMAIN <<"c">> |-> IF <<"c">>[i] = "P" THEN v ELSE <<<<"c">>[i]>>] = <<<<"c">>>>
    OBVIOUS
  <2> QED
    BY <1>1, <2>1, FlattenOne DEF Arguments
<1>3. expand(<<"c", "P", "P">>) = <<"c">> \o v \o v
  <2>1. PICK arg : arg = <<"c", "P", "P">>
    OBVIOUS
  <2>2. DOMAIN arg = 1 .. 3 /\ arg[1] = "c" /\ arg[2] = "P" /\ arg[3] = "P"
    BY <2>1
  <2>3. PICK parts : parts = [i \in DOMAIN arg |-> IF arg[i] = "P" THEN v ELSE <<arg[i]>>]
    OBVIOUS
  <2>4. parts[1] = <<"c">> /\ parts[2] = v /\ parts[3] = v
    BY <2>2, <2>3
  <2>5. parts = <<<<"c">>, v, v>>
    BY <2>2, <2>3, <2>4
  <2>6. PICK w : w = <<"c">>
    OBVIOUS
  <2>7. w \in Seq(Letter) /\ v \in Seq(Letter)
    BY <1>1, <2>6 DEF Arguments
  <2>8. FlattenSeq(parts) = w \o v \o v
    <3>1. ThreeParts(Letter, parts, w, v, v)
      BY <2>5, <2>6, <2>7 DEF ThreeParts
    <3> QED
      BY <3>1, FlattenThree
  <2> QED
    BY <2>1, <2>3, <2>6, <2>8
<1>4. expand(<<"P">>) = v
  <2>1. [i \in DOMAIN <<"P">> |-> IF <<"P">>[i] = "P" THEN v ELSE <<<<"P">>[i]>>] = <<v>>
    OBVIOUS
  <2> QED
    BY <2>1, FlattenOne DEF Arguments
<1>5. replaceIndividual(Command, v) = [i \in DOMAIN Command |-> expand(Command[i])]
  BY DEF replaceIndividual
<1> HIDE DEF expand
<1>6. /\ DOMAIN Command = 1 .. 3
      /\ Command[1] = <<"c">> /\ Command[2] = <<"c", "P", "P">> /\ Command[3] = <<"P">>
  BY DEF Command
<1>7. PICK whole : whole = [i \in DOMAIN Command |-> expand(Command[i])]
  OBVIOUS
<1>8. whole[1] = <<"c">> /\ whole[2] = <<"c">> \o v \o v /\ whole[3] = v
  <2>1. \A i \in 1 .. 3 : whole[i] = expand(Command[i])
    BY <1>6, <1>7
  <2>2. whole[1] = expand(Command[1]) /\ whole[2] = expand(Command[2])
        /\ whole[3] = expand(Command[3])
    BY <2>1
  <2> QED
    BY <1>2, <1>3, <1>4, <1>6, <2>2, Zenon
<1>9. whole = <<whole[1], whole[2], whole[3]>>
  BY <1>6, <1>7
<1> QED
  BY <1>5, <1>7, <1>8, <1>9

Sandwiched(v, a, x, t, z) == v = <<a>> \o (<<x>> \o t) \o <<z>>

LEMMA Sandwich ==
  ASSUME NEW B, NEW a, NEW x, NEW t, NEW z, NEW v, a \in B, x \in B, t \in Seq(B), z \in B,
         Sandwiched(v, a, x, t, z)
  PROVE  /\ Len(v) = 3 + Len(t) /\ v[1] = a /\ v[2] = x /\ Last(v) = z
         /\ SubSeq(v, 3, Len(v) - 1) = t
<1>1. v = <<a>> \o (<<x>> \o t) \o <<z>>
  BY DEF Sandwiched
<1>2. v \in Seq(B) /\ Len(v) = 3 + Len(t) /\ Len(t) \in Nat
  BY <1>1
<1>3. v[1] = a /\ v[2] = x /\ v[Len(t) + 3] = z
  BY <1>1
<1>4. \A i \in 1 .. Len(t) : v[i + 2] = t[i]
  BY <1>1
<1>5. Last(v) = z
  BY <1>2, <1>3 DEF Last
<1>6. PICK end : end = Len(v) - 1
  OBVIOUS
<1>7. 3 \in Nat \ {0} /\ end \in Nat /\ end <= Len(v) /\ end + 1 - 3 = Len(t) /\ 3 <= end + 1
  BY <1>2, <1>6
<1>8. PICK mid : mid = SubSeq(v, 3, end)
  OBVIOUS
<1>9. /\ mid \in Seq(B) /\ Len(mid) = Len(t)
      /\ \A n \in 1 .. Len(t) : mid[n] = v[3 + n - 1]
  BY <1>2, <1>7, <1>8, SubTexts
<1>10. \A n \in 1 .. Len(t) : mid[n] = t[n]
  <2>1. ASSUME NEW n \in 1 .. Len(t)
        PROVE  mid[n] = t[n]
    <3>1. 3 + n - 1 = n + 2
      BY <1>2
    <3> QED
      BY <1>4, <1>9, <3>1
  <2> QED
    BY <2>1
<1>11. mid = t
  BY <1>9, <1>10, SameSeq
<1> QED
  BY <1>2, <1>3, <1>5, <1>6, <1>8, <1>11

\* -J
LEMMA BatchReplaced ==
  ASSUME NEW b, b \in Seq(Arguments), b # <<>>
  PROVE  replaceBatch(Command, b) =
           <<<<"c">>>> \o (<<<<"c">> \o Head(b) \o <<"P">>>> \o Tail(b)) \o <<<<"P">>>>
<1>1. PICK holders : holders = {i \in DOMAIN Command : "P" \in Range(Command[i])}
  OBVIOUS
<1>2. PICK k : k = Min(holders)
  OBVIOUS
<1>3. PICK arg : arg = <<"c", "P", "P">>
  OBVIOUS
<1>4. /\ DOMAIN Command = 1 .. 3
      /\ Command[1] = <<"c">> /\ Command[2] = arg /\ Command[3] = <<"P">>
  BY <1>3 DEF Command
<1>5. arg[1] = "c" /\ arg[2] = "P" /\ arg[3] = "P" /\ DOMAIN arg = 1 .. 3 /\ Len(arg) = 3
  BY <1>3
<1>14. arg \in Seq(Letter)
  BY <1>3 DEF Letter, Classes
<1>6. k = 2
  <2>1. "P" \notin Range(<<"c">>)
    BY DEF Range
  <2>2. "P" \in Range(arg)
    BY <1>5 DEF Range
  <2>3. 1 \notin holders /\ 2 \in holders /\ holders \subseteq 1 .. 3
    BY <1>1, <1>4, <2>1, <2>2
  <2>4. holders # {} /\ holders \subseteq Nat
    BY <2>3
  <2>5. k \in holders /\ k <= 2
    BY <1>2, <2>3, <2>4, MinFacts
  <2> QED
    BY <2>3, <2>5
<1>7. PICK pos : pos = Find(Command[k], <<"P">>, 1)
  OBVIOUS
<1>8. pos = 2
  <2>1. PICK S : S = {Len(arg) + 1} \cup
          {i \in 1 .. (Len(arg) + 1 - Len(<<"P">>))
              : SubSeq(arg, i, i + Len(<<"P">>) - 1) = <<"P">>}
    OBVIOUS
  <2>2. pos = Min(S)
    BY <1>4, <1>6, <1>7, <2>1 DEF Find
  <2>3. Len(<<"P">>) = 1
    OBVIOUS
  <2>4. S = {4} \cup {i \in 1 .. 3 : SubSeq(arg, i, i) = <<"P">>}
    BY <1>5, <2>1, <2>3
  <2>5. SubSeq(arg, 1, 1) = <<"c">> /\ SubSeq(arg, 2, 2) = <<"P">>
    <3>1. \A i \in 1 .. 3 : SubSeq(arg, i, i) = <<arg[i]>>
      BY <1>5, <1>14, SubOne
    <3> QED
      BY <1>5, <3>1
  <2>6. <<"c">> # <<"P">>
    OBVIOUS
  <2>7. 1 \notin S /\ 2 \in S /\ S \subseteq 1 .. 4
    BY <2>4, <2>5, <2>6
  <2>8. S # {} /\ S \subseteq Nat
    BY <2>7
  <2>9. pos \in S /\ pos <= 2
    BY <2>2, <2>7, <2>8, MinFacts
  <2> QED
    BY <2>7, <2>9
<1>9. PICK prefix : prefix = SubSeq(Command[k], 1, pos - 1)
  OBVIOUS
<1>10. PICK suffix : suffix = SubSeq(Command[k], pos + 1, Len(Command[k]))
  OBVIOUS
<1>11. prefix = <<"c">> /\ suffix = <<"P">>
  <2>1. Command[k] = arg /\ pos - 1 = 1 /\ pos + 1 = 3
    BY <1>4, <1>6, <1>8
  <2>2. prefix = SubSeq(arg, 1, 1) /\ suffix = SubSeq(arg, 3, 3)
    BY <1>5, <1>9, <1>10, <2>1
  <2> QED
    <3>1. \A i \in 1 .. 3 : SubSeq(arg, i, i) = <<arg[i]>>
      BY <1>5, <1>14, SubOne
    <3> QED
      BY <1>5, <2>2, <3>1
<1>12. replaceBatch(Command, b) =
         SubSeq(Command, 1, k - 1) \o (<<prefix \o Head(b) \o suffix>> \o Tail(b))
           \o SubSeq(Command, k + 1, Len(Command))
  BY <1>1, <1>2, <1>7, <1>9, <1>10 DEF replaceBatch
<1>13. SubSeq(Command, 1, k - 1) = <<<<"c">>>> /\ SubSeq(Command, k + 1, Len(Command)) = <<<<"P">>>>
  <2>1. Command \in Seq(Arguments)
    BY DEF Command, Arguments, Letter, Classes
  <2>2. Len(Command) = 3
    BY DEF Command
  <2>3. SubSeq(Command, 1, 1) = <<Command[1]>> /\ SubSeq(Command, 3, 3) = <<Command[3]>>
    <3>1. \A i \in 1 .. 3 : SubSeq(Command, i, i) = <<Command[i]>>
      BY <2>1, <2>2, SubOne
    <3> QED
      BY <3>1
  <2> QED
    BY <1>4, <1>6, <2>2, <2>3
<1> QED
  BY <1>11, <1>12, <1>13

LEMMA SubstitutedFromInv ==
  ASSUME BatchInv
  PROVE  Substituted
<1>1. SUFFICES ASSUME stage = "run", NEW i \in DOMAIN argvs
               PROVE  /\ options.holder = "p" =>
                           /\ Len(argvs[i]) = Len(Command)
                           /\ argvs[i] = <<<<"c">>, <<"c">> \o batches[i][1] \o batches[i][1],
                                           batches[i][1]>>
                      /\ options.holder = "J" =>
                           /\ Len(argvs[i]) = Len(Command) + Len(batches[i]) - 1
                           /\ argvs[i][1] = Command[1] /\ Last(argvs[i]) = Last(Command)
                           /\ argvs[i][2] = <<"c">> \o Head(batches[i]) \o <<"P">>
                           /\ SubSeq(argvs[i], 3, Len(argvs[i]) - 1) = Tail(batches[i])
                      /\ options.holder = "none" => argvs[i] = Command \o batches[i]
                      /\ options.holder \in {"none", "p", "J"}
  BY DEF Substituted
<1>2. /\ options \in PlanOptions /\ text \in Texts
      /\ batches = PlannedBatches(text, options)
      /\ argvs = [j \in DOMAIN batches |-> argvOf(batches[j], options)]
  BY <1>1 DEF BatchInv
<1>3. options.holder \in {"none", "p", "J"}
  BY <1>2, OptionFacts
<1>4. PICK b : b = batches[i]
  OBVIOUS
<1>5. i \in DOMAIN batches /\ argvs[i] = argvOf(b, options)
  BY <1>2, <1>4
<1>6. ASSUME options.holder # "none"
      PROVE  /\ b \in Seq(Words) /\ b # <<>> /\ batches = Made(text, options)
             /\ i \in 1 .. Len(batches)
  <2>1. batches = Made(text, options)
    BY <1>2, <1>6, PlannedFacts
  <2>2. batches \in Seq(Seq(Words)) /\ \A j \in 1 .. Len(batches) : batches[j] # <<>>
    BY <1>2, <2>1, MadeFacts
  <2>3. PICK B : B = Seq(Words)
    OBVIOUS
  <2>4. batches \in Seq(B)
    BY <2>2, <2>3
  <2>5. i \in 1 .. Len(batches)
    BY <1>5, <2>4
  <2>6. b \in B
    BY <1>4, <2>4, <2>5
  <2> QED
    BY <1>4, <2>1, <2>2, <2>3, <2>5, <2>6
<1>7. ASSUME NEW w \in Words
      PROVE  w \in Arguments
  <2>1. Classes \subseteq Letter
    BY DEF Letter
  <2>2. w \in Seq(Classes)
    BY DEF Words, Texts
  <2> QED
    BY <2>1, <2>2 DEF Arguments
<1>8. Len(Command) = 3 /\ Command[1] = <<"c">> /\ Last(Command) = <<"P">>
  BY DEF Command, Last
<1>9. ASSUME options.holder = "p"
      PROVE  /\ Len(argvs[i]) = Len(Command)
             /\ argvs[i] = <<<<"c">>, <<"c">> \o b[1] \o b[1], b[1]>>
  <2>1. b \in Seq(Words) /\ b # <<>>
    BY <1>6, <1>9
  <2>2. Head(b) = b[1] /\ b[1] \in Words
    BY <2>1
  <2>3. b[1] \in Arguments
    BY <1>7, <2>2
  <2>4. argvs[i] = replaceIndividual(Command, b[1])
    BY <1>5, <1>9, <2>2 DEF argvOf
  <2>5. argvs[i] = <<<<"c">>, <<"c">> \o b[1] \o b[1], b[1]>>
    BY <2>3, <2>4, IndividualFacts
  <2> QED
    BY <1>8, <2>5
<1>10. ASSUME options.holder = "J"
       PROVE  /\ Len(argvs[i]) = Len(Command) + Len(b) - 1
              /\ argvs[i][1] = Command[1] /\ Last(argvs[i]) = Last(Command)
              /\ argvs[i][2] = <<"c">> \o Head(b) \o <<"P">>
              /\ SubSeq(argvs[i], 3, Len(argvs[i]) - 1) = Tail(b)
  <2>1. b \in Seq(Words) /\ b # <<>>
    BY <1>6, <1>10
  <2>2. b \in Seq(Arguments)
    BY <1>7, <2>1
  <2>3. Head(b) \in Arguments /\ Tail(b) \in Seq(Arguments) /\ Len(Tail(b)) = Len(b) - 1
        /\ Len(b) \in Nat
    BY <2>1, <2>2
  <2>4. PICK head : head = Head(b)
    OBVIOUS
  <2>5. PICK x : x = <<"c">> \o head \o <<"P">>
    OBVIOUS
  <2>6. PICK a : a = <<"c">>
    OBVIOUS
  <2>7. PICK z : z = <<"P">>
    OBVIOUS
  <2>8. PICK t : t = Tail(b)
    OBVIOUS
  <2>9. a \in Arguments /\ z \in Arguments
    <3>1. "c" \in Letter /\ "P" \in Letter
      BY DEF Letter, Classes
    <3> QED
      BY <2>6, <2>7, <3>1 DEF Arguments
  <2>10. x \in Arguments
    <3>1. a \o head \in Arguments
      BY <2>3, <2>4, <2>9, ConcatFacts DEF Arguments
    <3>2. (a \o head) \o z \in Arguments
      BY <2>9, <3>1, ConcatFacts DEF Arguments
    <3> QED
      BY <2>5, <2>6, <2>7, <3>2
  <2>11. argvs[i] = <<a>> \o (<<x>> \o t) \o <<z>>
    <3>1. argvs[i] = replaceBatch(Command, b)
      BY <1>5, <1>10 DEF argvOf
    <3> QED
      BY <2>1, <2>2, <2>4, <2>5, <2>6, <2>7, <2>8, <3>1, BatchReplaced
  <2>12. t \in Seq(Arguments)
    BY <2>3, <2>8
  <2>13. /\ Len(argvs[i]) = 3 + Len(t) /\ argvs[i][1] = a /\ argvs[i][2] = x
         /\ Last(argvs[i]) = z /\ SubSeq(argvs[i], 3, Len(argvs[i]) - 1) = t
    <3>1. Sandwiched(argvs[i], a, x, t, z)
      BY <2>11 DEF Sandwiched
    <3> QED
      BY <2>9, <2>10, <2>12, <3>1, Sandwich
  <2>14. Len(t) = Len(b) - 1
    BY <2>3, <2>8
  <2>15. Len(argvs[i]) = Len(Command) + Len(b) - 1
    BY <1>8, <2>3, <2>13, <2>14
  <2> QED
    BY <1>8, <2>4, <2>5, <2>6, <2>7, <2>8, <2>13, <2>15
<1>11. ASSUME options.holder = "none"
       PROVE  argvs[i] = Command \o b
  BY <1>5, <1>11 DEF argvOf
<1> QED
  BY <1>3, <1>4, <1>9, <1>10, <1>11

\* With -p and -J every command keeps its own arguments and the tokens of the batch appear in
\* it in order, for every text; only -J leaves placeholders of the command standing.
THEOREM ArgumentsSubstituted == PlanSpec => []Substituted
<1>1. BatchInv => Substituted
  BY SubstitutedFromInv
<1> QED
  BY <1>1, BatchesPlanned, PTL

-----------------------------------------------------------------------------
(* More about sequences put end to end.                                    *)

LEMMA ConcatAppend ==
  ASSUME NEW B, NEW s, NEW t, NEW x, s \in Seq(B), t \in Seq(B), x \in B
  PROVE  s \o Append(t, x) = Append(s \o t, x)
OBVIOUS

LEMMA ConcatAssoc ==
  ASSUME NEW B, NEW s, NEW t, NEW u, s \in Seq(B), t \in Seq(B), u \in Seq(B)
  PROVE  (s \o t) \o u = s \o (t \o u)
OBVIOUS

\* The first k elements of a sequence of sequences.
LEMMA UptoSeq ==
  ASSUME NEW T, NEW ss, ss \in Seq(Seq(T))
  PROVE  /\ Len(ss) \in Nat
         /\ Upto(ss, 0) = <<>> /\ Upto(ss, Len(ss)) = ss
         /\ \A k \in 0 .. Len(ss) : Upto(ss, k) \in Seq(Seq(T))
         /\ \A k \in 0 .. Len(ss) - 1 :
              /\ Upto(ss, k + 1) = Append(Upto(ss, k), ss[k + 1])
              /\ ss[k + 1] \in Seq(T)
              /\ Upto(ss, k) \in Seq(Seq(T))
              /\ k + 1 \in 1 .. Len(ss)
<1>1. PICK B : B = Seq(T)
  OBVIOUS
<1>2. ss \in Seq(B)
  BY <1>1
<1>3. /\ Len(ss) \in Nat
      /\ Upto(ss, 0) = <<>> /\ Upto(ss, Len(ss)) = ss
      /\ \A k \in 0 .. Len(ss) : Upto(ss, k) \in Seq(B)
      /\ \A k \in 1 .. Len(ss) : Upto(ss, k) = Append(Upto(ss, k - 1), ss[k])
      /\ \A k \in 1 .. Len(ss) : ss[k] \in B
  BY <1>2, UptoFacts, SeqFacts
<1>4. ASSUME NEW k \in 0 .. Len(ss) - 1
      PROVE  /\ Upto(ss, k + 1) = Append(Upto(ss, k), ss[k + 1])
             /\ ss[k + 1] \in Seq(T)
             /\ Upto(ss, k) \in Seq(Seq(T))
             /\ k + 1 \in 1 .. Len(ss)
  <2>1. PICK j : j = k + 1
    OBVIOUS
  <2>2. j \in 1 .. Len(ss) /\ j - 1 = k /\ k \in 0 .. Len(ss)
    BY <1>3, <2>1
  <2> QED
    BY <1>1, <1>3, <2>1, <2>2
<1> QED
  BY <1>1, <1>3, <1>4

\* Flattening two sequences of parts put end to end, and each for itself, is the same.
LEMMA FlattenConcat ==
  ASSUME NEW T, NEW ss, NEW tt, ss \in Seq(Seq(T)), tt \in Seq(Seq(T))
  PROVE  FlattenSeq(ss \o tt) = FlattenSeq(ss) \o FlattenSeq(tt)
<1> DEFINE S == {k \in Nat : FlattenSeq(ss \o Upto(tt, k))
                   = FlattenSeq(ss) \o FlattenSeq(Upto(tt, k))}
<1>1. PICK B : B = Seq(T)
  OBVIOUS
<1>2. ss \in Seq(B) /\ tt \in Seq(B)
  BY <1>1
<1>3. 0 \in S
  <2>1. ss \o <<>> = ss
    BY <1>2, ConcatFacts
  <2>2. FlattenSeq(ss) \o <<>> = FlattenSeq(ss)
    BY FlattenType, ConcatFacts
  <2> QED
    BY <2>1, <2>2, UptoSeq, FlattenEmpty
<1>4. ASSUME NEW k \in 0 .. Len(tt) - 1, k \in S
      PROVE  k + 1 \in S
  <2>1. PICK u : u = Upto(tt, k)
    OBVIOUS
  <2>2. PICK x : x = tt[k + 1]
    OBVIOUS
  <2>3. /\ Upto(tt, k + 1) = Append(u, x) /\ x \in Seq(T) /\ u \in Seq(Seq(T))
        /\ k + 1 \in Nat
    <3>1. \A j \in 0 .. Len(tt) - 1 :
            /\ Upto(tt, j + 1) = Append(Upto(tt, j), tt[j + 1])
            /\ tt[j + 1] \in Seq(T)
            /\ Upto(tt, j) \in Seq(Seq(T))
            /\ j + 1 \in 1 .. Len(tt)
      BY UptoSeq
    <3> QED
      BY <2>1, <2>2, <3>1
  <2>4. ss \o Append(u, x) = Append(ss \o u, x)
    <3>1. x \in B /\ u \in Seq(B)
      BY <1>1, <2>3
    <3> QED
      BY <1>2, <3>1, ConcatAppend
  <2>5. ss \o u \in Seq(Seq(T))
    BY <2>3, ConcatFacts
  <2>6. FlattenSeq(Append(ss \o u, x)) = FlattenSeq(ss \o u) \o x
    BY <2>3, <2>5, FlattenAppend
  <2>7. FlattenSeq(ss \o u) = FlattenSeq(ss) \o FlattenSeq(u)
    BY <1>4, <2>1
  <2>8. (FlattenSeq(ss) \o FlattenSeq(u)) \o x = FlattenSeq(ss) \o (FlattenSeq(u) \o x)
    <3>1. FlattenSeq(ss) \in Seq(T) /\ FlattenSeq(u) \in Seq(T)
      BY <2>3, FlattenType
    <3>2. PICK a : a = FlattenSeq(ss)
      OBVIOUS
    <3>3. PICK b : b = FlattenSeq(u)
      OBVIOUS
    <3>4. a \in Seq(T) /\ b \in Seq(T) /\ x \in Seq(T)
      BY <2>3, <3>1, <3>2, <3>3
    <3>5. (a \o b) \o x = a \o (b \o x)
      BY <3>4, ConcatAssoc, SMTT(30)
    <3> QED
      BY <3>2, <3>3, <3>5
  <2>9. FlattenSeq(Append(u, x)) = FlattenSeq(u) \o x
    BY <2>3, FlattenAppend
  <2> QED
    BY <2>3, <2>4, <2>6, <2>7, <2>8, <2>9
<1> HIDE DEF S
<1>5. Len(tt) \in Nat /\ Upto(tt, Len(tt)) = tt
  BY UptoSeq
<1>6. Inductive(S, 0, Len(tt))
  BY <1>3, <1>4, <1>5 DEF Inductive
<1>7. Len(tt) \in S
  <2>1. \A k \in 0 .. Len(tt) : k \in S
    BY <1>6, RangeInduction
  <2> QED
    BY <1>5, <2>1
<1> QED
  BY <1>5, <1>7 DEF S

\* inner has the parts of sss, each flattened.
FlatParts(inner, sss, T) ==
  /\ sss \in Seq(Seq(Seq(T))) /\ inner \in Seq(Seq(T)) /\ Len(inner) = Len(sss)
  /\ \A n \in 1 .. Len(sss) : inner[n] = FlattenSeq(sss[n])

LEMMA FlattenFlatten ==
  ASSUME NEW T, NEW sss, NEW inner, FlatParts(inner, sss, T)
  PROVE  FlattenSeq(FlattenSeq(sss)) = FlattenSeq(inner)
<1> DEFINE S == {k \in Nat : FlattenSeq(FlattenSeq(Upto(sss, k))) = FlattenSeq(Upto(inner, k))}
<1>1. /\ sss \in Seq(Seq(Seq(T))) /\ inner \in Seq(Seq(T)) /\ Len(inner) = Len(sss)
      /\ \A n \in 1 .. Len(sss) : inner[n] = FlattenSeq(sss[n])
  BY DEF FlatParts
<1>2. PICK last : last = Len(sss)
  OBVIOUS
<1>3. PICK B : B = Seq(T)
  OBVIOUS
<1>4. sss \in Seq(Seq(B))
  BY <1>1, <1>3
<1>5. 0 \in S
  BY <1>1, <1>4, UptoSeq, FlattenEmpty
<1>6. ASSUME NEW k \in 0 .. last - 1, k \in S
      PROVE  k + 1 \in S
  <2>1. PICK u : u = Upto(sss, k)
    OBVIOUS
  <2>2. PICK x : x = sss[k + 1]
    OBVIOUS
  <2>3. /\ Upto(sss, k + 1) = Append(u, x) /\ x \in Seq(B) /\ u \in Seq(Seq(B))
        /\ k + 1 \in 1 .. last /\ last \in Nat
    <3>1. \A j \in 0 .. Len(sss) - 1 :
            /\ Upto(sss, j + 1) = Append(Upto(sss, j), sss[j + 1])
            /\ sss[j + 1] \in Seq(B)
            /\ Upto(sss, j) \in Seq(Seq(B))
            /\ j + 1 \in 1 .. Len(sss)
      BY <1>4, UptoSeq
    <3>2. Len(sss) \in Nat
      BY <1>4, UptoSeq
    <3> QED
      BY <1>2, <2>1, <2>2, <3>1, <3>2
  <2>4. PICK v : v = Upto(inner, k)
    OBVIOUS
  <2>5. PICK y : y = inner[k + 1]
    OBVIOUS
  <2>6. Upto(inner, k + 1) = Append(v, y) /\ y \in Seq(T) /\ v \in Seq(Seq(T))
    <3>1. \A j \in 0 .. Len(inner) - 1 :
            /\ Upto(inner, j + 1) = Append(Upto(inner, j), inner[j + 1])
            /\ inner[j + 1] \in Seq(T)
            /\ Upto(inner, j) \in Seq(Seq(T))
            /\ j + 1 \in 1 .. Len(inner)
      BY <1>1, UptoSeq
    <3> QED
      BY <1>1, <1>2, <2>4, <2>5, <3>1
  <2>7. y = FlattenSeq(x)
    BY <1>1, <1>2, <2>2, <2>3, <2>5
  <2>8. FlattenSeq(Append(u, x)) = FlattenSeq(u) \o x
    BY <2>3, FlattenAppend
  <2>9. FlattenSeq(FlattenSeq(u) \o x) = FlattenSeq(FlattenSeq(u)) \o FlattenSeq(x)
    <3>1. FlattenSeq(u) \in Seq(B)
      BY <2>3, FlattenType
    <3>2. FlattenSeq(u) \in Seq(Seq(T)) /\ x \in Seq(Seq(T))
      BY <1>3, <2>3, <3>1
    <3> QED
      BY <3>2, FlattenConcat
  <2>10. FlattenSeq(Append(v, y)) = FlattenSeq(v) \o y
    BY <2>6, FlattenAppend
  <2>11. FlattenSeq(FlattenSeq(u)) = FlattenSeq(v)
    BY <1>6, <2>1, <2>4
  <2>12. k + 1 \in Nat
    BY <2>3
  <2> QED
    BY <2>3, <2>6, <2>7, <2>8, <2>9, <2>10, <2>11, <2>12
<1> HIDE DEF S
<1>7. last \in Nat /\ Upto(sss, last) = sss /\ Upto(inner, last) = inner
  BY <1>1, <1>2, <1>4, UptoSeq
<1>8. Inductive(S, 0, last)
  BY <1>5, <1>6, <1>7 DEF Inductive
<1>9. last \in S
  <2>1. \A k \in 0 .. last : k \in S
    BY <1>8, RangeInduction
  <2> QED
    BY <1>7, <2>1
<1> QED
  BY <1>7, <1>9 DEF S

-----------------------------------------------------------------------------
(* The batches put end to end.                                             *)

\* A sequence cut in two places.
CutAt(B, s, i, j) == s \in Seq(B) /\ i \in Nat /\ j \in Nat /\ i <= j /\ j <= Len(s)

LEMMA CutGlue ==
  ASSUME NEW B, NEW s, NEW i, NEW j, CutAt(B, s, i, j)
  PROVE  Upto(s, i) \o SubSeq(s, i + 1, j) = Upto(s, j)
<1>1. /\ s \in Seq(B) /\ i \in Nat /\ j \in Nat /\ i <= j /\ j <= Len(s) /\ Len(s) \in Nat
      /\ i <= Len(s)
  <2>1. s \in Seq(B) /\ i \in Nat /\ j \in Nat /\ i <= j /\ j <= Len(s) /\ Len(s) \in Nat
    BY SeqFacts DEF CutAt
  <2> QED
    BY <2>1
<1>2. PICK a : a = Upto(s, i)
  OBVIOUS
<1>3. PICK b : b = SubSeq(s, i + 1, j)
  OBVIOUS
<1>4. PICK c : c = Upto(s, j)
  OBVIOUS
<1>5. a \in Seq(B) /\ Len(a) = i /\ \A n \in 1 .. i : a[n] = s[n]
  BY <1>1, <1>2, UptoFacts
<1>6. c \in Seq(B) /\ Len(c) = j /\ \A n \in 1 .. j : c[n] = s[n]
  BY <1>1, <1>4, UptoFacts
<1>7. b \in Seq(B) /\ Len(b) = j - i /\ \A n \in 1 .. j - i : b[n] = s[i + n]
  <2>1. PICK first : first = i + 1
    OBVIOUS
  <2>2. /\ first \in Nat \ {0} /\ j \in Nat /\ j <= Len(s) /\ first <= j + 1
        /\ j + 1 - first = j - i
    BY <1>1, <2>1
  <2>3. /\ SubSeq(s, first, j) \in Seq(B)
        /\ Len(SubSeq(s, first, j)) = j + 1 - first
        /\ \A n \in 1 .. j + 1 - first : SubSeq(s, first, j)[n] = s[first + n - 1]
    BY <1>1, <2>2, SubTexts
  <2>4. \A n \in 1 .. j - i : first + n - 1 = i + n
    BY <1>1, <2>1
  <2> QED
    BY <1>3, <2>1, <2>2, <2>3, <2>4
<1>8. a \o b \in Seq(B) /\ Len(a \o b) = j
  <2>1. a \o b \in Seq(B) /\ Len(a \o b) = Len(a) + Len(b)
    BY <1>5, <1>7, ConcatFacts
  <2> QED
    BY <1>1, <1>5, <1>7, <2>1
<1>9. ASSUME NEW n \in 1 .. j
      PROVE  (a \o b)[n] = c[n]
  <2>1. CASE n <= i
    <3>1. n \in 1 .. Len(a) /\ n \in 1 .. i
      BY <1>1, <1>5, <2>1
    <3>2. (a \o b)[n] = a[n]
      BY <1>5, <1>7, <3>1, ConcatFacts
    <3> QED
      BY <1>5, <1>6, <3>1, <3>2
  <2>2. CASE ~ (n <= i)
    <3>1. PICK m : m = n - i
      OBVIOUS
    <3>2. m \in 1 .. j - i /\ n = i + m
      BY <1>1, <2>2, <3>1
    <3>3. (a \o b)[i + m] = b[m]
      BY <1>5, <1>7, <3>2, ConcatFacts
    <3> QED
      BY <1>6, <1>7, <3>2, <3>3
  <2> QED
    BY <2>1, <2>2
<1>10. a \o b = c
  BY <1>6, <1>8, <1>9, SameSeq
<1> QED
  BY <1>2, <1>3, <1>4, <1>10

\* With -mx nothing is lost between the batches.
LEMMA CountFlat ==
  ASSUME NEW bs, NEW tokens, NEW n, tokens \in Seq(Words), n \in Nat \ {0},
         ByCountShape(bs, tokens, n)
  PROVE  FlattenSeq(bs) = tokens
<1>1. PICK last : last = Len(bs)
  OBVIOUS
<1>2. /\ bs \in Seq(Seq(Words)) /\ (bs = <<>> <=> tokens = <<>>)
      /\ \A i \in 1 .. last :
           /\ n * (i - 1) \in Nat
           /\ n * (i - 1) + Len(bs[i]) <= Len(tokens)
           /\ i < last => Len(bs[i]) = n
           /\ i = last => n * (i - 1) + Len(bs[i]) = Len(tokens)
           /\ bs[i] = SubSeq(tokens, n * (i - 1) + 1, n * (i - 1) + Len(bs[i]))
  BY <1>1 DEF ByCountShape
<1>3. /\ last \in Nat /\ Upto(bs, 0) = <<>> /\ Upto(bs, last) = bs
      /\ \A j \in 0 .. last - 1 :
            /\ Upto(bs, j + 1) = Append(Upto(bs, j), bs[j + 1])
            /\ bs[j + 1] \in Seq(Words)
            /\ Upto(bs, j) \in Seq(Seq(Words))
            /\ j + 1 \in 1 .. last
  <2>1. /\ Len(bs) \in Nat /\ Upto(bs, 0) = <<>> /\ Upto(bs, Len(bs)) = bs
        /\ \A j \in 0 .. Len(bs) - 1 :
              /\ Upto(bs, j + 1) = Append(Upto(bs, j), bs[j + 1])
              /\ bs[j + 1] \in Seq(Words)
              /\ Upto(bs, j) \in Seq(Seq(Words))
              /\ j + 1 \in 1 .. Len(bs)
    BY <1>2, UptoSeq
  <2> QED
    BY <1>1, <2>1
<1>4. CASE last = 0
  <2>1. bs = <<>>
    BY <1>1, <1>2, <1>4, SeqFacts
  <2> QED
    BY <1>2, <2>1, FlattenEmpty
<1>5. CASE last # 0
  <2> DEFINE S == {k \in Nat : k < last => FlattenSeq(Upto(bs, k)) = Upto(tokens, n * k)}
             End(k) == n * k + Len(bs[k + 1])
  <2>1. ASSUME NEW k \in 0 .. last - 1, k \in S
        PROVE  FlattenSeq(Upto(bs, k + 1)) = Upto(tokens, End(k))
    <3>1. PICK x : x = bs[k + 1]
      OBVIOUS
    <3>2. PICK from : from = n * k
      OBVIOUS
    <3>3. PICK to : to = from + Len(x)
      OBVIOUS
    <3>4. FlattenSeq(Append(Upto(bs, k), x)) = FlattenSeq(Upto(bs, k)) \o x
      <4>1. Upto(bs, k) \in Seq(Seq(Words)) /\ x \in Seq(Words)
        BY <1>3, <3>1
      <4> QED
        BY <4>1, FlattenAppend
    <3>5. FlattenSeq(Upto(bs, k)) = Upto(tokens, from)
      <4>1. k < last
        BY <1>3
      <4> QED
        BY <2>1, <3>2, <4>1
    <3>6. /\ from \in Nat /\ to <= Len(tokens)
          /\ x = SubSeq(tokens, from + 1, to) /\ Len(x) \in Nat
      <4>1. k + 1 \in 1 .. last /\ (k + 1) - 1 = k
        BY <1>3
      <4>2. PICK i : i = k + 1
        OBVIOUS
      <4>3. n * (i - 1) = from
        BY <3>2, <4>1, <4>2
      <4>4. i \in 1 .. last /\ x = bs[i]
        BY <3>1, <4>1, <4>2
      <4>5. /\ n * (i - 1) \in Nat /\ n * (i - 1) + Len(bs[i]) <= Len(tokens)
            /\ bs[i] = SubSeq(tokens, n * (i - 1) + 1, n * (i - 1) + Len(bs[i]))
        BY <1>2, <4>4
      <4>6. Len(x) \in Nat
        BY <1>3, <3>1, SeqFacts
      <4> QED
        BY <3>3, <4>3, <4>4, <4>5, <4>6
    <3>7. CutAt(Words, tokens, from, to)
      BY <3>3, <3>6 DEF CutAt
    <3>8. Upto(tokens, from) \o SubSeq(tokens, from + 1, to) = Upto(tokens, to)
      BY <3>7, CutGlue
    <3>9. Upto(bs, k + 1) = Append(Upto(bs, k), x)
      BY <1>3, <3>1
    <3> QED
      BY <3>1, <3>2, <3>3, <3>4, <3>5, <3>6, <3>8, <3>9
  <2>2. 0 \in S
    <3>1. n * 0 = 0 /\ Upto(tokens, 0) = <<>>
      BY UptoFacts
    <3> QED
      BY <1>3, <3>1, FlattenEmpty
  <2>3. ASSUME NEW k \in 0 .. last - 1, k \in S
        PROVE  k + 1 \in S
    <3>1. ASSUME k + 1 < last
          PROVE  End(k) = n * (k + 1)
      <4>1. PICK i : i = k + 1
        OBVIOUS
      <4>2. i \in 1 .. last /\ i < last
        BY <1>3, <3>1, <4>1
      <4>3. Len(bs[i]) = n
        BY <1>2, <4>2
      <4>4. n * (k + 1) = n * k + n
        BY Times
      <4> QED
        BY <4>1, <4>3, <4>4
    <3>2. k + 1 \in Nat
      OBVIOUS
    <3> HIDE DEF End
    <3> QED
      BY <2>1, <2>3, <3>1, <3>2
  <2> HIDE DEF S
  <2>4. Inductive(S, 0, last)
    BY <1>3, <2>2, <2>3 DEF Inductive
  <2>5. PICK k : k = last - 1
    OBVIOUS
  <2>6. k \in 0 .. last - 1 /\ k \in 0 .. last /\ k + 1 = last
    BY <1>3, <1>5, <2>5
  <2>7. k \in S
    <3>1. \A i \in 0 .. last : i \in S
      BY <2>4, RangeInduction
    <3> QED
      BY <2>6, <3>1
  <2>8. FlattenSeq(bs) = Upto(tokens, End(k))
    BY <1>3, <2>1, <2>6, <2>7
  <2>9. End(k) = Len(tokens)
    <3>1. last \in 1 .. last /\ last - 1 = k
      BY <1>3, <1>5, <2>5
    <3>2. n * (last - 1) + Len(bs[last]) = Len(tokens)
      BY <1>2, <3>1
    <3> QED
      BY <2>6, <3>1, <3>2
  <2>10. Upto(tokens, Len(tokens)) = tokens
    BY UptoFacts
  <2> QED
    BY <2>8, <2>9, <2>10
<1> QED
  BY <1>4, <1>5

\* The tokens of all lines.
LineTokens(lines, o) == FlattenSeq([k \in DOMAIN lines |-> split(lines[k], o)])

LEMMA KeepFlat ==
  ASSUME NEW T, NEW ws, NEW w, ws \in Seq(Seq(T)), w \in Seq(T)
  PROVE  FlattenSeq(Keep(ws, w)) = FlattenSeq(ws) \o w
<1>1. FlattenSeq(ws) \in Seq(T)
  BY FlattenType
<1>2. CASE w = <<>>
  <2>1. FlattenSeq(ws) \o <<>> = FlattenSeq(ws)
    BY <1>1, ConcatFacts
  <2> QED
    BY <1>2, <2>1 DEF Keep
<1>3. CASE w # <<>>
  BY <1>3, FlattenAppend DEF Keep
<1> QED
  BY <1>2, <1>3

\* A line only adds its tokens, whether it ends a batch or not.
LEMMA LineStepFlat ==
  ASSUME NEW acc, NEW tokens, NEW n, acc \in LineStates, tokens \in Seq(Words)
  PROVE  FlattenSeq(LineStep(acc, tokens, n).done) \o LineStep(acc, tokens, n).current
           = (FlattenSeq(acc.done) \o acc.current) \o tokens
<1>1. PICK done : done = acc.done
  OBVIOUS
<1>2. PICK after : after = LineStep(acc, tokens, n)
  OBVIOUS
<1>3. PICK current : current = acc.current \o tokens
  OBVIOUS
<1>4. done \in Seq(Seq(Words)) /\ acc.current \in Seq(Words) /\ current \in Seq(Words)
  <2>1. done \in Seq(Seq(Words)) /\ acc.current \in Seq(Words)
    BY <1>1 DEF LineStates
  <2> QED
    BY <1>3, <2>1, ConcatFacts
<1>5. PICK f : f = FlattenSeq(done)
  OBVIOUS
<1>6. f \in Seq(Words)
  BY <1>4, <1>5, FlattenType
<1>7. (f \o acc.current) \o tokens = f \o current
  <2>1. PICK b : b = acc.current
    OBVIOUS
  <2>2. b \in Seq(Words)
    BY <1>4, <2>1
  <2>3. (f \o b) \o tokens = f \o (b \o tokens)
    BY <1>6, <2>2, ConcatAssoc, SMTT(30)
  <2> QED
    BY <1>3, <2>1, <2>3
<1>8. \/ after.done = Append(done, current) /\ after.current = <<>>
      \/ after.done = done /\ after.current = current
  BY <1>1, <1>2, <1>3 DEF LineStep
<1>9. CASE after.done = Append(done, current) /\ after.current = <<>>
  <2>1. FlattenSeq(Append(done, current)) = f \o current
    BY <1>4, <1>5, FlattenAppend
  <2>2. f \o current \in Seq(Words)
    BY <1>4, <1>6, ConcatFacts
  <2>3. (f \o current) \o <<>> = f \o current
    BY <2>2, ConcatFacts
  <2> QED
    BY <1>1, <1>2, <1>5, <1>7, <1>9, <2>1, <2>3
<1>10. CASE after.done = done /\ after.current = current
  BY <1>1, <1>2, <1>5, <1>7, <1>10
<1> QED
  BY <1>8, <1>9, <1>10

LEMMA LinesFlat ==
  ASSUME NEW lines, NEW n, NEW o, lines \in Seq(Texts), o \in PlanOptions
  PROVE  /\ FlattenSeq(ByLines(lines, n, o)) = LineTokens(lines, o)
         /\ LineTokens(lines, o) \in Seq(Words)
<1>1. PICK last : last = Len(lines)
  OBVIOUS
<1>2. last \in Nat /\ DOMAIN lines = 1 .. last /\ \A k \in 1 .. last : lines[k] \in Texts
  BY <1>1, SeqFacts
<1>3. PICK loop : loop = LineLoop(lines, n, o)
  OBVIOUS
<1>4. /\ loop \in [0 .. last -> LineStates]
      /\ loop[0] = [done |-> <<>>, current |-> <<>>, count |-> 0]
      /\ \A k \in 0 .. last - 1 :
           loop[k + 1] = LineStep(loop[k], split(lines[k + 1], o), n)
  BY <1>1, <1>3, LineLoopFacts
<1>5. PICK parts : parts = [k \in 1 .. last |-> split(lines[k], o)]
  OBVIOUS
<1>6. parts \in Seq(Seq(Words)) /\ Len(parts) = last
  <2>1. \A k \in 1 .. last : split(lines[k], o) \in Seq(Words)
    BY <1>2, SplitType
  <2> QED
    BY <1>2, <1>5, <2>1
<1>7. /\ Upto(parts, 0) = <<>> /\ Upto(parts, last) = parts
      /\ \A j \in 0 .. last - 1 :
            /\ Upto(parts, j + 1) = Append(Upto(parts, j), parts[j + 1])
            /\ parts[j + 1] \in Seq(Words)
            /\ Upto(parts, j) \in Seq(Seq(Words))
            /\ j + 1 \in 1 .. last
  <2>1. /\ Upto(parts, 0) = <<>> /\ Upto(parts, Len(parts)) = parts
        /\ \A j \in 0 .. Len(parts) - 1 :
              /\ Upto(parts, j + 1) = Append(Upto(parts, j), parts[j + 1])
              /\ parts[j + 1] \in Seq(Words)
              /\ Upto(parts, j) \in Seq(Seq(Words))
              /\ j + 1 \in 1 .. Len(parts)
    BY <1>6, UptoSeq
  <2> QED
    BY <1>6, <2>1
<1> DEFINE S == {k \in Nat : FlattenSeq(loop[k].done) \o loop[k].current
                   = FlattenSeq(Upto(parts, k))}
<1>8. 0 \in S
  <2>1. loop[0].done = <<>> /\ loop[0].current = <<>> /\ <<>> \o <<>> = <<>>
    BY <1>4
  <2> QED
    BY <1>7, <2>1, FlattenEmpty
<1>9. ASSUME NEW k \in 0 .. last - 1, k \in S
      PROVE  k + 1 \in S
  <2>1. PICK j : j = k + 1
    OBVIOUS
  <2>2. j \in 1 .. last /\ j \in Nat /\ k \in 0 .. last
    BY <1>2, <2>1
  <2>3. PICK tokens : tokens = split(lines[j], o)
    OBVIOUS
  <2>4. tokens \in Seq(Words) /\ parts[j] = tokens
    BY <1>2, <1>5, <2>2, <2>3, SplitType
  <2>5. loop[j] = LineStep(loop[k], tokens, n) /\ loop[k] \in LineStates
    BY <1>4, <2>1, <2>2, <2>3
  <2>6. FlattenSeq(loop[j].done) \o loop[j].current
          = (FlattenSeq(loop[k].done) \o loop[k].current) \o tokens
    <3>1. PICK acc : acc = loop[k]
      OBVIOUS
    <3>2. acc \in LineStates
      BY <2>5, <3>1
    <3>3. FlattenSeq(LineStep(acc, tokens, n).done) \o LineStep(acc, tokens, n).current
            = (FlattenSeq(acc.done) \o acc.current) \o tokens
      BY <2>4, <3>2, LineStepFlat
    <3> QED
      BY <2>5, <3>1, <3>3, Zenon
  <2>7. FlattenSeq(Append(Upto(parts, k), tokens)) = FlattenSeq(Upto(parts, k)) \o tokens
    <3>1. Upto(parts, k) \in Seq(Seq(Words))
      BY <1>7
    <3> QED
      BY <2>4, <3>1, FlattenAppend
  <2>8. Upto(parts, j) = Append(Upto(parts, k), tokens)
    BY <1>7, <2>1, <2>4
  <2>9. FlattenSeq(loop[k].done) \o loop[k].current = FlattenSeq(Upto(parts, k))
    BY <1>9
  <2>10. FlattenSeq(loop[j].done) \o loop[j].current = FlattenSeq(Upto(parts, j))
    BY <2>6, <2>7, <2>8, <2>9
  <2> QED
    BY <2>1, <2>2, <2>10
<1> HIDE DEF S
<1>10. Inductive(S, 0, last)
  BY <1>2, <1>8, <1>9 DEF Inductive
<1>11. last \in S
  <2>1. \A k \in 0 .. last : k \in S
    BY <1>10, RangeInduction
  <2> QED
    BY <1>2, <2>1
<1>12. PICK end : end = loop[last]
  OBVIOUS
<1>13. FlattenSeq(end.done) \o end.current = FlattenSeq(parts)
  BY <1>7, <1>11, <1>12 DEF S
<1>14. end.done \in Seq(Seq(Words)) /\ end.current \in Seq(Words)
  <2>1. end \in LineStates
    BY <1>2, <1>4, <1>12
  <2> QED
    BY <2>1 DEF LineStates
<1>15. ByLines(lines, n, o) = Keep(end.done, end.current)
  BY <1>1, <1>3, <1>12 DEF ByLines
<1>16. FlattenSeq(Keep(end.done, end.current)) = FlattenSeq(end.done) \o end.current
  BY <1>14, KeepFlat
<1>17. LineTokens(lines, o) = FlattenSeq(parts)
  BY <1>2, <1>5 DEF LineTokens
<1>18. FlattenSeq(parts) \in Seq(Words)
  BY <1>6, FlattenType
<1> QED
  BY <1>13, <1>15, <1>16, <1>17, <1>18

LEMMA SinglesFlat ==
  ASSUME NEW B, NEW tokens, tokens \in Seq(B)
  PROVE  FlattenSeq([i \in DOMAIN tokens |-> <<tokens[i]>>]) = tokens
<1>1. PICK last : last = Len(tokens)
  OBVIOUS
<1>2. last \in Nat /\ DOMAIN tokens = 1 .. last /\ \A i \in 1 .. last : tokens[i] \in B
  BY <1>1, SeqFacts
<1>3. PICK ss : ss = [i \in 1 .. last |-> <<tokens[i]>>]
  OBVIOUS
<1>4. ss \in Seq(Seq(B)) /\ Len(ss) = last
  <2>1. \A i \in 1 .. last : <<tokens[i]>> \in Seq(B)
    BY <1>2
  <2> QED
    BY <1>2, <1>3, <2>1
<1>5. /\ Upto(ss, 0) = <<>> /\ Upto(ss, last) = ss
      /\ \A j \in 0 .. last - 1 :
            /\ Upto(ss, j + 1) = Append(Upto(ss, j), ss[j + 1])
            /\ ss[j + 1] \in Seq(B)
            /\ Upto(ss, j) \in Seq(Seq(B))
            /\ j + 1 \in 1 .. last
  <2>1. /\ Upto(ss, 0) = <<>> /\ Upto(ss, Len(ss)) = ss
        /\ \A j \in 0 .. Len(ss) - 1 :
              /\ Upto(ss, j + 1) = Append(Upto(ss, j), ss[j + 1])
              /\ ss[j + 1] \in Seq(B)
              /\ Upto(ss, j) \in Seq(Seq(B))
              /\ j + 1 \in 1 .. Len(ss)
    BY <1>4, UptoSeq
  <2> QED
    BY <1>4, <2>1
<1> DEFINE S == {k \in Nat : FlattenSeq(Upto(ss, k)) = Upto(tokens, k)}
<1>6. 0 \in S
  <2>1. Upto(tokens, 0) = <<>>
    BY UptoFacts
  <2> QED
    BY <1>5, <2>1, FlattenEmpty
<1>7. ASSUME NEW k \in 0 .. last - 1, k \in S
      PROVE  k + 1 \in S
  <2>1. PICK j : j = k + 1
    OBVIOUS
  <2>2. j \in 1 .. last /\ j \in Nat /\ j - 1 = k /\ k \in 0 .. last
    BY <1>2, <2>1
  <2>3. Upto(ss, j) = Append(Upto(ss, k), ss[j]) /\ ss[j] \in Seq(B) /\ Upto(ss, k) \in Seq(Seq(B))
    BY <1>5, <2>1
  <2>4. FlattenSeq(Append(Upto(ss, k), ss[j])) = FlattenSeq(Upto(ss, k)) \o ss[j]
    BY <2>3, FlattenAppend
  <2>5. ss[j] = <<tokens[j]>>
    BY <1>3, <2>2
  <2>6. PICK u : u = Upto(tokens, k)
    OBVIOUS
  <2>7. u \in Seq(B)
    <3>1. \A i \in 0 .. Len(tokens) : Upto(tokens, i) \in Seq(B)
      BY UptoFacts
    <3> QED
      BY <1>1, <2>2, <2>6, <3>1
  <2>8. u \o <<tokens[j]>> = Append(u, tokens[j])
    BY <2>7
  <2>9. Upto(tokens, j) = Append(u, tokens[j])
    <3>1. \A i \in 1 .. Len(tokens) : Upto(tokens, i) = Append(Upto(tokens, i - 1), tokens[i])
      BY UptoFacts
    <3> QED
      BY <1>1, <2>2, <2>6, <3>1
  <2>10. FlattenSeq(Upto(ss, k)) = u
    BY <1>7, <2>6
  <2>11. FlattenSeq(Upto(ss, j)) = Upto(tokens, j)
    BY <2>3, <2>4, <2>5, <2>8, <2>9, <2>10
  <2> QED
    BY <2>1, <2>2, <2>11
<1> HIDE DEF S
<1>8. Inductive(S, 0, last)
  BY <1>2, <1>6, <1>7 DEF Inductive
<1>9. last \in S
  <2>1. \A k \in 0 .. last : k \in S
    BY <1>8, RangeInduction
  <2> QED
    BY <1>2, <2>1
<1>10. Upto(tokens, last) = tokens
  BY <1>1, UptoFacts
<1> QED
  BY <1>2, <1>3, <1>5, <1>9, <1>10 DEF S

\* The tokens of a text, line by line with -L.
TokensOf(s, o) == IF o.maxLines > 0 THEN LineTokens(Lines(s), o) ELSE split(s, o)

LEMMA MadeFlat ==
  ASSUME NEW s, NEW o, s \in Texts, o \in PlanOptions
  PROVE  FlattenSeq(Made(s, o)) = TokensOf(s, o) /\ TokensOf(s, o) \in Seq(Words)
<1>1. PICK tokens : tokens = split(s, o)
  OBVIOUS
<1>2. PICK made : made = Made(s, o)
  OBVIOUS
<1>3. tokens \in Seq(Words)
  BY <1>1, SplitType
<1>4. /\ o.maxArgs \in Nat /\ o.maxLines \in Nat
      /\ o.maxArgs = 0 \/ o.maxLines = 0
      /\ o.holder = "p" => o.maxArgs = 0 /\ o.maxLines = 0
  BY OptionFacts
<1>5. CASE o.holder = "p"
  <2>1. made = [i \in DOMAIN tokens |-> <<tokens[i]>>]
    BY <1>1, <1>2, <1>5 DEF Made
  <2>2. FlattenSeq(made) = tokens
    BY <1>3, <2>1, SinglesFlat
  <2>3. ~ (o.maxLines > 0)
    BY <1>4, <1>5
  <2> QED
    BY <1>1, <1>2, <1>3, <2>2, <2>3 DEF TokensOf
<1>6. CASE o.holder # "p" /\ o.maxLines > 0
  <2>1. made = ByLines(Lines(s), o.maxLines, o)
    BY <1>2, <1>6 DEF Made, makeBatches
  <2>2. Lines(s) \in Seq(Texts)
    BY LinesType
  <2>3. /\ FlattenSeq(ByLines(Lines(s), o.maxLines, o)) = LineTokens(Lines(s), o)
        /\ LineTokens(Lines(s), o) \in Seq(Words)
    BY <2>2, LinesFlat
  <2> QED
    BY <1>2, <1>6, <2>1, <2>3 DEF TokensOf
<1>7. CASE o.holder # "p" /\ o.maxLines = 0 /\ o.maxArgs > 0
  <2>1. ByCountShape(made, tokens, o.maxArgs)
    BY <1>1, <1>2, <1>7, MadeFacts
  <2>2. o.maxArgs \in Nat \ {0}
    BY <1>4, <1>7
  <2>3. FlattenSeq(made) = tokens
    BY <1>3, <2>1, <2>2, CountFlat
  <2> QED
    BY <1>1, <1>2, <1>3, <1>7, <2>3 DEF TokensOf
<1>8. CASE o.holder # "p" /\ o.maxLines = 0 /\ o.maxArgs = 0
  <2>1. made = Keep(<<>>, tokens)
    BY <1>1, <1>2, <1>8 DEF Made, makeBatches
  <2>2. <<>> \in Seq(Seq(Words))
    OBVIOUS
  <2>3. FlattenSeq(Keep(<<>>, tokens)) = FlattenSeq(<<>>) \o tokens
    BY <1>3, <2>2, KeepFlat
  <2>4. <<>> \o tokens = tokens
    BY <1>3, ConcatFacts
  <2>5. FlattenSeq(made) = tokens
    BY <2>1, <2>3, <2>4, FlattenEmpty
  <2> QED
    BY <1>1, <1>2, <1>3, <1>8, <2>5 DEF TokensOf
<1> QED
  BY <1>4, <1>5, <1>6, <1>7, <1>8

\* Whatever the options, the batches put end to end are the tokens of the text.
LEMMA PlannedFlat ==
  ASSUME NEW s, NEW o, s \in Texts, o \in PlanOptions
  PROVE  FlattenSeq(PlannedBatches(s, o)) = TokensOf(s, o)
<1>1. CASE PlannedBatches(s, o) = Made(s, o)
  BY <1>1, MadeFlat
<1>2. CASE PlannedBatches(s, o) = <<<<>>>> /\ NoTokenIn(s, o)
  <2>1. Made(s, o) = <<>>
    BY <1>2, MadeFacts
  <2>2. TokensOf(s, o) = <<>>
    BY <2>1, MadeFlat, FlattenEmpty
  <2>3. <<>> \in Seq(Words)
    OBVIOUS
  <2>4. PICK e : e = <<>>
    OBVIOUS
  <2>5. FlattenSeq(<<e>>) = e
    BY <2>3, <2>4, FlattenOne
  <2> QED
    BY <1>2, <2>2, <2>4, <2>5
<1> QED
  BY <1>1, <1>2, PlannedFacts

-----------------------------------------------------------------------------
(* How the pieces lie in the text.                                         *)

\* How far the first k turns of the loop have come.
Edge(s, d, k) == IF Starts(s, d)[k + 1] <= Len(s) THEN Starts(s, d)[k + 1] - 1 ELSE Len(s)

\* The piece p lies behind a; the delimiter or the end of the text follows, up to b.
PieceAt(s, d, p, a, b) ==
  /\ a \in Nat /\ b \in Nat /\ Len(p) \in Nat /\ b <= Len(s)
  /\ p = SubSeq(s, a + 1, a + Len(p)) /\ a + Len(p) <= Len(s)
  /\ Find(s, d, a + 1) = a + Len(p) + 1
  /\ \/ b = a + Len(p) + Len(d) /\ SubSeq(s, a + Len(p) + 1, b) = d
     \/ b = a + Len(p) /\ b = Len(s)

LEMMA EdgeFacts ==
  ASSUME NEW s, NEW d, s \in Texts, d \in Words
  PROVE  /\ Edge(s, d, 0) = 0
         /\ Edge(s, d, Len(Pieces(s, d))) = Len(s)
         /\ \A k \in 0 .. Len(Pieces(s, d)) - 1 :
              PieceAt(s, d, Pieces(s, d)[k + 1], Edge(s, d, k), Edge(s, d, k + 1))
<1>1. PICK start : start = Starts(s, d)
  OBVIOUS
<1>2. PICK len : len = Len(s)
  OBVIOUS
<1>3. PICK width : width = Len(d)
  OBVIOUS
<1>4. PICK last : last = Len(Pieces(s, d))
  OBVIOUS
<1>5. len \in Nat /\ width \in Nat \ {0}
  BY <1>2, <1>3, SeqFacts DEF Texts, Words
<1>6. /\ start \in [1 .. len + 1 -> Nat \ {0}] /\ start[1] = 1
      /\ \A n \in 1 .. len : start[n + 1] = Find(s, d, start[n]) + width
  BY <1>1, <1>2, <1>3, StartsFacts
<1>7. /\ last \in 0 .. len /\ start[last + 1] > len
      /\ \A n \in 1 .. last :
           start[n] \in 1 .. len /\ Pieces(s, d)[n] = SubSeq(s, start[n], Find(s, d, start[n]) - 1)
  BY <1>1, <1>2, <1>4, PiecesFacts
<1>8. PICK edge : edge = [k \in 0 .. last |-> Edge(s, d, k)]
  OBVIOUS
<1>9. \A k \in 0 .. last : edge[k] = IF start[k + 1] <= len THEN start[k + 1] - 1 ELSE len
  BY <1>1, <1>2, <1>8 DEF Edge
<1>10. edge[0] = 0 /\ edge[last] = len
  <2>1. 0 \in 0 .. last /\ last \in 0 .. last /\ last + 1 \in 1 .. len + 1
    BY <1>5, <1>7
  <2>2. start[last + 1] \in Nat
    BY <1>6, <2>1
  <2>3. ~ (start[last + 1] <= len)
    BY <1>5, <1>7, <2>2
  <2>4. edge[last] = len
    BY <1>9, <2>1, <2>3
  <2>5. edge[0] = IF 1 <= len THEN 0 ELSE len
    <3>1. 0 + 1 = 1 /\ 1 - 1 = 0
      OBVIOUS
    <3> QED
      BY <1>6, <1>9, <2>1, <3>1
  <2> QED
    BY <1>5, <2>4, <2>5
<1>11. ASSUME NEW k \in 0 .. last - 1
       PROVE  PieceAt(s, d, Pieces(s, d)[k + 1], edge[k], edge[k + 1])
  <2>1. PICK j : j = k + 1
    OBVIOUS
  <2>2. j \in 1 .. last /\ j \in 1 .. len /\ k \in 0 .. last /\ j \in 0 .. last
    BY <1>5, <1>7, <2>1
  <2>3. PICK from : from = start[j]
    OBVIOUS
  <2>4. from \in 1 .. len
    BY <1>7, <2>2, <2>3
  <2>5. PICK f : f = Find(s, d, from)
    OBVIOUS
  <2>6. /\ f \in 1 .. len + 1 /\ from <= f
        /\ f <= len => f + width <= len + 1 /\ SubSeq(s, f, f + width - 1) = d
    <3>1. from \in Nat \ {0} /\ from <= Len(s)
      BY <1>2, <1>5, <2>4
    <3> QED
      BY <1>2, <1>3, <2>5, <3>1, FindFacts
  <2>7. PICK a : a = from - 1
    OBVIOUS
  <2>8. PICK e : e = f - 1
    OBVIOUS
  <2>9. PICK p : p = Pieces(s, d)[j]
    OBVIOUS
  <2>10. p = SubSeq(s, from, e)
    BY <1>7, <2>2, <2>3, <2>5, <2>8, <2>9
  <2>11. Len(p) = e - a /\ e \in Nat /\ a \in Nat /\ a <= e /\ e <= len
    <3>1. from \in Nat \ {0} /\ e \in Nat /\ e <= Len(s) /\ from <= e + 1
      BY <1>2, <1>5, <2>4, <2>6, <2>8
    <3>2. s \in Seq(Classes)
      BY DEF Texts
    <3>3. Len(SubSeq(s, from, e)) = e + 1 - from
      BY <3>1, <3>2, SubTexts
    <3> QED
      BY <1>2, <1>5, <2>4, <2>6, <2>7, <2>8, <2>10, <3>1, <3>3
  <2>12. edge[k] = a
    <3>1. start[k + 1] = from /\ from <= len
      BY <1>5, <2>1, <2>3, <2>4
    <3> QED
      BY <1>9, <2>2, <2>7, <3>1
  <2>13. PICK b : b = edge[j]
    OBVIOUS
  <2>14. start[j + 1] = f + width
    BY <1>6, <2>2, <2>3, <2>5
  <2>15. b = IF f + width <= len THEN f + width - 1 ELSE len
    <3>1. edge[j] = IF start[j + 1] <= len THEN start[j + 1] - 1 ELSE len
      BY <1>9, <2>2
    <3>2. PICK after : after = f + width
      OBVIOUS
    <3>3. b = IF after <= len THEN after - 1 ELSE len
      BY <2>13, <2>14, <3>1, <3>2
    <3> QED
      BY <1>5, <2>6, <3>2, <3>3
  <2>16. /\ b \in Nat /\ b <= len
         /\ \/ b = e + width /\ SubSeq(s, e + 1, b) = d
            \/ b = e /\ b = len
    <3>1. CASE f <= len
      <4>1. b = f + width - 1
        BY <1>5, <2>6, <2>15, <3>1
      <4>2. e + 1 = f
        BY <2>6, <2>8
      <4>3. SubSeq(s, e + 1, b) = d
        BY <2>6, <3>1, <4>1, <4>2
      <4> QED
        BY <1>5, <2>6, <2>8, <3>1, <4>1, <4>3
    <3>2. CASE ~ (f <= len)
      BY <1>5, <2>6, <2>8, <2>15, <3>2
    <3> QED
      BY <3>1, <3>2
  <2>17. a + Len(p) = e /\ a + 1 = from /\ a + Len(p) + 1 = f /\ Len(p) \in Nat
    BY <2>4, <2>6, <2>7, <2>8, <2>11
  <2>18. PieceAt(s, d, p, a, b)
    <3>1. e + 1 = f
      BY <2>6, <2>8
    <3> QED
      BY <1>2, <1>3, <2>5, <2>10, <2>11, <2>16, <2>17, <3>1 DEF PieceAt
  <2> QED
    BY <2>1, <2>9, <2>12, <2>13, <2>18
<1>12. \A k \in 0 .. last - 1 : edge[k] = Edge(s, d, k) /\ edge[k + 1] = Edge(s, d, k + 1)
  <2>1. \A k \in 0 .. last - 1 : k \in 0 .. last /\ k + 1 \in 0 .. last
    BY <1>7
  <2>2. \A k \in 0 .. last : edge[k] = Edge(s, d, k)
    BY <1>8
  <2> QED
    BY <2>1, <2>2
<1>13. edge[0] = Edge(s, d, 0) /\ edge[last] = Edge(s, d, last)
  <2>1. 0 \in 0 .. last /\ last \in 0 .. last
    BY <1>5, <1>7
  <2> QED
    BY <1>8, <2>1
<1>14. \A k \in 0 .. last - 1 :
         PieceAt(s, d, Pieces(s, d)[k + 1], Edge(s, d, k), Edge(s, d, k + 1))
  BY <1>11, <1>12
<1> QED
  BY <1>2, <1>4, <1>10, <1>13, <1>14

-----------------------------------------------------------------------------
(* The characters that are no separators.                                  *)

LetterOf(c) == IF c \in {"x", "P"} THEN <<c>> ELSE <<>>

LetterParts(s) == [i \in DOMAIN s |-> LetterOf(s[i])]

LEMMA LetterPartsType ==
  ASSUME NEW s, s \in Texts
  PROVE  /\ LetterParts(s) \in Seq(Texts) /\ Len(LetterParts(s)) = Len(s)
         /\ \A i \in 1 .. Len(s) : LetterParts(s)[i] = LetterOf(s[i])
         /\ Letters(s) = FlattenSeq(LetterParts(s))
         /\ Letters(s) \in Texts
<1>1. PICK n : n = Len(s)
  OBVIOUS
<1>2. n \in Nat /\ DOMAIN s = 1 .. n /\ \A i \in 1 .. n : s[i] \in Classes
  BY <1>1, SeqFacts DEF Texts
<1>3. \A i \in 1 .. n : LetterOf(s[i]) \in Texts
  BY <1>2 DEF LetterOf, Texts
<1>4. LetterParts(s) = [i \in 1 .. n |-> LetterOf(s[i])]
  BY <1>2 DEF LetterParts
<1>5. LetterParts(s) \in Seq(Texts) /\ Len(LetterParts(s)) = n
  BY <1>2, <1>3, <1>4
<1>6. \A i \in 1 .. n : LetterParts(s)[i] = LetterOf(s[i])
  BY <1>4
<1>7. Letters(s) = FlattenSeq(LetterParts(s))
  BY DEF Letters, LetterParts, LetterOf
<1>8. FlattenSeq(LetterParts(s)) \in Texts
  BY <1>5, FlattenType DEF Texts
<1> QED
  BY <1>1, <1>5, <1>6, <1>7, <1>8

LEMMA LettersConcat ==
  ASSUME NEW s, NEW t, s \in Texts, t \in Texts
  PROVE  Letters(s \o t) = Letters(s) \o Letters(t) /\ s \o t \in Texts
<1>1. PICK u : u = s \o t
  OBVIOUS
<1>2. /\ u \in Texts /\ Len(u) = Len(s) + Len(t) /\ Len(s) \in Nat /\ Len(t) \in Nat
      /\ \A i \in 1 .. Len(s) : u[i] = s[i]
      /\ \A i \in 1 .. Len(t) : u[Len(s) + i] = t[i]
  BY <1>1, ConcatFacts DEF Texts
<1>3. PICK a : a = LetterParts(s)
  OBVIOUS
<1>4. PICK b : b = LetterParts(t)
  OBVIOUS
<1>5. PICK c : c = LetterParts(u)
  OBVIOUS
<1>6. /\ a \in Seq(Texts) /\ Len(a) = Len(s) /\ \A i \in 1 .. Len(s) : a[i] = LetterOf(s[i])
      /\ b \in Seq(Texts) /\ Len(b) = Len(t) /\ \A i \in 1 .. Len(t) : b[i] = LetterOf(t[i])
      /\ c \in Seq(Texts) /\ Len(c) = Len(u) /\ \A i \in 1 .. Len(u) : c[i] = LetterOf(u[i])
  BY <1>2, <1>3, <1>4, <1>5, LetterPartsType
<1>7. a \o b = c
  <2>1. PICK ab : ab = a \o b
    OBVIOUS
  <2>2. /\ ab \in Seq(Texts) /\ Len(ab) = Len(c)
        /\ \A i \in 1 .. Len(a) : ab[i] = a[i]
        /\ \A i \in 1 .. Len(b) : ab[Len(a) + i] = b[i]
    <3>1. /\ ab \in Seq(Texts) /\ Len(ab) = Len(a) + Len(b)
          /\ \A i \in 1 .. Len(a) : ab[i] = a[i]
          /\ \A i \in 1 .. Len(b) : ab[Len(a) + i] = b[i]
      <4>1. a \in Seq(Texts) /\ b \in Seq(Texts)
        BY <1>6
      <4> QED
        BY <2>1, <4>1, ConcatFacts
    <3> QED
      BY <1>2, <1>6, <3>1
  <2>3. ASSUME NEW i \in 1 .. Len(ab)
        PROVE  ab[i] = c[i]
    <3>1. i \in 1 .. Len(s) + Len(t)
      BY <1>2, <1>6, <2>2
    <3>2. CASE i <= Len(s)
      <4>1. i \in 1 .. Len(s) /\ i \in 1 .. Len(u)
        BY <1>2, <3>1, <3>2
      <4> QED
        BY <1>2, <1>6, <2>2, <4>1
    <3>3. CASE ~ (i <= Len(s))
      <4>1. PICK j : j = i - Len(s)
        OBVIOUS
      <4>2. j \in 1 .. Len(t) /\ i = Len(s) + j /\ i \in 1 .. Len(u)
        BY <1>2, <3>1, <3>3, <4>1
      <4>3. ab[i] = b[j]
        BY <1>6, <2>2, <4>2
      <4>4. c[i] = LetterOf(t[j])
        BY <1>2, <1>6, <4>2
      <4> QED
        BY <1>6, <4>2, <4>3, <4>4
    <3> QED
      BY <3>2, <3>3
  <2>4. ab = c
    BY <1>6, <2>2, <2>3, SameSeq
  <2> QED
    BY <2>1, <2>4
<1>8. FlattenSeq(a \o b) = FlattenSeq(a) \o FlattenSeq(b)
  <2>1. a \in Seq(Seq(Classes)) /\ b \in Seq(Seq(Classes))
    BY <1>6 DEF Texts
  <2> QED
    BY <2>1, FlattenConcat
<1>9. Letters(s) = FlattenSeq(a) /\ Letters(t) = FlattenSeq(b) /\ Letters(u) = FlattenSeq(c)
  BY <1>2, <1>3, <1>4, <1>5, LetterPartsType
<1> QED
  BY <1>1, <1>2, <1>7, <1>8, <1>9

\* Separators have none.
LEMMA LettersNone ==
  ASSUME NEW s, s \in Texts, \A i \in 1 .. Len(s) : s[i] \notin {"x", "P"}
  PROVE  Letters(s) = <<>>
<1>1. PICK parts : parts = LetterParts(s)
  OBVIOUS
<1>2. /\ parts \in Seq(Texts) /\ Len(parts) = Len(s) /\ Letters(s) = FlattenSeq(parts)
      /\ \A i \in 1 .. Len(s) : parts[i] = LetterOf(s[i])
  BY <1>1, LetterPartsType
<1>3. PICK E : E = Seq({})
  OBVIOUS
<1>4. \A i \in 1 .. Len(parts) : parts[i] \in E
  <2>1. <<>> \in E
    BY <1>3
  <2> QED
    BY <1>2, <2>1 DEF LetterOf
<1>5. parts \in Seq(E)
  BY <1>2, <1>4
<1>6. FlattenSeq(parts) \in Seq({})
  BY <1>3, <1>5, FlattenType
<1>7. PICK f : f = FlattenSeq(parts)
  OBVIOUS
<1>8. Len(f) \in Nat /\ (f = <<>> <=> Len(f) = 0) /\ \A i \in 1 .. Len(f) : f[i] \in {}
  BY <1>6, <1>7, SeqFacts
<1>9. ASSUME Len(f) # 0
      PROVE  FALSE
  <2>1. 1 \in 1 .. Len(f)
    BY <1>8, <1>9
  <2> QED
    BY <1>8, <2>1
<1> QED
  BY <1>2, <1>7, <1>8, <1>9

\* What is said of the sequence cs that holds, for every piece, what becomes of it.
LettersAgree(cs, s, d) ==
  /\ s \in Texts /\ d \in Words /\ Letters(d) = <<>>
  /\ cs \in Seq(Texts) /\ Len(cs) = Len(Pieces(s, d))
  /\ \A n \in 1 .. Len(cs) : Letters(cs[n]) = Letters(Pieces(s, d)[n])

LEMMA LettersOfPiece ==
  ASSUME NEW s, NEW d, NEW p, NEW a, NEW b, s \in Texts, d \in Words, Letters(d) = <<>>,
         p \in Texts, PieceAt(s, d, p, a, b)
  PROVE  Letters(Upto(s, b)) = Letters(Upto(s, a)) \o Letters(p)
<1>1. PICK e : e = a + Len(p)
  OBVIOUS
<1>2. /\ a \in Nat /\ b \in Nat /\ Len(p) \in Nat /\ b <= Len(s)
      /\ p = SubSeq(s, a + 1, e) /\ e <= Len(s)
      /\ \/ b = e + Len(d) /\ SubSeq(s, e + 1, b) = d
         \/ b = e
  BY <1>1 DEF PieceAt
<1>3. e \in Nat /\ a <= e /\ Len(s) \in Nat /\ Len(d) \in Nat
  BY <1>1, <1>2, SeqFacts DEF Texts, Words
<1>4. \A k \in 0 .. Len(s) : Upto(s, k) \in Texts
  BY UptoFacts DEF Texts
<1>5. Upto(s, a) \o p = Upto(s, e)
  <2>1. CutAt(Classes, s, a, e)
    BY <1>2, <1>3 DEF CutAt, Texts
  <2> QED
    BY <1>2, <2>1, CutGlue
<1>6. Letters(Upto(s, e)) = Letters(Upto(s, a)) \o Letters(p)
  <2>1. a \in 0 .. Len(s)
    BY <1>2, <1>3
  <2>2. Upto(s, a) \in Texts
    BY <1>4, <2>1
  <2> QED
    BY <1>5, <2>2, LettersConcat
<1>7. CASE b = e
  BY <1>6, <1>7
<1>8. CASE b = e + Len(d) /\ SubSeq(s, e + 1, b) = d
  <2>1. CutAt(Classes, s, e, b)
    BY <1>2, <1>3, <1>8 DEF CutAt, Texts
  <2>2. Upto(s, e) \o d = Upto(s, b)
    BY <1>8, <2>1, CutGlue
  <2>3. Upto(s, e) \in Texts /\ d \in Texts
    BY <1>2, <1>3, <1>4 DEF Words
  <2>4. Letters(Upto(s, b)) = Letters(Upto(s, e)) \o Letters(d)
    BY <2>2, <2>3, LettersConcat
  <2>5. Letters(Upto(s, e)) \in Texts
    BY <2>3, LetterPartsType
  <2>6. Letters(Upto(s, e)) \o <<>> = Letters(Upto(s, e))
    BY <2>5, ConcatFacts DEF Texts
  <2> QED
    BY <1>6, <2>4, <2>6
<1> QED
  BY <1>2, <1>7, <1>8

\* Nothing but delimiters is dropped from the text.
LEMMA PiecesLetters ==
  ASSUME NEW cs, NEW s, NEW d, LettersAgree(cs, s, d)
  PROVE  Letters(FlattenSeq(cs)) = Letters(s)
<1>1. /\ s \in Texts /\ d \in Words /\ Letters(d) = <<>>
      /\ cs \in Seq(Texts) /\ Len(cs) = Len(Pieces(s, d))
      /\ \A n \in 1 .. Len(cs) : Letters(cs[n]) = Letters(Pieces(s, d)[n])
  BY DEF LettersAgree
<1>2. PICK last : last = Len(cs)
  OBVIOUS
<1>3. /\ last \in Nat /\ Upto(cs, 0) = <<>> /\ Upto(cs, last) = cs
      /\ \A j \in 0 .. last - 1 :
            /\ Upto(cs, j + 1) = Append(Upto(cs, j), cs[j + 1])
            /\ cs[j + 1] \in Texts
            /\ Upto(cs, j) \in Seq(Texts)
            /\ j + 1 \in 1 .. last
  <2>1. /\ Len(cs) \in Nat /\ Upto(cs, 0) = <<>> /\ Upto(cs, Len(cs)) = cs
        /\ \A j \in 0 .. Len(cs) - 1 :
              /\ Upto(cs, j + 1) = Append(Upto(cs, j), cs[j + 1])
              /\ cs[j + 1] \in Seq(Classes)
              /\ Upto(cs, j) \in Seq(Seq(Classes))
              /\ j + 1 \in 1 .. Len(cs)
    BY <1>1, UptoSeq DEF Texts
  <2> QED
    BY <1>2, <2>1 DEF Texts
<1>4. PICK edge : edge = [k \in 0 .. last |-> Edge(s, d, k)]
  OBVIOUS
<1>5. PICK pieces : pieces = Pieces(s, d)
  OBVIOUS
<1>6. /\ edge[0] = 0 /\ edge[last] = Len(s)
      /\ \A k \in 0 .. last - 1 : PieceAt(s, d, pieces[k + 1], edge[k], edge[k + 1])
  <2>1. /\ Edge(s, d, 0) = 0 /\ Edge(s, d, last) = Len(s)
        /\ \A k \in 0 .. last - 1 : PieceAt(s, d, pieces[k + 1], Edge(s, d, k), Edge(s, d, k + 1))
    BY <1>1, <1>2, <1>5, EdgeFacts
  <2>2. \A k \in 0 .. last : edge[k] = Edge(s, d, k)
    BY <1>4
  <2>3. 0 \in 0 .. last /\ last \in 0 .. last
    BY <1>3
  <2>4. \A k \in 0 .. last - 1 : k \in 0 .. last /\ k + 1 \in 0 .. last
    BY <1>3
  <2> QED
    BY <2>1, <2>2, <2>3, <2>4
<1> DEFINE S == {k \in Nat : Letters(FlattenSeq(Upto(cs, k))) = Letters(Upto(s, edge[k]))}
<1>7. 0 \in S
  <2>1. Upto(s, 0) = <<>>
    BY <1>1, UptoFacts DEF Texts
  <2> QED
    BY <1>3, <1>6, <2>1, FlattenEmpty
<1>8. ASSUME NEW k \in 0 .. last - 1, k \in S
      PROVE  k + 1 \in S
  <2>1. PICK j : j = k + 1
    OBVIOUS
  <2>2. j \in 1 .. last /\ j \in Nat
    BY <1>3, <2>1
  <2>3. PICK u : u = Upto(cs, k)
    OBVIOUS
  <2>4. PICK c : c = cs[j]
    OBVIOUS
  <2>5. PICK p : p = pieces[j]
    OBVIOUS
  <2>6. Upto(cs, j) = Append(u, c) /\ c \in Texts /\ u \in Seq(Texts)
    BY <1>3, <2>1, <2>3, <2>4
  <2>7. PICK a : a = edge[k]
    OBVIOUS
  <2>8. PICK b : b = edge[j]
    OBVIOUS
  <2>9. PieceAt(s, d, p, a, b)
    BY <1>6, <2>1, <2>5, <2>7, <2>8
  <2>10. p \in Texts /\ Letters(c) = Letters(p)
    <3>1. pieces \in Seq(Texts) /\ Len(pieces) = last
      BY <1>1, <1>2, <1>5, PiecesFacts
    <3>2. \A n \in 1 .. Len(pieces) : pieces[n] \in Texts
      BY <3>1, SeqFacts
    <3> QED
      BY <1>1, <1>2, <1>5, <2>2, <2>4, <2>5, <3>1, <3>2
  <2>11. Letters(Upto(s, b)) = Letters(Upto(s, a)) \o Letters(p)
    BY <1>1, <2>9, <2>10, LettersOfPiece
  <2>12. FlattenSeq(Append(u, c)) = FlattenSeq(u) \o c /\ FlattenSeq(u) \in Texts
    <3>1. u \in Seq(Seq(Classes)) /\ c \in Seq(Classes)
      BY <2>6 DEF Texts
    <3> QED
      BY <3>1, FlattenAppend, FlattenType DEF Texts
  <2>13. Letters(FlattenSeq(u) \o c) = Letters(FlattenSeq(u)) \o Letters(c)
    BY <2>6, <2>12, LettersConcat
  <2>14. Letters(FlattenSeq(u)) = Letters(Upto(s, a))
    BY <1>8, <2>3, <2>7
  <2>15. Letters(FlattenSeq(Upto(cs, j))) = Letters(Upto(s, edge[j]))
    BY <2>6, <2>8, <2>10, <2>11, <2>12, <2>13, <2>14
  <2> QED
    BY <2>1, <2>2, <2>15
<1> HIDE DEF S
<1>9. Inductive(S, 0, last)
  BY <1>3, <1>7, <1>8 DEF Inductive
<1>10. last \in S
  <2>1. \A k \in 0 .. last : k \in S
    BY <1>9, RangeInduction
  <2> QED
    BY <1>3, <2>1
<1>11. Upto(s, Len(s)) = s
  BY <1>1, UptoFacts DEF Texts
<1> QED
  BY <1>3, <1>6, <1>10, <1>11 DEF S

-----------------------------------------------------------------------------
(* Tokens between delimiters.                                              *)

NoDelimiter(d) == {t \in Words : Find(t, d, 1) = Len(t) + 1}

\* The tokens that occur in s.
Inside(s) == {t \in Words : Find(s, t, 1) <= Len(s)}

LEMMA PieceGood ==
  ASSUME NEW s, NEW d, NEW p, NEW a, NEW b, s \in Texts, d \in Words, p \in Words,
         PieceAt(s, d, p, a, b)
  PROVE  p \in NoDelimiter(d) /\ p \in Inside(s)
<1>1. PICK n : n = Len(p)
  OBVIOUS
<1>2. PICK w : w = Len(d)
  OBVIOUS
<1>3. PICK len : len = Len(s)
  OBVIOUS
<1>4. /\ a \in Nat /\ n \in Nat /\ p = SubSeq(s, a + 1, a + n) /\ a + n <= len
      /\ Find(s, d, a + 1) = a + n + 1
  BY <1>1, <1>3 DEF PieceAt
<1>5. len \in Nat /\ w \in Nat /\ n >= 1 /\ p \in Texts /\ w >= 1 /\ d \in Texts
  BY <1>1, <1>2, <1>3, SeqFacts DEF Texts, Words
<1>6. PICK first : first = a + 1
  OBVIOUS
<1>7. PICK end : end = a + n
  OBVIOUS
<1>8. \A i \in 1 .. n : p[i] = s[a + i]
  <2>1. first \in Nat \ {0} /\ end \in Nat /\ end <= Len(s) /\ end + 1 - first = n
    BY <1>3, <1>4, <1>6, <1>7
  <2>2. \A i \in 1 .. end + 1 - first : SubSeq(s, first, end)[i] = s[first + i - 1]
    <3>1. s \in Seq(Classes)
      BY DEF Texts
    <3> QED
      BY <2>1, <3>1, SubTexts
  <2>3. \A i \in 1 .. n : first + i - 1 = a + i
    BY <1>4, <1>6
  <2> QED
    BY <1>4, <1>6, <1>7, <2>1, <2>2, <2>3
<1>9. PICK f : f = Find(p, d, 1)
  OBVIOUS
<1>10. /\ f \in 1 .. n + 1
       /\ f <= n => f + w <= n + 1 /\ SubSeq(p, f, f + w - 1) = d
  <2>1. 1 \in Nat \ {0}
    OBVIOUS
  <2> QED
    BY <1>1, <1>2, <1>5, <1>9, <2>1, FindFacts
<1>11. ASSUME f <= n
       PROVE  FALSE
  <2>1. f + w <= n + 1 /\ SubSeq(p, f, f + w - 1) = d /\ f \in Nat /\ f >= 1
    BY <1>5, <1>10, <1>11
  <2>2. PICK g : g = a + f
    OBVIOUS
  <2>3. g \in a + 1 .. len + 1 - w /\ g \in Nat
    BY <1>4, <1>5, <2>1, <2>2
  <2>4. PICK ge : ge = g + w - 1
    OBVIOUS
  <2>5. PICK fe : fe = f + w - 1
    OBVIOUS
  <2>6. /\ g \in Nat \ {0} /\ ge \in Nat /\ ge <= Len(s) /\ g <= ge + 1 /\ ge + 1 - g = w
        /\ f \in Nat \ {0} /\ fe \in Nat /\ fe <= Len(p) /\ f <= fe + 1 /\ fe + 1 - f = w
    BY <1>1, <1>3, <1>4, <1>5, <2>1, <2>2, <2>3, <2>4, <2>5
  <2>7. PICK x : x = SubSeq(s, g, ge)
    OBVIOUS
  <2>8. x \in Seq(Classes) /\ Len(x) = w /\ \A i \in 1 .. w : x[i] = s[g + i - 1]
    <3>1. s \in Seq(Classes)
      BY DEF Texts
    <3> QED
      BY <2>6, <2>7, <3>1, SubTexts
  <2>9. \A i \in 1 .. w : d[i] = p[f + i - 1]
    <3>1. p \in Seq(Classes)
      BY <1>5 DEF Texts
    <3>2. d = SubSeq(p, f, fe)
      BY <2>1, <2>5
    <3>3. \A i \in 1 .. fe + 1 - f : SubSeq(p, f, fe)[i] = p[f + i - 1]
      BY <2>6, <3>1, SubTexts
    <3> QED
      BY <2>6, <3>2, <3>3
  <2>10. ASSUME NEW i \in 1 .. w
         PROVE  x[i] = d[i]
    <3>1. PICK j : j = f + i - 1
      OBVIOUS
    <3>2. j \in 1 .. n /\ a + j = g + i - 1
      BY <1>4, <1>5, <2>1, <2>2, <3>1
    <3>3. p[j] = s[a + j]
      BY <1>8, <3>2
    <3> QED
      BY <2>8, <2>9, <3>1, <3>2, <3>3
  <2>11. x = d
    <3>1. d \in Seq(Classes) /\ Len(d) = w
      BY <1>2, <1>5 DEF Texts
    <3> QED
      BY <2>8, <2>10, <3>1, SameSeq
  <2>12. Find(s, d, first) <= g
    <3>1. first \in Nat \ {0}
      BY <1>4, <1>6
    <3>2. \A i \in first .. Len(s) + 1 - Len(d) :
            SubSeq(s, i, i + Len(d) - 1) = d => Find(s, d, first) <= i
      BY <3>1, FindFacts
    <3>3. g \in first .. Len(s) + 1 - Len(d)
      BY <1>2, <1>3, <1>6, <2>3
    <3>4. SubSeq(s, g, g + Len(d) - 1) = d
      BY <1>2, <2>4, <2>7, <2>11
    <3> QED
      BY <3>2, <3>3, <3>4
  <2> QED
    BY <1>4, <1>6, <1>11, <2>1, <2>2, <2>12
<1>12. p \in NoDelimiter(d)
  <2>1. f = n + 1
    BY <1>4, <1>10, <1>11
  <2> QED
    BY <1>1, <1>9, <2>1 DEF NoDelimiter
<1>13. p \in Inside(s)
  <2>1. 1 \in Nat \ {0}
    OBVIOUS
  <2>2. \A i \in 1 .. Len(s) + 1 - Len(p) : SubSeq(s, i, i + Len(p) - 1) = p => Find(s, p, 1) <= i
    BY <2>1, FindFacts
  <2>9. a \in Nat /\ n \in Nat /\ a + n <= len /\ first = a + 1 /\ first + n - 1 = a + n
    <3>1. a \in Nat /\ n \in Nat /\ a + n <= len
      BY <1>4
    <3> QED
      BY <1>6, <3>1
  <2>3. first \in 1 .. Len(s) + 1 - Len(p)
    <3>1. first \in 1 .. len + 1 - n
      BY <1>5, <2>9
    <3> QED
      BY <1>1, <1>3, <3>1
  <2>4. SubSeq(s, first, first + Len(p) - 1) = p
    <3>1. SubSeq(s, first, first + n - 1) = p
      BY <1>4, <2>9
    <3> QED
      BY <1>1, <3>1
  <2>5. Find(s, p, 1) <= first
    BY <2>2, <2>3, <2>4
  <2>6. Find(s, p, 1) \in 1 .. Len(s) + 1
    BY <2>1, FindFacts
  <2>7. first <= Len(s)
    BY <1>3, <1>4, <1>5, <1>6
  <2>8. Find(s, p, 1) <= Len(s)
    <3>1. PICK q : q = Find(s, p, 1)
      OBVIOUS
    <3>2. q \in Nat /\ first \in Nat /\ Len(s) \in Nat
      BY <1>3, <1>4, <1>5, <1>6, <2>6, <3>1
    <3> QED
      BY <2>5, <2>7, <3>1, <3>2
  <2> QED
    BY <2>8 DEF Inside
<1> QED
  BY <1>12, <1>13

LEMMA PiecesPlaced ==
  ASSUME NEW s, NEW d, s \in Texts, d \in Words
  PROVE  \A n \in 1 .. Len(Pieces(s, d)) :
           \E a, b : PieceAt(s, d, Pieces(s, d)[n], a, b)
<1>1. ASSUME NEW n \in 1 .. Len(Pieces(s, d))
      PROVE  \E a, b : PieceAt(s, d, Pieces(s, d)[n], a, b)
  <2>1. Len(Pieces(s, d)) \in 0 .. Len(s) /\ Len(s) \in Nat
    BY PiecesFacts, SeqFacts DEF Texts
  <2>2. PICK k : k = n - 1
    OBVIOUS
  <2>3. k \in 0 .. Len(Pieces(s, d)) - 1 /\ n = k + 1
    BY <2>1, <2>2
  <2>4. PieceAt(s, d, Pieces(s, d)[k + 1], Edge(s, d, k), Edge(s, d, k + 1))
    BY <2>3, EdgeFacts
  <2> QED
    BY <2>3, <2>4
<1> QED
  BY <1>1

LEMMA DelimitedGood ==
  ASSUME NEW s, NEW d, s \in Texts, d \in Words
  PROVE  DelimitedTokens(s, d) \in Seq(NoDelimiter(d) \cap Inside(s))
<1>1. PICK pieces : pieces = Pieces(s, d)
  OBVIOUS
<1>2. PICK n : n = Len(pieces)
  OBVIOUS
<1>3. pieces \in Seq(Texts) /\ n \in Nat /\ DOMAIN pieces = 1 .. n
      /\ \A i \in 1 .. n : pieces[i] \in Texts
  <2>1. pieces \in Seq(Texts)
    BY <1>1, PiecesFacts
  <2> QED
    BY <1>2, <2>1, SeqFacts
<1>4. PICK G : G = NoDelimiter(d) \cap Inside(s)
  OBVIOUS
<1>5. PICK kept : kept = [i \in 1 .. n |-> Keep(<<>>, pieces[i])]
  OBVIOUS
<1>6. ASSUME NEW i \in 1 .. n
      PROVE  Keep(<<>>, pieces[i]) \in Seq(G)
  <2>1. CASE pieces[i] = <<>>
    BY <2>1 DEF Keep
  <2>2. CASE pieces[i] # <<>>
    <3>1. PICK a, b : PieceAt(s, d, pieces[i], a, b)
      BY <1>1, <1>2, PiecesPlaced
    <3>2. pieces[i] \in Words
      BY <1>3, <2>2 DEF Words
    <3>3. pieces[i] \in G
      BY <1>4, <3>1, <3>2, PieceGood
    <3>4. Append(<<>>, pieces[i]) \in Seq(G)
      BY <3>3
    <3> QED
      BY <2>2, <3>4 DEF Keep
  <2> QED
    BY <2>1, <2>2
<1>7. kept \in Seq(Seq(G))
  BY <1>3, <1>5, <1>6
<1>8. FlattenSeq(kept) \in Seq(G)
  BY <1>7, FlattenType
<1>9. DelimitedTokens(s, d) = FlattenSeq(kept)
  BY <1>1, <1>3, <1>5 DEF DelimitedTokens
<1> QED
  BY <1>4, <1>8, <1>9

LEMMA DelimitedLetters ==
  ASSUME NEW s, NEW d, s \in Texts, d \in Words, Letters(d) = <<>>
  PROVE  Letters(FlattenSeq(DelimitedTokens(s, d))) = Letters(s)
<1>1. PICK pieces : pieces = Pieces(s, d)
  OBVIOUS
<1>2. PICK n : n = Len(pieces)
  OBVIOUS
<1>3. pieces \in Seq(Texts) /\ n \in Nat /\ DOMAIN pieces = 1 .. n
      /\ \A i \in 1 .. n : pieces[i] \in Texts
  <2>1. pieces \in Seq(Texts)
    BY <1>1, PiecesFacts
  <2> QED
    BY <1>2, <2>1, SeqFacts
<1>4. PICK kept : kept = [i \in 1 .. n |-> Keep(<<>>, pieces[i])]
  OBVIOUS
<1>5. ASSUME NEW i \in 1 .. n
      PROVE  Keep(<<>>, pieces[i]) \in Seq(Texts) /\ FlattenSeq(Keep(<<>>, pieces[i])) = pieces[i]
  <2>1. pieces[i] \in Texts
    BY <1>3
  <2>2. CASE pieces[i] = <<>>
    BY <2>2, FlattenEmpty DEF Keep
  <2>3. CASE pieces[i] # <<>>
    <3>1. Keep(<<>>, pieces[i]) = <<pieces[i]>>
      BY <2>3 DEF Keep
    <3>2. FlattenSeq(<<pieces[i]>>) = pieces[i]
      BY <2>1, FlattenOne DEF Texts
    <3>3. PICK q : q = pieces[i]
      OBVIOUS
    <3>4. <<q>> \in Seq(Texts)
      BY <2>1, <3>3
    <3> QED
      BY <3>1, <3>2, <3>3, <3>4
  <2> QED
    BY <2>2, <2>3
<1>6. kept \in Seq(Seq(Texts)) /\ Len(kept) = n
  BY <1>3, <1>4, <1>5
<1>7. FlatParts(pieces, kept, Classes)
  <2>1. \A i \in 1 .. Len(kept) : pieces[i] = FlattenSeq(kept[i])
    BY <1>4, <1>5, <1>6
  <2> QED
    BY <1>2, <1>3, <1>6, <2>1 DEF FlatParts, Texts
<1>8. FlattenSeq(FlattenSeq(kept)) = FlattenSeq(pieces)
  BY <1>7, FlattenFlatten
<1>9. DelimitedTokens(s, d) = FlattenSeq(kept)
  BY <1>1, <1>3, <1>4 DEF DelimitedTokens
<1>10. LettersAgree(pieces, s, d)
  BY <1>1, <1>3 DEF LettersAgree
<1> QED
  BY <1>8, <1>9, <1>10, PiecesLetters

\* A piece without newline has none among its characters.
LEMMA NoNewline ==
  ASSUME NEW t, t \in NoDelimiter(<<"nl">>)
  PROVE  "nl" \notin Range(t)
<1>1. SUFFICES ASSUME NEW i \in DOMAIN t, t[i] = "nl"
               PROVE  FALSE
  BY DEF Range
<1>2. PICK d : d = <<"nl">>
  OBVIOUS
<1>3. d \in Words /\ Len(d) = 1 /\ d[1] = "nl"
  <2>1. "nl" \in Classes
    BY DEF Classes
  <2> QED
    BY <1>2, <2>1 DEF Words, Texts
<1>4. t \in Texts /\ t \in Seq(Classes) /\ Find(t, d, 1) = Len(t) + 1
  BY <1>2 DEF NoDelimiter, Words, Texts
<1>5. i \in 1 .. Len(t) /\ Len(t) \in Nat
  BY <1>1, <1>4, SeqFacts
<1>6. SubSeq(t, i, i) = d
  <2>1. SubSeq(t, i, i) = <<t[i]>>
    BY <1>4, <1>5, SubOne
  <2> QED
    BY <1>1, <1>2, <2>1
<1>7. Find(t, d, 1) <= i
  <2> DEFINE first == 1
  <2>0. first \in Nat \ {0}
    OBVIOUS
  <2> HIDE DEF first
  <2>1. \A k \in first .. Len(t) + 1 - Len(d) :
          SubSeq(t, k, k + Len(d) - 1) = d => Find(t, d, first) <= k
    BY <1>3, <1>4, <2>0, FindFacts
  <2> USE DEF first
  <2>2. i \in first .. Len(t) + 1 - Len(d) /\ i + Len(d) - 1 = i
    BY <1>3, <1>5
  <2> QED
    BY <1>6, <2>1, <2>2
<1> QED
  BY <1>4, <1>5, <1>7

\* A carriage return stripped from a line changes neither its letters nor what else is in it.
LEMMA ChompFacts ==
  ASSUME NEW l, l \in Texts
  PROVE  /\ Chomp(l) \in Texts /\ Letters(Chomp(l)) = Letters(l)
         /\ Range(Chomp(l)) \subseteq Range(l)
<1>1. CASE ~(l # <<>> /\ Last(l) = "cr")
  BY <1>1, ChompType DEF Chomp
<1>2. CASE l # <<>> /\ Last(l) = "cr"
  <2>1. PICK f : f = Front(l)
    OBVIOUS
  <2>2. l \in Seq(Classes) /\ Len(l) \in Nat \ {0}
    BY <1>2, SeqFacts DEF Texts
  <2>3. f \in Seq(Classes) /\ Len(f) = Len(l) - 1 /\ \A i \in 1 .. Len(l) - 1 : f[i] = l[i]
    <3>1. PICK n : n = Len(l) - 1
      OBVIOUS
    <3>2. n \in Nat /\ n <= Len(l) /\ n + 1 - 1 = n /\ \A i \in 1 .. n : 1 + i - 1 = i
      BY <2>2, <3>1
    <3> DEFINE first == 1
    <3>3. first \in Nat \ {0} /\ first <= n + 1
      BY <3>2
    <3> HIDE DEF first
    <3>4. /\ SubSeq(l, first, n) \in Seq(Classes) /\ Len(SubSeq(l, first, n)) = n + 1 - first
          /\ \A i \in 1 .. n + 1 - first : SubSeq(l, first, n)[i] = l[first + i - 1]
      BY <2>2, <3>2, <3>3, SubTexts
    <3> USE DEF first
    <3>5. f = SubSeq(l, first, n)
      BY <2>1, <3>1 DEF Front
    <3> QED
      BY <3>1, <3>2, <3>4, <3>5
  <2>4. l[Len(l)] = "cr"
    BY <1>2 DEF Last
  <2>5. PICK c : c = <<"cr">>
    OBVIOUS
  <2>6. c \in Texts /\ Len(c) = 1 /\ c[1] = "cr"
    <3>1. "cr" \in Classes
      BY DEF Classes
    <3> QED
      BY <2>5, <3>1 DEF Texts
  <2>7. l = f \o c
    <3>1. /\ f \o c \in Seq(Classes) /\ Len(f \o c) = Len(f) + Len(c)
          /\ \A i \in 1 .. Len(f) : (f \o c)[i] = f[i]
          /\ \A i \in 1 .. Len(c) : (f \o c)[Len(f) + i] = c[i]
      BY <2>3, <2>6, ConcatFacts DEF Texts
    <3>2. PICK fc : fc = f \o c
      OBVIOUS
    <3>3. Len(fc) = Len(l)
      BY <2>2, <2>3, <2>6, <3>1, <3>2
    <3>4. fc[Len(l)] = l[Len(l)]
      BY <2>2, <2>3, <2>4, <2>6, <3>1, <3>2
    <3>5. \A i \in 1 .. Len(l) - 1 : fc[i] = l[i]
      BY <2>2, <2>3, <3>1, <3>2
    <3>6. \A i \in 1 .. Len(l) : fc[i] = l[i]
      BY <2>2, <3>4, <3>5
    <3> QED
      BY <2>2, <3>1, <3>2, <3>3, <3>6, SameSeq
  <2>8. Letters(c) = <<>>
    BY <2>6, LettersNone
  <2>9. f \in Texts
    BY <2>3 DEF Texts
  <2>10. Letters(l) = Letters(f) \o Letters(c)
    BY <2>6, <2>7, <2>9, LettersConcat
  <2>11. Letters(f) \in Texts
    BY <2>9, LetterPartsType
  <2>12. Letters(f) \o <<>> = Letters(f)
    BY <2>11 DEF Texts
  <2>13. Range(f) \subseteq Range(l)
    BY <2>2, <2>3, SeqFacts DEF Range
  <2>14. Chomp(l) = f
    BY <1>2, <2>1 DEF Chomp
  <2> QED
    BY <2>8, <2>9, <2>10, <2>12, <2>13, <2>14
<1> QED
  BY <1>1, <1>2

\* What occurs in a text has only characters of it.
LEMMA InsideRange ==
  ASSUME NEW s, NEW t, s \in Texts, t \in Inside(s)
  PROVE  Range(t) \subseteq Range(s)
<1>1. t \in Words /\ Find(s, t, 1) <= Len(s)
  BY DEF Inside
<1>2. s \in Seq(Classes) /\ t \in Seq(Classes)
  BY <1>1 DEF Words, Texts
<1>3. PICK f : f = Find(s, t, 1)
  OBVIOUS
<1>4. /\ f \in Nat \ {0} /\ f + Len(t) <= Len(s) + 1 /\ SubSeq(s, f, f + Len(t) - 1) = t
      /\ Len(s) \in Nat /\ Len(t) \in Nat
  BY <1>1, <1>3, FindFacts
<1>5. PICK e : e = f + Len(t) - 1
  OBVIOUS
<1>6. e \in Nat /\ e <= Len(s) /\ e + 1 - f = Len(t)
  BY <1>4, <1>5
<1>7. \A n \in 1 .. e + 1 - f : SubSeq(s, f, e)[n] = s[f + n - 1]
  BY <1>2, <1>4, <1>6, SubTexts
<1>8. ASSUME NEW n \in DOMAIN t
      PROVE  t[n] \in Range(s)
  <2>1. n \in 1 .. Len(t)
    BY <1>2, <1>8, SeqFacts
  <2>2. t[n] = s[f + n - 1]
    BY <1>4, <1>5, <1>6, <1>7, <2>1
  <2>3. f + n - 1 \in 1 .. Len(s)
    BY <1>4, <2>1
  <2>4. f + n - 1 \in DOMAIN s
    BY <1>2, <2>3, SeqFacts
  <2> QED
    BY <2>2, <2>4 DEF Range
<1> QED
  BY <1>8 DEF Range

\* The lines of a text: as many as there are pieces between newlines, and none holds one.
LEMMA LinesFacts ==
  ASSUME NEW s, s \in Texts
  PROVE  /\ Lines(s) \in Seq(Texts) /\ Len(Lines(s)) = Len(Pieces(s, <<"nl">>))
         /\ \A i \in 1 .. Len(Lines(s)) :
              /\ Letters(Lines(s)[i]) = Letters(Pieces(s, <<"nl">>)[i])
              /\ "nl" \notin Range(Lines(s)[i])
<1>1. PICK d : d = <<"nl">>
  OBVIOUS
<1>2. d \in Words
  BY <1>1 DEF Words, Texts, Classes
<1>3. PICK pieces : pieces = Pieces(s, d)
  OBVIOUS
<1>4. PICK n : n = Len(pieces)
  OBVIOUS
<1>5. pieces \in Seq(Texts) /\ n \in Nat /\ DOMAIN pieces = 1 .. n
      /\ \A i \in 1 .. n : pieces[i] \in Texts
  <2>1. pieces \in Seq(Texts)
    BY <1>2, <1>3, PiecesFacts
  <2> QED
    BY <1>4, <2>1, SeqFacts
<1>6. Lines(s) = [i \in 1 .. n |-> Chomp(pieces[i])]
  BY <1>1, <1>3, <1>5 DEF Lines
<1>7. ASSUME NEW i \in 1 .. n
      PROVE  /\ Chomp(pieces[i]) \in Texts
             /\ Letters(Chomp(pieces[i])) = Letters(pieces[i])
             /\ "nl" \notin Range(Chomp(pieces[i]))
  <2>1. PICK p : p = pieces[i]
    OBVIOUS
  <2>2. p \in Texts
    BY <1>5, <2>1
  <2>3. "nl" \notin Range(p)
    <3>1. CASE p = <<>>
      BY <3>1 DEF Range
    <3>2. CASE p # <<>>
      <4>1. p \in Words
        BY <2>2, <3>2 DEF Words
      <4>2. PICK a, b : PieceAt(s, d, p, a, b)
        BY <1>2, <1>3, <1>4, <2>1, PiecesPlaced
      <4>3. p \in NoDelimiter(d)
        BY <1>2, <4>1, <4>2, PieceGood
      <4> QED
        BY <1>1, <4>3, NoNewline
    <3> QED
      BY <3>1, <3>2
  <2>4. /\ Chomp(p) \in Texts /\ Letters(Chomp(p)) = Letters(p)
        /\ Range(Chomp(p)) \subseteq Range(p)
    BY <2>2, ChompFacts
  <2> QED
    BY <2>1, <2>3, <2>4
<1>8. Lines(s) \in Seq(Texts) /\ Len(Lines(s)) = n
  BY <1>5, <1>6, <1>7
<1> QED
  BY <1>1, <1>3, <1>4, <1>6, <1>7, <1>8

\* A delimiter is a word without letters.
LEMMA DelimiterFacts ==
  ASSUME NEW o, o \in PlanOptions, o.delimiter # <<>>
  PROVE  o.delimiter \in Words /\ Letters(o.delimiter) = <<>>
<1>1. PICK d : d = o.delimiter
  OBVIOUS
<1>2. d \in Delimiters
  BY <1>1 DEF PlanOptions
<1>3. "blank" \in Classes
  BY DEF Classes
<1>4. d \in Words
  BY <1>1, OptionFacts
<1>5. \A i \in 1 .. Len(d) : d[i] \notin {"x", "P"}
  <2>1. d = <<"blank">> \/ d = <<"blank", "blank">>
    BY <1>1, <1>2 DEF Delimiters
  <2>2. CASE d = <<"blank">>
    BY <2>2
  <2>3. CASE d = <<"blank", "blank">>
    BY <2>3
  <2> QED
    BY <2>1, <2>2, <2>3
<1> QED
  BY <1>1, <1>4, <1>5, LettersNone DEF Words

\* With -L and a delimiter no token holds the delimiter or a newline.
LEMMA LineGood ==
  ASSUME NEW s, NEW o, s \in Texts, o \in PlanOptions, o.delimiter # <<>>
  PROVE  LineTokens(Lines(s), o) \in
           Seq({t \in NoDelimiter(o.delimiter) : "nl" \notin Range(t)})
<1>1. PICK lines : lines = Lines(s)
  OBVIOUS
<1>2. PICK n : n = Len(lines)
  OBVIOUS
<1>3. /\ lines \in Seq(Texts) /\ n \in Nat /\ DOMAIN lines = 1 .. n
      /\ \A i \in 1 .. n : lines[i] \in Texts /\ "nl" \notin Range(lines[i])
  <2>1. lines \in Seq(Texts) /\ \A i \in 1 .. n : "nl" \notin Range(lines[i])
    BY <1>1, <1>2, LinesFacts
  <2> QED
    BY <1>2, <2>1, SeqFacts
<1>4. PICK G : G = {t \in NoDelimiter(o.delimiter) : "nl" \notin Range(t)}
  OBVIOUS
<1>5. PICK d : d = o.delimiter
  OBVIOUS
<1>6. d \in Words
  BY <1>5, DelimiterFacts
<1>7. ASSUME NEW i \in 1 .. n
      PROVE  split(lines[i], o) \in Seq(G)
  <2>1. PICK l : l = lines[i]
    OBVIOUS
  <2>2. l \in Texts /\ "nl" \notin Range(l)
    BY <1>3, <2>1
  <2>3. PICK A : A = NoDelimiter(d) \cap Inside(l)
    OBVIOUS
  <2>4. DelimitedTokens(l, d) \in Seq(A)
    BY <1>6, <2>2, <2>3, DelimitedGood
  <2>5. \A t \in A : t \in G
    BY <1>4, <1>5, <2>2, <2>3, InsideRange
  <2>6. DelimitedTokens(l, d) \in Seq(G)
    BY <2>4, <2>5
  <2>7. split(l, o) = DelimitedTokens(l, d)
    BY <1>5 DEF split
  <2> QED
    BY <2>1, <2>6, <2>7
<1>8. PICK parts : parts = [i \in 1 .. n |-> split(lines[i], o)]
  OBVIOUS
<1>9. parts \in Seq(Seq(G))
  BY <1>3, <1>7, <1>8
<1>10. LineTokens(lines, o) = FlattenSeq(parts)
  BY <1>3, <1>8 DEF LineTokens
<1> QED
  BY <1>1, <1>4, <1>9, <1>10, FlattenType

\* With -L and a delimiter only delimiters and line ends are dropped.
LEMMA LineLetters ==
  ASSUME NEW s, NEW o, s \in Texts, o \in PlanOptions, o.delimiter # <<>>
  PROVE  Letters(FlattenSeq(LineTokens(Lines(s), o))) = Letters(s)
<1>1. PICK lines : lines = Lines(s)
  OBVIOUS
<1>2. PICK n : n = Len(lines)
  OBVIOUS
<1>3. PICK nl : nl = <<"nl">>
  OBVIOUS
<1>4. /\ lines \in Seq(Texts) /\ n \in Nat /\ DOMAIN lines = 1 .. n
      /\ \A i \in 1 .. n : lines[i] \in Texts
      /\ Len(Pieces(s, nl)) = n
      /\ \A i \in 1 .. n : Letters(lines[i]) = Letters(Pieces(s, nl)[i])
  <2>1. /\ lines \in Seq(Texts) /\ Len(lines) = Len(Pieces(s, nl))
        /\ \A i \in 1 .. Len(lines) : Letters(lines[i]) = Letters(Pieces(s, nl)[i])
    BY <1>1, <1>3, LinesFacts
  <2> QED
    BY <1>2, <2>1, SeqFacts
<1>5. PICK d : d = o.delimiter
  OBVIOUS
<1>6. d \in Words /\ Letters(d) = <<>>
  BY <1>5, DelimiterFacts
<1>7. nl \in Words /\ Letters(nl) = <<>>
  <2>1. nl \in Words /\ \A i \in 1 .. Len(nl) : nl[i] \notin {"x", "P"}
    BY <1>3 DEF Words, Texts, Classes
  <2> QED
    BY <2>1, LettersNone DEF Words
<1>8. PICK parts : parts = [i \in 1 .. n |-> split(lines[i], o)]
  OBVIOUS
<1>9. PICK inner : inner = [i \in 1 .. n |-> FlattenSeq(split(lines[i], o))]
  OBVIOUS
<1>10. ASSUME NEW i \in 1 .. n
       PROVE  /\ split(lines[i], o) \in Seq(Texts)
              /\ FlattenSeq(split(lines[i], o)) \in Texts
              /\ Letters(FlattenSeq(split(lines[i], o))) = Letters(lines[i])
  <2>1. PICK l : l = lines[i]
    OBVIOUS
  <2>2. l \in Texts
    BY <1>4, <2>1
  <2>3. split(l, o) \in Seq(Texts)
    <3>1. split(l, o) \in Seq(Words)
      BY <2>2, SplitType
    <3> QED
      BY <3>1 DEF Words
  <2>4. FlattenSeq(split(l, o)) \in Texts
    BY <2>3, FlattenType DEF Texts
  <2>5. Letters(FlattenSeq(DelimitedTokens(l, d))) = Letters(l)
    BY <1>6, <2>2, DelimitedLetters
  <2>6. split(l, o) = DelimitedTokens(l, d)
    BY <1>5 DEF split
  <2> QED
    BY <2>1, <2>3, <2>4, <2>5, <2>6
<1>11. parts \in Seq(Seq(Texts)) /\ Len(parts) = n /\ inner \in Seq(Texts) /\ Len(inner) = n
  BY <1>4, <1>8, <1>9, <1>10
<1>12. FlatParts(inner, parts, Classes)
  BY <1>8, <1>9, <1>11 DEF FlatParts, Texts
<1>13. LettersAgree(inner, s, nl)
  <2>1. \A i \in 1 .. n : Letters(inner[i]) = Letters(Pieces(s, nl)[i])
    BY <1>4, <1>9, <1>10
  <2> QED
    BY <1>4, <1>7, <1>11, <2>1 DEF LettersAgree
<1>14. LineTokens(lines, o) = FlattenSeq(parts)
  BY <1>4, <1>8 DEF LineTokens
<1>15. FlattenSeq(FlattenSeq(parts)) = FlattenSeq(inner)
  BY <1>12, FlattenFlatten
<1> QED
  BY <1>1, <1>13, <1>14, <1>15, PiecesLetters

-----------------------------------------------------------------------------
(* The loop over blanks, line by line.                                     *)

LEMMA KeepConcat ==
  ASSUME NEW P, NEW Q, NEW w, P \in Seq(Words), Q \in Seq(Words), w \in Texts
  PROVE  Keep(P \o Q, w) = P \o Keep(Q, w)
<1>1. CASE w = <<>>
  BY <1>1 DEF Keep
<1>2. CASE w # <<>>
  <2>1. w \in Words
    BY <1>2 DEF Words
  <2>2. P \o Append(Q, w) = Append(P \o Q, w)
    BY <2>1, ConcatAppend
  <2> QED
    BY <1>2, <2>2 DEF Keep
<1> QED
  BY <1>1, <1>2

\* In s the loop is between two tokens when it comes to v, with P done.
Continues(s, v, m, P) ==
  /\ s \in Texts /\ v \in Texts /\ m \in Nat /\ m + Len(v) <= Len(s) /\ P \in Seq(Words)
  /\ BlankLoop(s)[m] = [pieces |-> P, piece |-> <<>>]
  /\ \A j \in 1 .. Len(v) : s[m + j] = v[j]

Ahead(P, acc) == [pieces |-> P \o acc.pieces, piece |-> acc.piece]

LEMMA StepAhead ==
  ASSUME NEW P, NEW acc, NEW c, P \in Seq(Words), acc \in BlankStates, c \in Classes
  PROVE  BlankStep(Ahead(P, acc), c) = Ahead(P, BlankStep(acc, c))
<1>1. acc.pieces \in Seq(Words) /\ acc.piece \in Texts
  BY DEF BlankStates
<1>2. PICK t : t = Ahead(P, acc)
  OBVIOUS
<1>3. t.pieces = P \o acc.pieces /\ t.piece = acc.piece
  BY <1>2 DEF Ahead
<1>4. t \in BlankStates
  <2>1. P \o acc.pieces \in Seq(Words)
    BY <1>1
  <2> QED
    BY <1>1, <1>2, <2>1 DEF Ahead, BlankStates
<1>5. PICK u : u = BlankStep(acc, c)
  OBVIOUS
<1>6. PICK v : v = BlankStep(t, c)
  OBVIOUS
<1>7. v \in BlankStates
  BY <1>4, <1>6, BlankStepType
<1>8. v.pieces = P \o u.pieces /\ v.piece = u.piece
  <2>1. CASE IsSpace(c)
    <3>1. u.pieces = Keep(acc.pieces, acc.piece) /\ u.piece = <<>>
      BY <1>5, <2>1, BlankStepType
    <3>2. v.pieces = Keep(t.pieces, t.piece) /\ v.piece = <<>>
      BY <1>4, <1>6, <2>1, BlankStepType
    <3>3. PICK Q : Q = acc.pieces
      OBVIOUS
    <3>4. PICK w : w = acc.piece
      OBVIOUS
    <3>5. Keep(P \o Q, w) = P \o Keep(Q, w)
      BY <1>1, <3>3, <3>4, KeepConcat
    <3> QED
      BY <1>3, <3>1, <3>2, <3>3, <3>4, <3>5
  <2>2. CASE ~IsSpace(c)
    <3>1. u.pieces = acc.pieces /\ u.piece = Append(acc.piece, c)
      BY <1>5, <2>2, BlankStepType
    <3>2. v.pieces = t.pieces /\ v.piece = Append(t.piece, c)
      BY <1>4, <1>6, <2>2, BlankStepType
    <3> QED
      BY <1>3, <3>1, <3>2
  <2> QED
    BY <2>1, <2>2
<1>9. v = [pieces |-> v.pieces, piece |-> v.piece]
  BY <1>7 DEF BlankStates
<1> QED
  BY <1>2, <1>5, <1>6, <1>8, <1>9 DEF Ahead

\* From there it goes on as it does at the beginning of v.
LEMMA LoopAhead ==
  ASSUME NEW s, NEW v, NEW m, NEW P, Continues(s, v, m, P)
  PROVE  \A j \in 0 .. Len(v) : BlankLoop(s)[m + j] = Ahead(P, BlankLoop(v)[j])
<1> DEFINE S == {j \in Nat : BlankLoop(s)[m + j] = Ahead(P, BlankLoop(v)[j])}
<1>1. /\ s \in Texts /\ v \in Texts /\ m \in Nat /\ P \in Seq(Words)
      /\ BlankLoop(s)[m] = [pieces |-> P, piece |-> <<>>]
  BY DEF Continues
<1>2. PICK last : last = Len(v)
  OBVIOUS
<1>3. PICK len : len = Len(s)
  OBVIOUS
<1>4. last \in Nat /\ len \in Nat /\ m + last <= len
      /\ \A j \in 1 .. last : s[m + j] = v[j] /\ v[j] \in Classes
  <2>1. Len(v) \in Nat /\ Len(s) \in Nat /\ \A j \in 1 .. Len(v) : v[j] \in Classes
    BY <1>1, SeqFacts DEF Texts
  <2> QED
    BY <1>2, <1>3, <2>1 DEF Continues
<1>5. PICK f : f = BlankLoop(s)
  OBVIOUS
<1>6. PICK g : g = BlankLoop(v)
  OBVIOUS
<1>7. \A n \in 0 .. len - 1 : f[n + 1] = BlankStep(f[n], s[n + 1])
  BY <1>1, <1>3, <1>5, BlankLoopFacts
<1>8. /\ g \in [0 .. last -> BlankStates] /\ g[0] = [pieces |-> <<>>, piece |-> <<>>]
      /\ \A n \in 0 .. last - 1 : g[n + 1] = BlankStep(g[n], v[n + 1])
  BY <1>1, <1>2, <1>6, BlankLoopFacts
<1>9. 0 \in S
  <2>1. Ahead(P, g[0]) = [pieces |-> P, piece |-> <<>>]
    BY <1>1, <1>8 DEF Ahead
  <2>2. m + 0 = m
    BY <1>1
  <2> QED
    BY <1>1, <1>6, <2>1, <2>2
<1>10. ASSUME NEW j \in 0 .. last - 1, j \in S
       PROVE  j + 1 \in S
  <2>1. /\ m + j \in 0 .. len - 1
        /\ m + (j + 1) = (m + j) + 1
        /\ j + 1 \in 1 .. last
        /\ j \in 0 .. last
        /\ j + 1 \in Nat
    BY <1>1, <1>4
  <2>2. f[(m + j) + 1] = BlankStep(f[m + j], s[(m + j) + 1])
    BY <1>7, <2>1
  <2>3. s[(m + j) + 1] = v[j + 1] /\ v[j + 1] \in Classes
    BY <1>4, <2>1
  <2>4. f[m + j] = Ahead(P, g[j]) /\ g[j] \in BlankStates
    BY <1>5, <1>6, <1>8, <1>10, <2>1
  <2>5. BlankStep(Ahead(P, g[j]), v[j + 1]) = Ahead(P, BlankStep(g[j], v[j + 1]))
    BY <1>1, <2>3, <2>4, StepAhead
  <2>6. g[j + 1] = BlankStep(g[j], v[j + 1])
    BY <1>8, <1>10
  <2>7. f[m + (j + 1)] = Ahead(P, g[j + 1])
    BY <2>1, <2>2, <2>3, <2>4, <2>5, <2>6
  <2> QED
    BY <1>5, <1>6, <2>1, <2>7
<1> HIDE DEF S
<1>11. \A j \in 0 .. last : j \in S
  <2>1. Inductive(S, 0, last)
    BY <1>4, <1>9, <1>10 DEF Inductive
  <2> QED
    BY <2>1, RangeInduction
<1> QED
  BY <1>2, <1>11 DEF S

\* Where v ends, with a separator behind it or the end of the text.
LEMMA LoopBehind ==
  ASSUME NEW s, NEW v, NEW m, NEW P, Continues(s, v, m, P)
  PROVE  LET e == m + Len(v) IN
         /\ Keep(BlankLoop(s)[e].pieces, BlankLoop(s)[e].piece) = P \o BlankTokens(v)
         /\ e < Len(s) /\ IsSpace(s[e + 1]) =>
              BlankLoop(s)[e + 1] = [pieces |-> P \o BlankTokens(v), piece |-> <<>>]
<1>1. s \in Texts /\ v \in Texts /\ m \in Nat /\ P \in Seq(Words) /\ m + Len(v) <= Len(s)
  BY DEF Continues
<1>2. Len(v) \in Nat /\ Len(s) \in Nat
  BY <1>1, SeqFacts DEF Texts
<1>3. PICK e : e = m + Len(v)
  OBVIOUS
<1>4. PICK a : a = BlankLoop(v)[Len(v)]
  OBVIOUS
<1>5. a \in BlankStates /\ a.pieces \in Seq(Words) /\ a.piece \in Texts
  <2>1. a \in BlankStates
    BY <1>1, <1>2, <1>4, BlankLoopFacts
  <2> QED
    BY <2>1 DEF BlankStates
<1>6. BlankLoop(s)[e] = Ahead(P, a)
  <2>1. \A j \in 0 .. Len(v) : BlankLoop(s)[m + j] = Ahead(P, BlankLoop(v)[j])
    BY LoopAhead
  <2>2. Len(v) \in 0 .. Len(v)
    BY <1>2
  <2> QED
    BY <1>3, <1>4, <2>1, <2>2
<1>7. PICK b : b = BlankLoop(s)[e]
  OBVIOUS
<1>8. b.pieces = P \o a.pieces /\ b.piece = a.piece
  BY <1>6, <1>7 DEF Ahead
<1>9. BlankTokens(v) = Keep(a.pieces, a.piece)
  BY <1>4 DEF BlankTokens
<1>10. Keep(b.pieces, b.piece) = P \o BlankTokens(v)
  <2>1. PICK Q : Q = a.pieces
    OBVIOUS
  <2>2. PICK w : w = a.piece
    OBVIOUS
  <2>3. Keep(P \o Q, w) = P \o Keep(Q, w)
    <3>1. P \in Seq(Words) /\ Q \in Seq(Words) /\ w \in Texts
      BY <1>1, <1>5, <2>1, <2>2
    <3> QED
      BY <3>1, KeepConcat
  <2> QED
    BY <1>8, <1>9, <2>1, <2>2, <2>3
<1>11. ASSUME e < Len(s), IsSpace(s[e + 1])
       PROVE  BlankLoop(s)[e + 1] = [pieces |-> P \o BlankTokens(v), piece |-> <<>>]
  <2>1. e \in 0 .. Len(s) - 1
    BY <1>1, <1>2, <1>3, <1>11
  <2>2. BlankLoop(s)[e + 1] = BlankStep(b, s[e + 1])
    BY <1>1, <1>7, <2>1, BlankLoopFacts
  <2> QED
    BY <1>10, <1>11, <2>2 DEF BlankStep
<1> QED
  BY <1>3, <1>7, <1>10, <1>11

\* The loop over blanks at the beginning of a text.
LEMMA AtTheStart ==
  ASSUME NEW s, NEW v, s \in Texts, v \in Texts, Len(v) <= Len(s),
         \A j \in 1 .. Len(v) : s[j] = v[j]
  PROVE  Continues(s, v, 0, <<>>)
<1>1. BlankLoop(s)[0] = [pieces |-> <<>>, piece |-> <<>>]
  BY BlankLoopFacts
<1>2. Len(v) \in Nat /\ Len(s) \in Nat
  BY SeqFacts DEF Texts
<1>3. \A j \in 1 .. Len(v) : 0 + j = j
  BY <1>2
<1> QED
  BY <1>1, <1>2, <1>3 DEF Continues

\* A carriage return at the end of a line ends a token as the end of the line does.
LEMMA ChompTokens ==
  ASSUME NEW l, l \in Texts
  PROVE  BlankTokens(Chomp(l)) = BlankTokens(l)
<1>1. CASE ~(l # <<>> /\ Last(l) = "cr")
  BY <1>1 DEF Chomp
<1>2. CASE l # <<>> /\ Last(l) = "cr"
  <2>1. PICK f : f = Chomp(l)
    OBVIOUS
  <2>2. l \in Seq(Classes) /\ Len(l) \in Nat \ {0}
    BY <1>2, SeqFacts DEF Texts
  <2>3. /\ f \in Texts /\ Len(f) \in Nat /\ Len(f) + 1 = Len(l)
        /\ \A j \in 1 .. Len(f) : l[j] = f[j]
    <3>1. PICK n : n = Len(l) - 1
      OBVIOUS
    <3>2. n \in Nat /\ n <= Len(l) /\ n + 1 - 1 = n /\ \A i \in 1 .. n : 1 + i - 1 = i
      BY <2>2, <3>1
    <3> DEFINE first == 1
    <3>3. first \in Nat \ {0} /\ first <= n + 1
      BY <3>2
    <3> HIDE DEF first
    <3>4. /\ SubSeq(l, first, n) \in Seq(Classes) /\ Len(SubSeq(l, first, n)) = n + 1 - first
          /\ \A i \in 1 .. n + 1 - first : SubSeq(l, first, n)[i] = l[first + i - 1]
      BY <2>2, <3>2, <3>3, SubTexts
    <3> USE DEF first
    <3>5. f = SubSeq(l, first, n)
      BY <1>2, <2>1, <3>1 DEF Chomp, Front
    <3> QED
      BY <2>2, <3>1, <3>2, <3>4, <3>5 DEF Texts
  <2>4. Continues(l, f, 0, <<>>)
    BY <2>2, <2>3, AtTheStart
  <2>5. PICK n : n = Len(f)
    OBVIOUS
  <2>6. n \in Nat /\ n < Len(l) /\ 0 + Len(f) = n /\ n + 1 = Len(l)
    BY <2>2, <2>3, <2>5
  <2>7. IsSpace(l[n + 1])
    BY <1>2, <2>6 DEF Last, IsSpace
  <2>8. BlankLoop(l)[n + 1] = [pieces |-> <<>> \o BlankTokens(f), piece |-> <<>>]
    BY <2>4, <2>6, <2>7, LoopBehind
  <2>9. <<>> \o BlankTokens(f) = BlankTokens(f)
    BY <2>3, BlankTokensType
  <2>10. BlankTokens(l) = BlankTokens(f)
    <3>1. PICK b : b = BlankLoop(l)[Len(l)]
      OBVIOUS
    <3>2. b.pieces = BlankTokens(f) /\ b.piece = <<>>
      BY <2>6, <2>8, <2>9, <3>1
    <3>3. Keep(b.pieces, b.piece) = BlankTokens(f)
      BY <3>2 DEF Keep
    <3> QED
      BY <3>1, <3>3 DEF BlankTokens
  <2> QED
    BY <2>1, <2>10
<1> QED
  BY <1>1, <1>2

\* A line of the text with its line end.
LEMMA LineAhead ==
  ASSUME NEW s, NEW p, NEW a, NEW b, NEW T, s \in Texts, p \in Texts, T \in Seq(Words),
         PieceAt(s, <<"nl">>, p, a, b),
         BlankLoop(s)[a] = [pieces |-> T, piece |-> <<>>]
  PROVE  /\ Keep(BlankLoop(s)[b].pieces, BlankLoop(s)[b].piece) = T \o BlankTokens(p)
         /\ BlankLoop(s)[b].piece = <<>> \/ b = Len(s)
<1>1. PICK n : n = Len(p)
  OBVIOUS
<1>2. PICK e : e = a + n
  OBVIOUS
<1>3. PICK nl : nl = <<"nl">>
  OBVIOUS
<1>4. /\ a \in Nat /\ b \in Nat /\ n \in Nat /\ b <= Len(s) /\ e <= Len(s) /\ Len(s) \in Nat
      /\ p = SubSeq(s, a + 1, e)
      /\ \/ b = e + 1 /\ SubSeq(s, e + 1, b) = nl
         \/ b = e /\ b = Len(s)
  <2>1. Len(s) \in Nat /\ Len(nl) = 1
    BY <1>3, SeqFacts DEF Texts
  <2>2. /\ a \in Nat /\ b \in Nat /\ n \in Nat /\ b <= Len(s) /\ a + n <= Len(s)
        /\ p = SubSeq(s, a + 1, a + n)
        /\ \/ b = a + n + Len(nl) /\ SubSeq(s, a + n + 1, b) = nl
           \/ b = a + n /\ b = Len(s)
    BY <1>1, <1>3 DEF PieceAt
  <2> QED
    BY <1>2, <2>1, <2>2
<1> DEFINE len == Len(s)
<1>4a. a \in Nat /\ b \in Nat /\ n \in Nat /\ e \in Nat /\ len \in Nat /\ b <= len /\ e <= len
  BY <1>2, <1>4
<1> HIDE DEF len
<1>5. Continues(s, p, a, T)
  <2>1. \A j \in 1 .. n : s[a + j] = p[j]
    <3>1. PICK first : first = a + 1
      OBVIOUS
    <3>2. first \in Nat \ {0} /\ e \in Nat /\ e <= len /\ e + 1 - first = n
      BY <1>2, <1>4a, <3>1
    <3>3. s \in Seq(Classes)
      BY DEF Texts
    <3>4. \A i \in 1 .. e + 1 - first : SubSeq(s, first, e)[i] = s[first + i - 1]
      BY <3>2, <3>3, SubTexts DEF len
    <3>5. \A i \in 1 .. n : first + i - 1 = a + i
      BY <1>4, <3>1
    <3> QED
      BY <1>4, <3>1, <3>2, <3>4, <3>5
  <2> QED
    BY <1>1, <1>2, <1>4, <2>1 DEF Continues
<1>6. PICK t : t = T \o BlankTokens(p)
  OBVIOUS
<1>7. CASE b = e + 1 /\ SubSeq(s, e + 1, b) = nl
  <2>0. b \in 1 .. len /\ e < len
    <3>1. b = e + 1
      BY <1>7
    <3> QED
      BY <1>4a, <3>1
  <2>1. b \in 1 .. Len(s) /\ e < Len(s)
    BY <2>0 DEF len
  <2>2. SubSeq(s, b, b) = <<s[b]>>
    BY <2>1, SubOne DEF Texts
  <2>3. IsSpace(s[e + 1])
    BY <1>3, <1>7, <2>2 DEF IsSpace
  <2>4. BlankLoop(s)[b] = [pieces |-> t, piece |-> <<>>]
    BY <1>1, <1>2, <1>5, <1>6, <1>7, <2>1, <2>3, LoopBehind
  <2> QED
    BY <1>6, <2>4 DEF Keep
<1>8. CASE b = e /\ b = Len(s)
  BY <1>1, <1>2, <1>5, <1>8, LoopBehind
<1> QED
  BY <1>4, <1>7, <1>8

\* With blanks as separators the lines' tokens are those of the text.
LEMMA BlankLines ==
  ASSUME NEW s, NEW o, s \in Texts, o.delimiter = <<>>
  PROVE  LineTokens(Lines(s), o) = BlankTokens(s)
<1>1. PICK nl : nl = <<"nl">>
  OBVIOUS
<1>2. nl \in Words
  <2>1. "nl" \in Classes
    BY DEF Classes
  <2> QED
    BY <1>1, <2>1 DEF Words, Texts
<1>3. PICK pieces : pieces = Pieces(s, nl)
  OBVIOUS
<1>4. PICK last : last = Len(pieces)
  OBVIOUS
<1>5. PICK len : len = Len(s)
  OBVIOUS
<1>6. /\ len \in Nat /\ last \in Nat /\ pieces \in Seq(Texts) /\ DOMAIN pieces = 1 .. last
      /\ \A i \in 1 .. last : pieces[i] \in Texts
      /\ \A i \in 1 .. last : Starts(s, nl)[i] \in 1 .. len
  <2>1. /\ pieces \in Seq(Texts)
        /\ \A i \in 1 .. last : Starts(s, nl)[i] \in 1 .. len
    BY <1>2, <1>3, <1>4, <1>5, PiecesFacts
  <2>2. len \in Nat
    BY <1>5, SeqFacts DEF Texts
  <2> QED
    BY <1>4, <2>1, <2>2, SeqFacts
<1>7. PICK toks : toks = [i \in 1 .. last |-> BlankTokens(pieces[i])]
  OBVIOUS
<1>8. toks \in Seq(Seq(Words)) /\ Len(toks) = last
  <2>1. \A i \in 1 .. last : BlankTokens(pieces[i]) \in Seq(Words)
    BY <1>6, BlankTokensType
  <2> QED
    BY <1>6, <1>7, <2>1
<1>9. LineTokens(Lines(s), o) = FlattenSeq(toks)
  <2>1. PICK lines : lines = Lines(s)
    OBVIOUS
  <2>2. lines = [i \in 1 .. last |-> Chomp(pieces[i])]
    BY <1>1, <1>3, <1>6, <2>1 DEF Lines
  <2>3. ASSUME NEW i \in 1 .. last
        PROVE  split(lines[i], o) = BlankTokens(pieces[i])
    <3>1. split(lines[i], o) = BlankTokens(Chomp(pieces[i]))
      BY <2>2 DEF split
    <3> QED
      BY <1>6, <3>1, ChompTokens
  <2>4. [i \in DOMAIN lines |-> split(lines[i], o)] = toks
    BY <1>7, <2>2, <2>3
  <2> QED
    BY <2>1, <2>4 DEF LineTokens
<1>10. PICK edge : edge = [k \in 0 .. last |-> Edge(s, nl, k)]
  OBVIOUS
<1>11. /\ edge[0] = 0 /\ edge[last] = len
       /\ \A k \in 0 .. last - 1 : PieceAt(s, nl, pieces[k + 1], edge[k], edge[k + 1])
       /\ \A k \in 0 .. last - 1 : edge[k] # len
  <2>1. /\ Edge(s, nl, 0) = 0 /\ Edge(s, nl, last) = len
        /\ \A k \in 0 .. last - 1 :
             PieceAt(s, nl, pieces[k + 1], Edge(s, nl, k), Edge(s, nl, k + 1))
    BY <1>2, <1>3, <1>4, <1>5, EdgeFacts
  <2>2. ASSUME NEW k \in 0 .. last - 1
        PROVE  Edge(s, nl, k) # len /\ k \in 0 .. last /\ k + 1 \in 0 .. last
    <3>1. k + 1 \in 1 .. last /\ k \in 0 .. last /\ k + 1 \in 0 .. last
      BY <1>6
    <3>2. Starts(s, nl)[k + 1] \in 1 .. len
      BY <1>6, <3>1
    <3> QED
      BY <1>5, <1>6, <3>1, <3>2 DEF Edge
  <2> QED
    BY <1>6, <1>10, <2>1, <2>2
<1>12. PICK loop : loop = BlankLoop(s)
  OBVIOUS
<1> DEFINE S == {k \in Nat :
                   /\ loop[edge[k]] \in BlankStates
                   /\ Keep(loop[edge[k]].pieces, loop[edge[k]].piece) = FlattenSeq(Upto(toks, k))
                   /\ loop[edge[k]].piece = <<>> \/ edge[k] = len}
<1>13. 0 \in S
  <2>1. Upto(toks, 0) = <<>>
    BY <1>8, UptoSeq
  <2>2. loop[0] = [pieces |-> <<>>, piece |-> <<>>] /\ loop[0] \in BlankStates
    <3>1. BlankLoop(s) \in [0 .. Len(s) -> BlankStates]
      BY BlankLoopFacts
    <3>2. 0 \in 0 .. Len(s)
      BY <1>5, <1>6
    <3> QED
      BY <1>12, <3>1, <3>2, BlankLoopFacts
  <2> QED
    BY <1>11, <2>1, <2>2, FlattenEmpty DEF Keep
<1>14. ASSUME NEW k \in 0 .. last - 1, k \in S
       PROVE  k + 1 \in S
  <2>1. PICK a : a = edge[k]
    OBVIOUS
  <2>2. PICK b : b = edge[k + 1]
    OBVIOUS
  <2>3. PICK p : p = pieces[k + 1]
    OBVIOUS
  <2>4. PICK T : T = FlattenSeq(Upto(toks, k))
    OBVIOUS
  <2>5. /\ PieceAt(s, nl, p, a, b) /\ p \in Texts /\ k + 1 \in Nat /\ k + 1 \in 1 .. last
        /\ a # len /\ b \in Nat /\ b <= len
    <3>1. k + 1 \in 1 .. last /\ k + 1 \in Nat
      BY <1>6
    <3>2. PieceAt(s, nl, p, a, b) /\ a # len
      BY <1>11, <2>1, <2>2, <2>3
    <3>3. b \in Nat /\ b <= len
      BY <1>5, <3>2 DEF PieceAt
    <3> QED
      BY <1>6, <2>3, <3>1, <3>2, <3>3
  <2>6. /\ Upto(toks, k + 1) = Append(Upto(toks, k), toks[k + 1])
        /\ toks[k + 1] \in Seq(Words) /\ Upto(toks, k) \in Seq(Seq(Words))
    <3>1. \A j \in 0 .. Len(toks) - 1 :
            /\ Upto(toks, j + 1) = Append(Upto(toks, j), toks[j + 1])
            /\ toks[j + 1] \in Seq(Words)
            /\ Upto(toks, j) \in Seq(Seq(Words))
            /\ j + 1 \in 1 .. Len(toks)
      BY <1>8, UptoSeq
    <3> QED
      BY <1>8, <3>1
  <2>7. T \in Seq(Words) /\ FlattenSeq(Upto(toks, k + 1)) = T \o BlankTokens(p)
    <3>1. T \in Seq(Words)
      BY <2>4, <2>6, FlattenType
    <3>2. FlattenSeq(Append(Upto(toks, k), toks[k + 1])) = T \o toks[k + 1]
      <4>1. PICK u : u = Upto(toks, k)
        OBVIOUS
      <4>2. PICK x : x = toks[k + 1]
        OBVIOUS
      <4>3. FlattenSeq(Append(u, x)) = FlattenSeq(u) \o x
        <5>1. u \in Seq(Seq(Words)) /\ x \in Seq(Words)
          BY <2>6, <4>1, <4>2
        <5> QED
          BY <5>1, FlattenAppend
      <4> QED
        BY <2>4, <4>1, <4>2, <4>3
    <3>3. toks[k + 1] = BlankTokens(p)
      BY <1>7, <2>3, <2>5
    <3> QED
      BY <2>6, <3>1, <3>2, <3>3
  <2>8. loop[a] = [pieces |-> T, piece |-> <<>>]
    <3>1. loop[a] \in BlankStates /\ loop[a].piece = <<>> /\ Keep(loop[a].pieces, loop[a].piece) = T
      BY <1>14, <2>1, <2>4, <2>5
    <3>2. loop[a].pieces = T
      BY <3>1 DEF Keep
    <3> QED
      BY <3>1, <3>2 DEF BlankStates
  <2>9. /\ Keep(loop[b].pieces, loop[b].piece) = T \o BlankTokens(p)
        /\ loop[b].piece = <<>> \/ b = len
    <3>1. /\ p \in Texts /\ T \in Seq(Words) /\ PieceAt(s, <<"nl">>, p, a, b)
          /\ BlankLoop(s)[a] = [pieces |-> T, piece |-> <<>>]
      BY <1>1, <1>12, <2>5, <2>7, <2>8
    <3>2. /\ Keep(BlankLoop(s)[b].pieces, BlankLoop(s)[b].piece) = T \o BlankTokens(p)
          /\ BlankLoop(s)[b].piece = <<>> \/ b = Len(s)
      BY <3>1, LineAhead
    <3> QED
      BY <1>5, <1>12, <3>2
  <2>10. loop[b] \in BlankStates
    <3>1. b \in 0 .. Len(s)
      BY <1>5, <1>6, <2>5
    <3> QED
      BY <1>12, <3>1, BlankLoopFacts
  <2> QED
    BY <2>2, <2>5, <2>7, <2>9, <2>10
<1> HIDE DEF S
<1>15. last \in S
  <2>1. Inductive(S, 0, last)
    BY <1>6, <1>13, <1>14 DEF Inductive
  <2>2. \A k \in 0 .. last : k \in S
    BY <2>1, RangeInduction
  <2> QED
    BY <1>6, <2>2
<1>16. Upto(toks, last) = toks
  BY <1>8, UptoSeq
<1>17. Keep(loop[len].pieces, loop[len].piece) = FlattenSeq(toks)
  BY <1>11, <1>15, <1>16 DEF S
<1> QED
  BY <1>5, <1>9, <1>12, <1>17 DEF BlankTokens

-----------------------------------------------------------------------------
(* The words of a text, found by the loop over blanks one after the other. *)

\* The words of s: where they begin and end.
WordSet(s) ==
  {w \in (1 .. Len(s)) \X (1 .. Len(s)) :
     /\ w[1] <= w[2]
     /\ \A k \in w[1] .. w[2] : ~IsSpace(s[k])
     /\ w[1] = 1 \/ IsSpace(s[w[1] - 1])
     /\ w[2] = Len(s) \/ IsSpace(s[w[2] + 1])}

\* sp are the words that end in front of k, in order.
Listed(sp, s, k) ==
  /\ sp \in Seq(WordSet(s))
  /\ \A i, j \in 1 .. Len(sp) : i < j => sp[i][1] < sp[j][1]
  /\ \A i \in 1 .. Len(sp) : sp[i][2] < k
  /\ \A w \in WordSet(s) : w[2] < k => \E i \in 1 .. Len(sp) : w = sp[i]

\* From b to k there is no separator, and in front of b there is one or nothing.
Begun(s, b, k) ==
  /\ b \in Nat \ {0} /\ k \in Nat /\ b <= k + 1 /\ k <= Len(s)
  /\ \A i \in b .. k : ~IsSpace(s[i])
  /\ b = 1 \/ IsSpace(s[b - 1])

WordAt(s, w) == SubSeq(s, w[1], w[2])

WordsAt(s, sp) == [i \in 1 .. Len(sp) |-> WordAt(s, sp[i])]

\* Counting: a function that takes each of n numbers to another element.
OneToOne(f, n, A) ==
  /\ n \in Nat
  /\ \A i, j \in 1 .. n : f[i] = f[j] => i = j
  /\ A = {f[i] : i \in 1 .. n}

LEMMA CountOneToOne ==
  ASSUME NEW f, NEW n, NEW A, OneToOne(f, n, A)
  PROVE  IsFiniteSet(A) /\ Cardinality(A) = n
<1>1. /\ n \in Nat
      /\ \A i, j \in 1 .. n : f[i] = f[j] => i = j
      /\ A = {f[i] : i \in 1 .. n}
  BY DEF OneToOne
<1>2. PICK g : g = [i \in 1 .. n |-> f[i]]
  OBVIOUS
<1>3. g \in Bijection(1 .. n, A)
  BY <1>1, <1>2 DEF Bijection, Injection, Surjection, IsInjective
<1>4. ExistsBijection(1 .. n, A)
  BY <1>3 DEF ExistsBijection
<1> QED
  BY <1>1, <1>4, FS_CountingElements, FS_NatBijection

LEMMA WordFacts ==
  ASSUME NEW s, NEW w, s \in Texts, w \in WordSet(s)
  PROVE  /\ w[1] \in 1 .. Len(s) /\ w[2] \in 1 .. Len(s) /\ w[1] <= w[2] /\ Len(s) \in Nat
         /\ w = <<w[1], w[2]>>
         /\ \A k \in w[1] .. w[2] : ~IsSpace(s[k])
         /\ w[1] = 1 \/ IsSpace(s[w[1] - 1])
         /\ w[2] = Len(s) \/ IsSpace(s[w[2] + 1])
<1>1. Len(s) \in Nat
  BY SeqFacts DEF Texts
<1> QED
  BY <1>1 DEF WordSet

\* A word that ends at k begins where the run up to k does.
LEMMA WordEnding ==
  ASSUME NEW s, NEW b, NEW k, NEW w, s \in Texts, Begun(s, b, k), w \in WordSet(s), w[2] = k
  PROVE  w[1] = b
<1>1. PICK a : a = w[1]
  OBVIOUS
<1>2. /\ a \in Nat \ {0} /\ a <= k /\ k \in Nat
      /\ \A i \in a .. k : ~IsSpace(s[i])
      /\ a = 1 \/ IsSpace(s[a - 1])
  BY <1>1, WordFacts
<1>3. /\ b \in Nat \ {0} /\ b <= k + 1
      /\ \A i \in b .. k : ~IsSpace(s[i])
      /\ b = 1 \/ IsSpace(s[b - 1])
  BY DEF Begun
<1>4. ~(a < b)
  <2>1. SUFFICES ASSUME a < b
                 PROVE  FALSE
    OBVIOUS
  <2>2. b # 1 /\ b - 1 \in a .. k
    BY <1>2, <1>3, <2>1
  <2> QED
    BY <1>2, <1>3, <2>2
<1>5. ~(b < a)
  <2>1. SUFFICES ASSUME b < a
                 PROVE  FALSE
    OBVIOUS
  <2>2. a # 1 /\ a - 1 \in b .. k
    BY <1>2, <1>3, <2>1
  <2> QED
    BY <1>2, <1>3, <2>2
<1> QED
  BY <1>1, <1>2, <1>3, <1>4, <1>5

\* A word that ends in front of k begins in front of the run up to k.
LEMMA WordBefore ==
  ASSUME NEW s, NEW b, NEW k, NEW w, s \in Texts, Begun(s, b, k), w \in WordSet(s), w[2] < k
  PROVE  w[1] < b
<1>1. PICK a : a = w[1]
  OBVIOUS
<1>2. PICK e : e = w[2]
  OBVIOUS
<1>3. /\ a \in Nat \ {0} /\ e \in Nat /\ a <= e /\ Len(s) \in Nat
      /\ e = Len(s) \/ IsSpace(s[e + 1])
  BY <1>1, <1>2, WordFacts
<1>4. /\ b \in Nat \ {0} /\ k \in Nat /\ k <= Len(s)
      /\ \A i \in b .. k : ~IsSpace(s[i])
  BY DEF Begun
<1>5. e < k
  BY <1>2
<1>6. ~(b <= a)
  <2>1. SUFFICES ASSUME b <= a
                 PROVE  FALSE
    OBVIOUS
  <2>2. e + 1 \in b .. k /\ e # Len(s)
    BY <1>3, <1>4, <1>5, <2>1
  <2> QED
    BY <1>3, <1>4, <2>2
<1> QED
  BY <1>1, <1>3, <1>4, <1>6

LEMMA WordsAtType ==
  ASSUME NEW s, NEW sp, s \in Texts, sp \in Seq(WordSet(s))
  PROVE  /\ WordsAt(s, sp) \in Seq(Seq(Classes)) /\ Len(WordsAt(s, sp)) = Len(sp)
         /\ \A i \in 1 .. Len(sp) : WordsAt(s, sp)[i] = WordAt(s, sp[i])
<1>1. Len(sp) \in Nat /\ \A i \in 1 .. Len(sp) : sp[i] \in WordSet(s)
  BY SeqFacts
<1>2. ASSUME NEW w \in WordSet(s)
      PROVE  WordAt(s, w) \in Seq(Classes)
  <2>1. PICK a : a = w[1]
    OBVIOUS
  <2>2. PICK e : e = w[2]
    OBVIOUS
  <2>3. a \in Nat \ {0} /\ e \in Nat /\ e <= Len(s)
    BY <2>1, <2>2, WordFacts
  <2>4. s \in Seq(Classes)
    BY DEF Texts
  <2>5. SubSeq(s, a, e) \in Seq(Classes)
    BY <2>3, <2>4, SubTexts
  <2> QED
    BY <2>1, <2>2, <2>5 DEF WordAt
<1>3. PICK B : B = Seq(Classes)
  OBVIOUS
<1>4. WordsAt(s, sp) \in Seq(B)
  BY <1>1, <1>2, <1>3 DEF WordsAt
<1> QED
  BY <1>1, <1>3, <1>4 DEF WordsAt

\* No word ends at k.
LEMMA ListedOn ==
  ASSUME NEW sp, NEW s, NEW k, s \in Texts, Listed(sp, s, k), k \in Nat,
         \A w \in WordSet(s) : w[2] # k
  PROVE  Listed(sp, s, k + 1)
<1>1. \A w \in WordSet(s) : w[2] \in Nat
  BY WordFacts
<1>2. /\ sp \in Seq(WordSet(s))
      /\ \A i, j \in 1 .. Len(sp) : i < j => sp[i][1] < sp[j][1]
      /\ \A i \in 1 .. Len(sp) : sp[i][2] < k
      /\ \A w \in WordSet(s) : w[2] < k => \E i \in 1 .. Len(sp) : w = sp[i]
  BY DEF Listed
<1>3. \A i \in 1 .. Len(sp) : sp[i][2] < k + 1
  <2>1. \A i \in 1 .. Len(sp) : sp[i] \in WordSet(s)
    BY <1>2, SeqFacts
  <2> QED
    BY <1>1, <1>2, <2>1
<1>4. \A w \in WordSet(s) : w[2] < k + 1 => w[2] < k
  BY <1>1
<1> QED
  BY <1>2, <1>3, <1>4 DEF Listed

\* The word from b to k is the next one.
LEMMA ListedAppend ==
  ASSUME NEW sp, NEW s, NEW b, NEW k, NEW x, s \in Texts, Listed(sp, s, k), Begun(s, b, k),
         x \in WordSet(s), x[1] = b, x[2] = k
  PROVE  Listed(Append(sp, x), s, k + 1)
<1>1. /\ sp \in Seq(WordSet(s))
      /\ \A i, j \in 1 .. Len(sp) : i < j => sp[i][1] < sp[j][1]
      /\ \A i \in 1 .. Len(sp) : sp[i][2] < k
      /\ \A w \in WordSet(s) : w[2] < k => \E i \in 1 .. Len(sp) : w = sp[i]
  BY DEF Listed
<1>2. k \in Nat
  BY DEF Begun
<1>3. PICK sq : sq = Append(sp, x)
  OBVIOUS
<1>4. PICK n : n = Len(sp)
  OBVIOUS
<1>5. /\ n \in Nat /\ sq \in Seq(WordSet(s)) /\ Len(sq) = n + 1
      /\ \A i \in 1 .. n : sq[i] = sp[i] /\ sp[i] \in WordSet(s)
      /\ sq[n + 1] = x
  BY <1>1, <1>3, <1>4, AppendFacts, SeqFacts
<1>6. ASSUME NEW i \in 1 .. n + 1, NEW j \in 1 .. n + 1, i < j
      PROVE  sq[i][1] < sq[j][1]
  <2>1. i \in 1 .. n
    BY <1>5, <1>6
  <2>2. CASE j = n + 1
    <3>1. sp[i][2] < k /\ sp[i] \in WordSet(s)
      BY <1>1, <1>4, <1>5, <2>1
    <3>2. PICK w : w = sp[i]
      OBVIOUS
    <3>3. w[1] < b
      BY <3>1, <3>2, WordBefore
    <3> QED
      BY <1>5, <2>1, <2>2, <3>2, <3>3
  <2>3. CASE j # n + 1
    <3>1. j \in 1 .. n
      BY <1>5, <2>3
    <3> QED
      BY <1>1, <1>4, <1>5, <1>6, <2>1, <3>1
  <2> QED
    BY <2>2, <2>3
<1>7. ASSUME NEW i \in 1 .. n + 1
      PROVE  sq[i][2] < k + 1
  <2>1. CASE i = n + 1
    BY <1>2, <1>5, <2>1
  <2>2. CASE i # n + 1
    <3>1. i \in 1 .. n
      BY <1>5, <2>2
    <3>2. sq[i][2] < k /\ sq[i] \in WordSet(s)
      BY <1>1, <1>4, <1>5, <3>1
    <3>3. sq[i][2] \in Nat
      BY <3>2, WordFacts
    <3> QED
      BY <1>2, <3>2, <3>3
  <2> QED
    BY <2>1, <2>2
<1>8. ASSUME NEW w \in WordSet(s), w[2] < k + 1
      PROVE  \E i \in 1 .. n + 1 : w = sq[i]
  <2>1. w[2] \in Nat
    BY <1>8, WordFacts
  <2>2. CASE w[2] < k
    <3>1. PICK i \in 1 .. n : w = sp[i]
      BY <1>1, <1>4, <1>8, <2>2
    <3>2. i \in 1 .. n + 1 /\ w = sq[i]
      BY <1>5, <3>1
    <3> QED
      BY <3>2
  <2>3. CASE ~(w[2] < k)
    <3>1. w[2] = k
      BY <1>2, <1>8, <2>1, <2>3
    <3>2. w[1] = b
      BY <1>8, <3>1, WordEnding
    <3>3. w = <<w[1], w[2]>> /\ x = <<x[1], x[2]>>
      BY <1>8, WordFacts
    <3>4. w = sq[n + 1]
      BY <1>5, <3>1, <3>2, <3>3
    <3>5. n + 1 \in 1 .. n + 1
      BY <1>5
    <3> QED
      BY <3>4, <3>5
  <2> QED
    BY <2>2, <2>3
<1>9. Listed(sq, s, k + 1)
  BY <1>5, <1>6, <1>7, <1>8 DEF Listed
<1> QED
  BY <1>3, <1>9

\* Where a run of other characters ends: if there is one, it is a word.
LEMMA EndOfWord ==
  ASSUME NEW sp, NEW s, NEW b, NEW k, s \in Texts, Listed(sp, s, k), Begun(s, b, k),
         k = Len(s) \/ IsSpace(s[k + 1])
  PROVE  \E sq : Listed(sq, s, k + 1)
                   /\ WordsAt(s, sq) = Keep(WordsAt(s, sp), SubSeq(s, b, k))
<1>1. /\ b \in Nat \ {0} /\ k \in Nat /\ b <= k + 1 /\ k <= Len(s)
      /\ \A i \in b .. k : ~IsSpace(s[i])
      /\ b = 1 \/ IsSpace(s[b - 1])
  BY DEF Begun
<1>2. s \in Seq(Classes) /\ Len(s) \in Nat /\ sp \in Seq(WordSet(s))
  BY SeqFacts DEF Texts, Listed
<1>3. CASE b = k + 1
  <2>1. \A w \in WordSet(s) : w[2] # k
    <3>1. SUFFICES ASSUME NEW w \in WordSet(s), w[2] = k
                   PROVE  FALSE
      OBVIOUS
    <3>2. w[1] = b
      BY <3>1, WordEnding
    <3>3. w[1] <= w[2]
      BY <3>1, WordFacts
    <3> QED
      BY <1>1, <1>3, <3>1, <3>2, <3>3
  <2>2. Listed(sp, s, k + 1)
    BY <1>1, <2>1, ListedOn
  <2>3. SubSeq(s, b, k) = <<>>
    <3>1. b > k
      BY <1>1, <1>3
    <3> QED
      BY <1>1, <1>2, <3>1, SubTexts
  <2> QED
    BY <2>2, <2>3 DEF Keep
<1>4. CASE b # k + 1
  <2>1. PICK x : x = <<b, k>>
    OBVIOUS
  <2>2. x[1] = b /\ x[2] = k
    BY <2>1
  <2>3. x \in WordSet(s)
    <3>1. b \in 1 .. Len(s) /\ k \in 1 .. Len(s) /\ b <= k
      BY <1>1, <1>2, <1>4
    <3> QED
      BY <1>1, <2>1, <2>2, <3>1 DEF WordSet
  <2>4. PICK sq : sq = Append(sp, x)
    OBVIOUS
  <2>5. Listed(sq, s, k + 1)
    BY <2>2, <2>3, <2>4, ListedAppend
  <2>6. PICK p : p = SubSeq(s, b, k)
    OBVIOUS
  <2>7. p \in Seq(Classes) /\ p # <<>>
    <3>1. p \in Seq(Classes) /\ Len(p) = k + 1 - b
      BY <1>1, <1>2, <2>6, SubTexts
    <3>2. Len(p) # 0
      BY <1>1, <1>4, <3>1
    <3> QED
      BY <3>1, <3>2
  <2>8. PICK n : n = Len(sp)
    OBVIOUS
  <2>9. /\ n \in Nat /\ sq \in Seq(WordSet(s)) /\ Len(sq) = n + 1
        /\ \A i \in 1 .. n : sq[i] = sp[i]
        /\ sq[n + 1] = x
    BY <1>2, <2>3, <2>4, <2>8, AppendFacts, SeqFacts
  <2>10. PICK B : B = Seq(Classes)
    OBVIOUS
  <2>11. PICK u : u = WordsAt(s, sp)
    OBVIOUS
  <2>12. PICK v : v = WordsAt(s, sq)
    OBVIOUS
  <2>13. u \in Seq(B) /\ Len(u) = n /\ \A i \in 1 .. n : u[i] = WordAt(s, sp[i])
    BY <1>2, <2>8, <2>10, <2>11, WordsAtType
  <2>14. v \in Seq(B) /\ Len(v) = n + 1 /\ \A i \in 1 .. n + 1 : v[i] = WordAt(s, sq[i])
    BY <2>9, <2>10, <2>12, WordsAtType
  <2>15. PICK t : t = Append(u, p)
    OBVIOUS
  <2>16. t \in Seq(B) /\ Len(t) = n + 1 /\ (\A i \in 1 .. n : t[i] = u[i]) /\ t[n + 1] = p
    BY <2>7, <2>10, <2>13, <2>15, AppendFacts
  <2>17. \A i \in 1 .. n + 1 : v[i] = t[i]
    <3>1. v[n + 1] = p
      BY <2>2, <2>6, <2>9, <2>14 DEF WordAt
    <3>2. \A i \in 1 .. n : v[i] = u[i]
      BY <2>9, <2>13, <2>14
    <3> QED
      BY <2>9, <2>16, <3>1, <3>2
  <2>18. v = t
    BY <2>14, <2>16, <2>17, SameSeq
  <2> QED
    BY <2>5, <2>6, <2>7, <2>11, <2>12, <2>15, <2>18 DEF Keep
<1> QED
  BY <1>3, <1>4

\* A run of other characters goes on.
LEMMA RunGoesOn ==
  ASSUME NEW s, NEW b, NEW k, s \in Texts, Begun(s, b, k), k + 1 <= Len(s), ~IsSpace(s[k + 1])
  PROVE  /\ Begun(s, b, k + 1)
         /\ SubSeq(s, b, k + 1) = Append(SubSeq(s, b, k), s[k + 1])
<1>1. /\ b \in Nat \ {0} /\ k \in Nat /\ b <= k + 1 /\ k <= Len(s)
      /\ \A i \in b .. k : ~IsSpace(s[i])
      /\ b = 1 \/ IsSpace(s[b - 1])
  BY DEF Begun
<1>2. s \in Seq(Classes) /\ Len(s) \in Nat
  BY SeqFacts DEF Texts
<1>3. Begun(s, b, k + 1)
  <2>1. \A i \in b .. k + 1 : i \in b .. k \/ i = k + 1
    BY <1>1
  <2>2. \A i \in b .. k + 1 : ~IsSpace(s[i])
    BY <1>1, <2>1
  <2>3. b <= (k + 1) + 1 /\ k + 1 \in Nat
    BY <1>1
  <2> QED
    BY <1>1, <2>2, <2>3 DEF Begun
<1>4. PICK m : m = k + 1
  OBVIOUS
<1>5. PICK p : p = SubSeq(s, b, k)
  OBVIOUS
<1>6. PICK q : q = SubSeq(s, b, m)
  OBVIOUS
<1>7. PICK n : n = k + 1 - b
  OBVIOUS
<1>8. n \in Nat /\ m + 1 - b = n + 1 /\ m \in Nat /\ m <= Len(s) /\ b <= m + 1
  BY <1>1, <1>4, <1>7
<1>9. p \in Seq(Classes) /\ Len(p) = n /\ \A i \in 1 .. n : p[i] = s[b + i - 1]
  BY <1>1, <1>2, <1>5, <1>7, SubTexts
<1>10. q \in Seq(Classes) /\ Len(q) = n + 1 /\ \A i \in 1 .. n + 1 : q[i] = s[b + i - 1]
  BY <1>1, <1>2, <1>6, <1>8, SubTexts
<1>11. PICK t : t = Append(p, s[m])
  OBVIOUS
<1>12. s[m] \in Classes
  <2>1. m \in 1 .. Len(s)
    BY <1>1, <1>2, <1>4, <1>8
  <2> QED
    BY <1>2, <2>1, SeqFacts
<1>13. t \in Seq(Classes) /\ Len(t) = n + 1 /\ (\A i \in 1 .. n : t[i] = p[i]) /\ t[n + 1] = s[m]
  BY <1>9, <1>11, <1>12, AppendFacts
<1>14. \A i \in 1 .. n + 1 : q[i] = t[i]
  <2>1. b + (n + 1) - 1 = m
    BY <1>1, <1>4, <1>7
  <2>2. q[n + 1] = s[m]
    BY <1>8, <1>10, <2>1
  <2>3. \A i \in 1 .. n : q[i] = p[i]
    BY <1>8, <1>9, <1>10
  <2> QED
    BY <1>8, <1>13, <2>2, <2>3
<1>15. q = t
  BY <1>10, <1>13, <1>14, SameSeq
<1> QED
  BY <1>3, <1>4, <1>5, <1>6, <1>11, <1>15

\* The state of the loop in front of position k + 1.
Found(acc, s, k) ==
  \E sp, b : /\ Listed(sp, s, k) /\ Begun(s, b, k)
             /\ acc.pieces = WordsAt(s, sp) /\ acc.piece = SubSeq(s, b, k)

LEMMA FoundStart ==
  ASSUME NEW s, s \in Texts
  PROVE  Found([pieces |-> <<>>, piece |-> <<>>], s, 0)
<1>1. s \in Seq(Classes) /\ Len(s) \in Nat
  BY SeqFacts DEF Texts
<1>2. \A w \in WordSet(s) : w[2] \in Nat
  BY WordFacts
<1>3. Listed(<<>>, s, 0)
  BY <1>2 DEF Listed
<1>4. Begun(s, 1, 0)
  BY <1>1 DEF Begun
<1>5. SubSeq(s, 1, 0) = <<>>
  BY <1>1
<1>6. WordsAt(s, <<>>) = <<>>
  BY DEF WordsAt
<1> QED
  BY <1>3, <1>4, <1>5, <1>6 DEF Found

LEMMA FoundStep ==
  ASSUME NEW acc, NEW s, NEW k, s \in Texts, acc \in BlankStates, Found(acc, s, k),
         k + 1 <= Len(s)
  PROVE  Found(BlankStep(acc, s[k + 1]), s, k + 1)
<1>1. PICK sp, b : /\ Listed(sp, s, k) /\ Begun(s, b, k)
                   /\ acc.pieces = WordsAt(s, sp) /\ acc.piece = SubSeq(s, b, k)
  BY DEF Found
<1>2. s \in Seq(Classes) /\ Len(s) \in Nat /\ k \in Nat
  BY <1>1, SeqFacts DEF Texts, Begun
<1>3. PICK after : after = BlankStep(acc, s[k + 1])
  OBVIOUS
<1>4. s[k + 1] \in Classes
  <2>1. k + 1 \in 1 .. Len(s)
    BY <1>2
  <2> QED
    BY <1>2, <2>1, SeqFacts
<1>5. CASE ~IsSpace(s[k + 1])
  <2>1. after.pieces = acc.pieces /\ after.piece = Append(acc.piece, s[k + 1])
    BY <1>3, <1>4, <1>5, BlankStepType
  <2>2. /\ Begun(s, b, k + 1)
        /\ SubSeq(s, b, k + 1) = Append(SubSeq(s, b, k), s[k + 1])
    BY <1>1, <1>5, RunGoesOn
  <2>3. Listed(sp, s, k + 1)
    <3>1. \A w \in WordSet(s) : w[2] # k
      <4>1. SUFFICES ASSUME NEW w \in WordSet(s), w[2] = k
                     PROVE  FALSE
        OBVIOUS
      <4>2. w[2] = Len(s) \/ IsSpace(s[w[2] + 1])
        BY <4>1, WordFacts
      <4> QED
        BY <1>2, <1>5, <4>1, <4>2
    <3> QED
      BY <1>1, <1>2, <3>1, ListedOn
  <2> QED
    BY <1>1, <1>3, <2>1, <2>2, <2>3 DEF Found
<1>6. CASE IsSpace(s[k + 1])
  <2>1. after.pieces = Keep(acc.pieces, acc.piece) /\ after.piece = <<>>
    BY <1>3, <1>4, <1>6, BlankStepType
  <2>2. PICK sq : /\ Listed(sq, s, k + 1)
                  /\ WordsAt(s, sq) = Keep(WordsAt(s, sp), SubSeq(s, b, k))
    BY <1>1, <1>6, EndOfWord
  <2>3. PICK m : m = k + 2
    OBVIOUS
  <2>4. PICK n : n = k + 1
    OBVIOUS
  <2>5. m \in Nat \ {0} /\ n \in Nat /\ n <= Len(s) /\ m = n + 1 /\ m - 1 = n /\ m > n
    BY <1>2, <2>3, <2>4
  <2>6. Begun(s, m, n)
    <3>1. IsSpace(s[m - 1])
      BY <1>6, <2>4, <2>5
    <3>2. m .. n = {}
      BY <2>5
    <3> QED
      BY <2>5, <3>1, <3>2 DEF Begun
  <2>7. SubSeq(s, m, n) = <<>>
    BY <1>2, <2>5, SubTexts
  <2> QED
    BY <1>1, <1>3, <2>1, <2>2, <2>4, <2>6, <2>7 DEF Found
<1> QED
  BY <1>5, <1>6

\* At the end of the text the tokens are all words, in order.
LEMMA BlankListed ==
  ASSUME NEW s, s \in Texts
  PROVE  \E sp : Listed(sp, s, Len(s) + 1) /\ BlankTokens(s) = WordsAt(s, sp)
<1>1. PICK len : len = Len(s)
  OBVIOUS
<1>2. len \in Nat
  BY <1>1, SeqFacts DEF Texts
<1>3. PICK loop : loop = BlankLoop(s)
  OBVIOUS
<1>4. /\ loop \in [0 .. len -> BlankStates]
      /\ loop[0] = [pieces |-> <<>>, piece |-> <<>>]
      /\ \A n \in 0 .. len - 1 : loop[n + 1] = BlankStep(loop[n], s[n + 1])
  BY <1>1, <1>3, BlankLoopFacts
<1> DEFINE S == {k \in Nat : Found(loop[k], s, k)}
<1>5. 0 \in S
  BY <1>4, FoundStart
<1>6. ASSUME NEW k \in 0 .. len - 1, k \in S
      PROVE  k + 1 \in S
  <2>1. k + 1 <= len /\ k + 1 \in Nat /\ k \in 0 .. len
    BY <1>2
  <2>2. Found(BlankStep(loop[k], s[k + 1]), s, k + 1)
    BY <1>1, <1>4, <1>6, <2>1, FoundStep
  <2> QED
    BY <1>4, <2>1, <2>2
<1> HIDE DEF S
<1>7. len \in S
  <2>1. Inductive(S, 0, len)
    BY <1>2, <1>5, <1>6 DEF Inductive
  <2>2. \A k \in 0 .. len : k \in S
    BY <2>1, RangeInduction
  <2> QED
    BY <1>2, <2>2
<1>8. PICK sp, b : /\ Listed(sp, s, len) /\ Begun(s, b, len)
                   /\ loop[len].pieces = WordsAt(s, sp) /\ loop[len].piece = SubSeq(s, b, len)
  BY <1>7 DEF S, Found
<1>9. PICK sq : /\ Listed(sq, s, len + 1)
                /\ WordsAt(s, sq) = Keep(WordsAt(s, sp), SubSeq(s, b, len))
  BY <1>1, <1>8, EndOfWord
<1> QED
  BY <1>1, <1>3, <1>8, <1>9 DEF BlankTokens

\* All words in order: that is what WordsOf chooses.
LEMMA WordsUnique ==
  ASSUME NEW s, NEW sp, s \in Texts, Listed(sp, s, Len(s) + 1)
  PROVE  WordsOf(s) = WordsAt(s, sp)
<1>1. PICK n : n = Len(sp)
  OBVIOUS
<1>2. PICK words : words = WordSet(s)
  OBVIOUS
<1>3. /\ sp \in Seq(words) /\ n \in Nat
      /\ \A i \in 1 .. n : sp[i] \in words /\ sp[i][1] \in Nat
      /\ \A i, j \in 1 .. n : i < j => sp[i][1] < sp[j][1]
      /\ \A w \in words : \E i \in 1 .. n : w = sp[i]
  <2>1. sp \in Seq(words) /\ n \in Nat /\ \A i \in 1 .. n : sp[i] \in words
    BY <1>1, <1>2, SeqFacts DEF Listed
  <2>2. \A w \in words : w[1] \in Nat /\ w[2] < Len(s) + 1
    BY <1>2, WordFacts
  <2> QED
    BY <1>1, <1>2, <2>1, <2>2 DEF Listed
<1> DEFINE Before(w) == {v \in words : v[1] <= w[1]}
<1>4. ASSUME NEW m \in 1 .. n
      PROVE  Cardinality(Before(sp[m])) = m
  <2>1. Before(sp[m]) = {sp[i] : i \in 1 .. m}
    <3>1. ASSUME NEW v \in words, v[1] <= sp[m][1]
          PROVE  v \in {sp[i] : i \in 1 .. m}
      <4>1. PICK i \in 1 .. n : v = sp[i]
        BY <1>3, <3>1
      <4>2. ~(m < i)
        BY <1>3, <3>1, <4>1
      <4>3. i \in 1 .. m
        BY <1>3, <4>2
      <4> QED
        BY <4>1, <4>3
    <3>2. ASSUME NEW i \in 1 .. m
          PROVE  sp[i] \in words /\ sp[i][1] <= sp[m][1]
      <4>1. i \in 1 .. n /\ (i = m \/ i < m)
        BY <1>3
      <4> QED
        BY <1>3, <4>1
    <3> QED
      BY <3>1, <3>2
  <2>2. \A i, j \in 1 .. m : sp[i] = sp[j] => i = j
    <3>1. \A i \in 1 .. m : i \in 1 .. n
      BY <1>3
    <3>2. \A i, j \in 1 .. m : i = j \/ i < j \/ j < i
      BY <1>3
    <3> QED
      BY <1>3, <3>1, <3>2
  <2>3. OneToOne(sp, m, Before(sp[m]))
    BY <1>3, <2>1, <2>2 DEF OneToOne
  <2> QED
    BY <2>3, CountOneToOne
<1>5. Cardinality(words) = n
  <2>1. words = {sp[i] : i \in 1 .. n}
    BY <1>3
  <2>2. \A i, j \in 1 .. n : sp[i] = sp[j] => i = j
    <3>1. \A i, j \in 1 .. n : i = j \/ i < j \/ j < i
      BY <1>3
    <3> QED
      BY <1>3, <3>1
  <2>3. OneToOne(sp, n, words)
    BY <1>3, <2>1, <2>2 DEF OneToOne
  <2> QED
    BY <2>3, CountOneToOne
<1> DEFINE nth(m) == CHOOSE w \in words : Cardinality(Before(w)) = m
<1>6. ASSUME NEW m \in 1 .. n
      PROVE  nth(m) = sp[m]
  <2>1. sp[m] \in words /\ Cardinality(Before(sp[m])) = m
    BY <1>3, <1>4
  <2>2. nth(m) \in words /\ Cardinality(Before(nth(m))) = m
    <3> HIDE DEF Before
    <3> QED
      BY <2>1
  <2>3. PICK i \in 1 .. n : nth(m) = sp[i]
    BY <1>3, <2>2
  <2> HIDE DEF Before, nth
  <2>4. Cardinality(Before(sp[i])) = i
    BY <1>4
  <2> QED
    BY <2>2, <2>3, <2>4
<1>7. WordsOf(s) = [m \in 1 .. Cardinality(words) |-> SubSeq(s, nth(m)[1], nth(m)[2])]
  BY <1>2 DEF WordsOf, WordSet
<1> HIDE DEF nth
<1> QED
  BY <1>1, <1>5, <1>6, <1>7 DEF WordsAt, WordAt

LEMMA BlankWords ==
  ASSUME NEW s, s \in Texts
  PROVE  BlankTokens(s) = WordsOf(s)
BY BlankListed, WordsUnique

-----------------------------------------------------------------------------
(* No token is lost, duplicated, cut or moved.                             *)

LEMMA TokensFromInv == BatchInv => TokensPreserved
<1>1. SUFFICES ASSUME BatchInv, Grouped
               PROVE  TokensPreserved
  BY DEF TokensPreserved
<1>2. PICK s : s = text
  OBVIOUS
<1>3. PICK o : o = options
  OBVIOUS
<1>4. s \in Texts /\ o \in PlanOptions /\ batches = PlannedBatches(s, o)
  BY <1>1, <1>2, <1>3 DEF BatchInv, Grouped
<1>5. PICK tokens : tokens = FlattenSeq(batches)
  OBVIOUS
<1>6. tokens = TokensOf(s, o)
  BY <1>4, <1>5, PlannedFlat
<1>7. o.maxLines \in Nat
  BY <1>4, OptionFacts
<1>8. CASE o.delimiter = <<>>
  <2>1. tokens = WordsOf(s)
    <3>1. LineTokens(Lines(s), o) = BlankTokens(s)
      BY <1>4, <1>8, BlankLines
    <3>2. split(s, o) = BlankTokens(s)
      BY <1>8 DEF split
    <3> QED
      BY <1>4, <1>6, <3>1, <3>2, BlankWords DEF TokensOf
  <2> QED
    BY <1>2, <1>3, <1>5, <1>8, <2>1 DEF TokensPreserved
<1>9. CASE o.delimiter # <<>>
  <2>1. PICK d : d = o.delimiter
    OBVIOUS
  <2>2. d \in Words /\ Letters(d) = <<>>
    BY <1>4, <1>9, <2>1, DelimiterFacts
  <2>3. CASE o.maxLines = 0
    <3>1. tokens = DelimitedTokens(s, d)
      BY <1>6, <1>9, <2>1, <2>3 DEF TokensOf, split
    <3>2. PICK A : A = NoDelimiter(d) \cap Inside(s)
      OBVIOUS
    <3>3. tokens \in Seq(A)
      BY <1>4, <2>2, <3>1, <3>2, DelimitedGood
    <3>4. \A t \in Range(tokens) : t \in A
      BY <3>3, SeqFacts DEF Range
    <3>5. \A t \in A : t # <<>> /\ Find(t, d, 1) = Len(t) + 1 /\ Find(s, t, 1) <= Len(s)
      BY <3>2 DEF NoDelimiter, Inside, Words
    <3>6. Letters(FlattenSeq(tokens)) = Letters(s)
      BY <1>4, <2>2, <3>1, DelimitedLetters
    <3>7. \A t \in Range(tokens) : /\ t # <<>> /\ Find(t, o.delimiter, 1) = Len(t) + 1
                                   /\ Find(s, t, 1) <= Len(s)
      BY <2>1, <3>4, <3>5
    <3> QED
      BY <1>2, <1>3, <1>5, <1>9, <2>3, <3>6, <3>7 DEF TokensPreserved
  <2>4. CASE o.maxLines # 0
    <3>1. tokens = LineTokens(Lines(s), o)
      BY <1>6, <1>7, <2>4 DEF TokensOf
    <3>2. PICK A : A = {t \in NoDelimiter(d) : "nl" \notin Range(t)}
      OBVIOUS
    <3>3. tokens \in Seq(A)
      BY <1>4, <1>9, <2>1, <3>1, <3>2, LineGood
    <3>4. \A t \in Range(tokens) : t \in A
      BY <3>3, SeqFacts DEF Range
    <3>5. \A t \in A : t # <<>> /\ Find(t, d, 1) = Len(t) + 1 /\ "nl" \notin Range(t)
      BY <3>2 DEF NoDelimiter, Words
    <3>6. Letters(FlattenSeq(tokens)) = Letters(s)
      BY <1>4, <1>9, <3>1, LineLetters
    <3>7. \A t \in Range(tokens) : /\ t # <<>> /\ Find(t, o.delimiter, 1) = Len(t) + 1
                                   /\ "nl" \notin Range(t)
      BY <2>1, <3>4, <3>5
    <3> QED
      BY <1>2, <1>3, <1>5, <1>9, <2>4, <3>6, <3>7 DEF TokensPreserved
  <2> QED
    BY <2>3, <2>4
<1> QED
  BY <1>8, <1>9

\* For every text and every combination of options the batches put end to end are the words
\* of the text; with a delimiter no token holds it, and nothing but delimiters (and line ends,
\* with -L) is dropped.
THEOREM TokensKept == PlanSpec => []TokensPreserved
<1>1. BatchInv => TokensPreserved
  BY TokensFromInv
<1>2. PlanSpec => []BatchInv
  BY BatchesPlanned
<1> QED
  BY <1>1, <1>2, PTL
=============================================================================
