-------------------------- MODULE RunLaunchProofs --------------------------
(***************************************************************************)
(* Proofs about run: what it reports of a launch, the descriptors that the *)
(* command gets and the child that is not left behind, for every set of    *)
(* descriptors that is open when run starts and every size of the table.   *)
(***************************************************************************)
EXTENDS RunLaunch, TLAPS, FiniteSetTheorems, WellFoundedInduction

\* The child until execvp() has succeeded.
Launching == {"close", "chdir", "stdout", "stderr", "exec"}

\* The parent's table holds both ends of the pipe when the child gets its copy, and
\* nothing but what it had before; run is over once it has its status, and the child is
\* there in between.
ParentInv ==
  /\ parent = "pipe" => \A fd \in Fd : pfd[fd] \in {"closed", "std"}
  /\ parent = "fork" =>
       /\ rd # wr /\ pfd[rd] = "pipeR" /\ pfd[wr] = "pipeW" /\ cloexec = {wr}
       /\ \A fd \in Fd \ {rd, wr} : pfd[fd] \in {"closed", "std"}
  /\ parent \in {"pipe", "fork"} => child = "none" /\ pipe = "empty"
  /\ child = "none" => parent \in {"pipe", "fork"} \/ exit = "127"
  /\ child = "reaped" => exit \in {"127", "status", "signal"}
  /\ exit = "none" <=> parent # "done"
  /\ ChildReaped

\* The child's table: until exec its write end, and nothing else, is closed on exec; only
\* a redirection that lands on the write end takes it away; the read end is closed first.
PipeInv ==
  /\ child = "close" =>
       /\ rd # wr /\ cfd[rd] = "pipeR" /\ cfd[wr] = "pipeW"
       /\ \A fd \in Fd : cfd[fd] = "pipeR" => fd = rd
  /\ child \in Launching => \A fd \in Fd : fd \in cloexec <=> cfd[fd] = "pipeW"
  /\ child \in Launching /\ ~PipeOverwritten => cfd[wr] = "pipeW"
  /\ child \in {"chdir", "stdout", "stderr", "exec", "running"} =>
       \A fd \in Fd : cfd[fd] # "pipeR"
  /\ child = "running" => \A fd \in Fd : cfd[fd] # "pipeW"

\* A stream that was redirected stays so.
StreamInv ==
  /\ child \in {"stderr", "exec", "running"} /\ opt.out => cfd[Stdout] = "outFile"
  /\ child \in {"exec", "running"} =>
       /\ opt.err = "own" => cfd[Stderr] = "errFile"
       /\ opt.err = "same" => cfd[Stderr] = cfd[Stdout]

\* What has become of the launch, and what the parent may know of it.
OutcomeInv ==
  /\ child \in Launching \cup {"none"} => ~errored /\ ~execed
  /\ child = "running" => execed /\ ~errored
  /\ child = "exited" => errored \/ execed
  /\ errored => child \in {"exited", "reaped"}
  /\ errored /\ ~PipeOverwritten => pipe = "errno"
  /\ (parent = "wait" \/ exit = "launched") /\ ~PipeOverwritten =>
       child \notin Launching /\ ~errored
  /\ exit \in {"status", "signal"} => ~errored
  /\ exit = "status" => execed

LaunchInv == TypeOK /\ ParentInv /\ PipeInv /\ StreamInv /\ OutcomeInv

-----------------------------------------------------------------------------
(* Descriptors.                                                            *)

LEMMA FdFacts == Stdout \in Fd /\ Stderr \in Fd /\ Stdout # Stderr
  BY FdAssumption DEF Fd, Stdout, Stderr

\* The lowest free descriptor is free, if one is.
LEMMA LowestIsFree ==
  ASSUME NEW table, Free(table) # {}
  PROVE  LowestFree(table) \in Fd /\ table[LowestFree(table)] = "closed"
<1>1. Free(table) \subseteq Nat
  BY FdAssumption DEF Free, Fd
<1>2. PICK n \in Free(table) : \A m \in Free(table) : ~ (<<m, n>> \in OpToRel(<, Nat))
  BY <1>1, WFMin, NatLessThanWellFounded
<1>3. \A m \in Free(table) : n <= m
  <2>1. \A m \in Free(table) : ~ (m < n)
    BY <1>1, <1>2 DEF OpToRel
  <2> QED
    BY <1>1, <2>1
<1>4. LowestFree(table) \in Free(table)
  BY <1>3, Zenon DEF LowestFree, Min
<1> QED
  BY <1>4 DEF Free

\* Of two free descriptors one is left when the other is taken.
LEMMA OneIsLeft ==
  ASSUME NEW table \in [Fd -> Descriptions], Cardinality(Free(table)) >= 2,
         NEW fd \in Fd, NEW d
  PROVE  Free(table) # {} /\ Free([table EXCEPT ![fd] = d]) # {}
<1>1. IsFiniteSet(Fd)
  BY FdAssumption, FS_Interval DEF Fd
<1>2. IsFiniteSet(Free(table))
  BY <1>1, FS_Subset DEF Free
<1>3. Free(table) # {}
  BY FS_EmptySet
<1>4. Cardinality(Free(table)) \in Nat
  BY <1>2, FS_CardinalityType
<1>5. IsFiniteSet(Free(table) \ {fd}) /\ Cardinality(Free(table) \ {fd}) >= 1
  <2>1. /\ IsFiniteSet(Free(table) \ {fd})
        /\ Cardinality(Free(table) \ {fd}) =
             IF fd \in Free(table) THEN Cardinality(Free(table)) - 1
             ELSE Cardinality(Free(table))
    BY <1>2, FS_RemoveElement
  <2> QED
    BY <1>4, <2>1
<1>6. Free(table) \ {fd} # {}
  BY <1>5, FS_EmptySet
<1>7. Free(table) \ {fd} \subseteq Free([table EXCEPT ![fd] = d])
  BY DEF Free
<1> QED
  BY <1>3, <1>6, <1>7

-----------------------------------------------------------------------------
(* The parent.                                                             *)

LEMMA InitInv == Init => LaunchInv
<1> SUFFICES ASSUME Init PROVE LaunchInv
  OBVIOUS
<1>1. TypeOK
  <2>1. pfd \in [Fd -> Descriptions] /\ cfd \in [Fd -> Descriptions]
    BY DEF Init, Descriptions, AllClosed
  <2>2. 0 \in Fd
    BY FdAssumption DEF Fd
  <2> QED
    BY <2>1, <2>2 DEF Init, TypeOK
<1>2. ParentInv
  BY DEF Init, ParentInv, ChildReaped
<1> QED
  BY <1>1, <1>2 DEF Init, LaunchInv, PipeInv, StreamInv, OutcomeInv, Launching

LEMMA MakePipeInv == ASSUME LaunchInv, MakePipe PROVE LaunchInv'
<1> DEFINE taken == [pfd EXCEPT ![rd'] = "pipeR"]
<1>1. /\ parent = "pipe" /\ child = "none" /\ pipe = "empty" /\ exit = "none"
      /\ pfd \in [Fd -> Descriptions] /\ \A fd \in Fd : pfd[fd] \in {"closed", "std"}
  BY DEF LaunchInv, TypeOK, ParentInv, MakePipe
<1>2. Free(pfd) # {} /\ Free(taken) # {}
  <2>1. Free(pfd) # {}
    BY <1>1, FdFacts, OneIsLeft DEF MakePipe
  <2>2. rd' \in Fd
    BY <2>1, LowestIsFree DEF MakePipe
  <2> QED
    BY <1>1, <2>2, OneIsLeft DEF MakePipe
<1>3. rd' \in Fd /\ pfd[rd'] = "closed"
  BY <1>2, LowestIsFree DEF MakePipe
<1>4. wr' \in Fd /\ taken[wr'] = "closed"
  BY <1>2, LowestIsFree DEF MakePipe
<1>5. rd' # wr' /\ pfd' = [pfd EXCEPT ![rd'] = "pipeR", ![wr'] = "pipeW"]
  BY <1>1, <1>3, <1>4 DEF MakePipe
<1>6. pfd' \in [Fd -> Descriptions] /\ pfd'[rd'] = "pipeR" /\ pfd'[wr'] = "pipeW"
      /\ \A fd \in Fd \ {rd', wr'} : pfd'[fd] \in {"closed", "std"}
  BY <1>1, <1>3, <1>4, <1>5 DEF Descriptions
<1>7. TypeOK'
  BY <1>3, <1>4, <1>6 DEF LaunchInv, TypeOK, MakePipe
<1>8. ParentInv'
  BY <1>1, <1>5, <1>6 DEF ParentInv, ChildReaped, MakePipe
<1>9. PipeInv' /\ StreamInv'
  BY <1>1 DEF MakePipe, PipeInv, StreamInv, Launching
<1>10. OutcomeInv'
  BY <1>1 DEF LaunchInv, MakePipe, OutcomeInv, Launching
<1> QED
  BY <1>7, <1>8, <1>9, <1>10 DEF LaunchInv

LEMMA NoPipeInv == ASSUME LaunchInv, NoPipe \/ ForkFails PROVE LaunchInv'
<1>1. /\ parent \in {"pipe", "fork"} /\ child = "none" /\ pipe = "empty" /\ exit = "none"
      /\ parent' = "done" /\ exit' = "127"
      /\ UNCHANGED <<opt, child, cfd, cloexec, rd, wr, pipe, errored, execed>>
  BY DEF LaunchInv, ParentInv, NoPipe, ForkFails, Fail
<1>2. pfd' \in [Fd -> Descriptions]
  BY DEF LaunchInv, TypeOK, NoPipe, ForkFails, Descriptions
<1>3. TypeOK'
  BY <1>1, <1>2 DEF LaunchInv, TypeOK
<1>4. ParentInv'
  BY <1>1 DEF ParentInv, ChildReaped
<1>5. PipeInv' /\ StreamInv'
  BY <1>1 DEF PipeInv, StreamInv, Launching
<1>6. OutcomeInv'
  BY <1>1 DEF LaunchInv, OutcomeInv
<1> QED
  BY <1>3, <1>4, <1>5, <1>6 DEF LaunchInv

LEMMA ForkInv == ASSUME LaunchInv, Fork PROVE LaunchInv'
<1>1. /\ child = "none" /\ pipe = "empty" /\ exit = "none" /\ cfd' = pfd
      /\ rd # wr /\ pfd[rd] = "pipeR" /\ pfd[wr] = "pipeW" /\ cloexec = {wr}
      /\ \A fd \in Fd \ {rd, wr} : pfd[fd] \in {"closed", "std"}
      /\ parent' = "close" /\ child' = "close"
      /\ UNCHANGED <<opt, pfd, cloexec, rd, wr, pipe, errored, execed, exit>>
  BY DEF LaunchInv, ParentInv, Fork
<1>2. TypeOK'
  BY <1>1 DEF LaunchInv, TypeOK, Alive
<1>3. ParentInv'
  BY <1>1 DEF ParentInv, ChildReaped
<1>4. PipeInv'
  BY <1>1 DEF PipeInv, Launching
<1>5. StreamInv' /\ OutcomeInv'
  BY <1>1 DEF LaunchInv, StreamInv, OutcomeInv, PipeOverwritten
<1> QED
  BY <1>2, <1>3, <1>4, <1>5 DEF LaunchInv

\* What the child's part of the invariant looks at.
ChildVars == <<opt, child, cfd, cloexec, rd, wr, pipe, errored, execed>>

LEMMA ChildKept ==
  ASSUME PipeInv, StreamInv, UNCHANGED ChildVars
  PROVE  PipeInv' /\ StreamInv'
<1>1. PipeInv'
  BY DEF ChildVars, PipeInv, PipeOverwritten
<1>2. StreamInv'
  BY DEF ChildVars, StreamInv
<1> QED
  BY <1>1, <1>2

LEMMA CloseWriteEndInv == ASSUME LaunchInv, CloseWriteEnd PROVE LaunchInv'
<1>1. UNCHANGED ChildVars /\ UNCHANGED exit /\ parent = "close" /\ parent' = "read"
  BY DEF CloseWriteEnd, ChildVars
<1>2. TypeOK'
  BY DEF CloseWriteEnd, LaunchInv, TypeOK, Descriptions
<1>3. ParentInv'
  BY <1>1 DEF LaunchInv, ParentInv, ChildReaped, ChildVars
<1>4. OutcomeInv'
  BY <1>1 DEF LaunchInv, OutcomeInv, PipeOverwritten, ChildVars
<1> QED
  BY <1>1, <1>2, <1>3, <1>4, ChildKept DEF LaunchInv

\* At the end of the file the child has executed its command or ended without an error.
LEMMA ReadInv == ASSUME LaunchInv, Read PROVE LaunchInv'
<1>1. UNCHANGED ChildVars /\ parent = "read" /\ exit = "none"
  BY DEF Read, ChildVars, LaunchInv, ParentInv
<1>2. child # "none" /\ child # "reaped"
  BY <1>1 DEF LaunchInv, ParentInv
<1>3. \/ parent' \in {"reap", "wait"} /\ exit' = "none"
      \/ parent' = "done" /\ exit' = "launched"
  BY <1>1 DEF Read
<1>4. TypeOK'
  BY <1>1, <1>3 DEF Read, LaunchInv, TypeOK, Descriptions, ChildVars
<1>5. ParentInv'
  BY <1>1, <1>2, <1>3 DEF ParentInv, ChildReaped, ChildVars
<1>6. ASSUME parent' # "reap", ~PipeOverwritten PROVE child \notin Launching /\ ~errored
  <2>1. EndOfFile
    BY <1>6 DEF Read
  <2>2. child \notin Launching
    BY <1>6, <2>1 DEF EndOfFile, LaunchInv, TypeOK, PipeInv
  <2>3. ~errored
    BY <1>6, <2>1 DEF EndOfFile, LaunchInv, OutcomeInv
  <2> QED
    BY <2>2, <2>3
<1>7. OutcomeInv'
  BY <1>1, <1>3, <1>6 DEF LaunchInv, OutcomeInv, PipeOverwritten, ChildVars
<1> QED
  BY <1>1, <1>4, <1>5, <1>7, ChildKept DEF LaunchInv

LEMMA ReadFailsInv == ASSUME LaunchInv, ReadFails PROVE LaunchInv'
<1>1. /\ parent = "read" /\ exit = "none" /\ parent' = "reap"
      /\ UNCHANGED <<opt, cloexec, rd, wr, pipe, errored, execed, exit>>
      /\ child # "none" /\ child # "reaped"
  BY DEF ReadFails, LaunchInv, ParentInv
<1>2. pfd' \in [Fd -> Descriptions]
  BY DEF ReadFails, LaunchInv, TypeOK, Descriptions
<1>3. CASE UNCHANGED <<child, cfd>>
  <2>1. TypeOK' /\ ParentInv' /\ OutcomeInv'
    BY <1>1, <1>2, <1>3 DEF LaunchInv, TypeOK, ParentInv, OutcomeInv, ChildReaped,
       PipeOverwritten
  <2>2. UNCHANGED ChildVars
    BY <1>1, <1>3 DEF ChildVars
  <2> QED
    BY <2>1, <2>2, ChildKept DEF LaunchInv
<1>4. CASE child \in Alive /\ child' = "killed" /\ cfd' = AllClosed
  <2>1. TypeOK'
    BY <1>1, <1>2, <1>4 DEF LaunchInv, TypeOK, AllClosed, Descriptions
  <2>2. ParentInv' /\ OutcomeInv'
    BY <1>1, <1>4 DEF LaunchInv, ParentInv, OutcomeInv, ChildReaped, PipeOverwritten, Alive,
       Launching
  <2>3. PipeInv' /\ StreamInv'
    BY <1>4 DEF PipeInv, StreamInv, Launching
  <2> QED
    BY <2>1, <2>2, <2>3 DEF LaunchInv
<1> QED
  BY <1>3, <1>4 DEF ReadFails

LEMMA ReapInv == ASSUME LaunchInv, Reap \/ Wait PROVE LaunchInv'
<1>1. /\ parent \in {"reap", "wait"} /\ exit = "none" /\ child \in {"exited", "killed"}
      /\ parent' = "done" /\ child' = "reaped" /\ exit' \in {"127", "status", "signal"}
      /\ UNCHANGED <<opt, pfd, cfd, cloexec, rd, wr, pipe, errored, execed>>
  BY DEF Reap, Wait, Fail, LaunchInv, ParentInv
<1>2. /\ exit' \in {"status", "signal"} => ~errored
      /\ exit' = "status" => child = "exited"
  BY DEF Reap, Wait, Fail
<1>3. TypeOK'
  BY <1>1 DEF LaunchInv, TypeOK
<1>4. ParentInv'
  BY <1>1 DEF ParentInv, ChildReaped
<1>5. PipeInv' /\ StreamInv'
  BY <1>1 DEF PipeInv, StreamInv, Launching
<1>6. OutcomeInv'
  BY <1>1, <1>2 DEF LaunchInv, OutcomeInv, PipeOverwritten, Launching
<1> QED
  BY <1>3, <1>4, <1>5, <1>6 DEF LaunchInv

-----------------------------------------------------------------------------
(* The child.                                                              *)

\* What the child's own steps leave to the parent.
ParentVars == <<opt, parent, pfd, rd, wr, exit>>

LEMMA ParentKept ==
  ASSUME LaunchInv, UNCHANGED ParentVars, child \in Alive,
         child' \in Alive \cup {"exited", "killed"}
  PROVE  ParentInv'
<1>1. child # "none" /\ child # "reaped" /\ child' # "none" /\ child' # "reaped"
  BY DEF Alive
<1> QED
  BY <1>1 DEF LaunchInv, ParentInv, ChildReaped, ParentVars

\* A child that ends: by child_error, because its command does, or killed.
LEMMA ChildEndsInv ==
  ASSUME LaunchInv, UNCHANGED ParentVars, UNCHANGED <<cloexec, execed>>, child \in Alive,
         child' \in {"exited", "killed"}, cfd' = AllClosed, pipe' \in {"empty", "errno"},
         errored' \in BOOLEAN, errored' => child' = "exited",
         child' = "exited" => errored' \/ execed,
         errored' => child \in Launching \/ errored,
         errored' /\ ~PipeOverwritten => pipe' = "errno"
  PROVE  LaunchInv'
<1>1. TypeOK'
  BY DEF LaunchInv, TypeOK, ParentVars, AllClosed, Descriptions
<1>2. PipeInv' /\ StreamInv'
  BY DEF PipeInv, StreamInv, Launching
<1>3. ~errored
  BY DEF LaunchInv, OutcomeInv, Alive, Launching
<1>4. exit \notin {"status", "signal"}
  BY DEF LaunchInv, ParentInv, ChildReaped, Alive
<1>5. OutcomeInv'
  BY <1>3, <1>4 DEF LaunchInv, OutcomeInv, PipeOverwritten, ParentVars, Launching
<1> QED
  BY <1>1, <1>2, <1>5, ParentKept DEF LaunchInv

LEMMA ChildErrorInv ==
  ASSUME LaunchInv, child \in Launching, ChildError PROVE LaunchInv'
<1>1. child \in Alive /\ ~execed /\ pipe \in {"empty", "errno"}
  BY DEF LaunchInv, TypeOK, OutcomeInv, Alive, Launching
<1>2. ~PipeOverwritten => pipe' = "errno"
  BY DEF LaunchInv, PipeInv, ChildError
<1>3. UNCHANGED ParentVars /\ pipe' \in {"empty", "errno"}
  BY <1>1 DEF ChildError, ParentVars
<1> QED
  BY <1>1, <1>2, <1>3, ChildEndsInv DEF ChildError

LEMMA CommandEndsInv == ASSUME LaunchInv, CommandEnds \/ ChildKilled PROVE LaunchInv'
<1>1. child \in Alive /\ pipe \in {"empty", "errno"} /\ UNCHANGED ParentVars
  BY DEF LaunchInv, TypeOK, CommandEnds, ChildKilled, ParentVars, Alive
<1>2. ~errored
  BY <1>1 DEF LaunchInv, OutcomeInv, Alive, Launching
<1>3. child' = "exited" => execed
  BY DEF CommandEnds, ChildKilled, LaunchInv, OutcomeInv
<1>4. /\ UNCHANGED <<cloexec, execed, pipe, errored>> /\ cfd' = AllClosed
      /\ child' \in {"exited", "killed"}
  BY DEF CommandEnds, ChildKilled
<1>5. errored' = FALSE
  BY <1>2, <1>4 DEF LaunchInv, TypeOK
<1> QED
  BY <1>1, <1>3, <1>4, <1>5, ChildEndsInv

\* What a step from one call to the next has to keep.
LEMMA ProceedInv ==
  ASSUME LaunchInv, child \in Launching, NEW l \in Launching, Proceed(l),
         cfd' \in [Fd -> Descriptions], cloexec' \subseteq Fd, PipeInv', StreamInv'
  PROVE  LaunchInv'
<1>1. child' = l /\ UNCHANGED ParentVars /\ UNCHANGED <<pipe, errored, execed>>
  BY DEF Proceed, ParentVars
<1>2. TypeOK' /\ child \in Alive /\ child' \in Alive
  BY <1>1 DEF LaunchInv, TypeOK, ParentVars, Launching, Alive
<1>3. OutcomeInv'
  BY <1>1 DEF LaunchInv, OutcomeInv, PipeOverwritten, ParentVars, Launching
<1> QED
  BY <1>1, <1>2, <1>3, ParentKept DEF LaunchInv

LEMMA ChildClosesInv == ASSUME LaunchInv, ChildCloses PROVE LaunchInv'
<1>1. /\ child = "close" /\ child' = "chdir" /\ rd # wr /\ rd \in Fd /\ wr \in Fd
      /\ cfd \in [Fd -> Descriptions] /\ cloexec \subseteq Fd
      /\ cfd' = [cfd EXCEPT ![rd] = "closed"] /\ UNCHANGED <<opt, rd, wr, cloexec>>
      /\ cfd[rd] = "pipeR" /\ \A fd \in Fd : cfd[fd] = "pipeR" => fd = rd
  BY DEF ChildCloses, Proceed, LaunchInv, TypeOK, PipeInv
<1>2. cfd' \in [Fd -> Descriptions]
  BY <1>1 DEF Descriptions
<1>3. PipeInv'
  <2>1. \A fd \in Fd : cfd'[fd] = "pipeW" <=> cfd[fd] = "pipeW"
    BY <1>1
  <2>2. \A fd \in Fd : cfd[fd] = "pipeW" <=> fd \in cloexec
    BY <1>1 DEF LaunchInv, PipeInv, Launching
  <2> QED
    BY <1>1, <2>1, <2>2 DEF LaunchInv, PipeInv, PipeOverwritten, Launching
<1>4. StreamInv'
  BY <1>1 DEF StreamInv
<1> QED
  BY <1>1, <1>2, <1>3, <1>4, ProceedInv DEF ChildCloses, Launching

LEMMA ChildChdirInv == ASSUME LaunchInv, ChildChdir PROVE LaunchInv'
<1>1. child = "chdir" /\ child \in Launching
  BY DEF ChildChdir, Launching
<1>2. CASE UNCHANGED <<cfd, cloexec>> /\ Proceed("stdout")
  <2>1. cfd' \in [Fd -> Descriptions] /\ cloexec' \subseteq Fd
    BY <1>2 DEF LaunchInv, TypeOK
  <2>2. child' = "stdout" /\ UNCHANGED <<opt, rd, wr>>
    BY <1>2 DEF Proceed
  <2>3. PipeInv' /\ StreamInv'
    BY <1>1, <1>2, <2>2 DEF LaunchInv, PipeInv, StreamInv, PipeOverwritten, Launching
  <2> QED
    BY <1>1, <1>2, <2>1, <2>3, ProceedInv DEF Launching
<1>3. CASE ChildError
  BY <1>1, <1>3, ChildErrorInv
<1> QED
  BY <1>2, <1>3 DEF ChildChdir

\* A redirection changes its target and nothing else that is open, and takes from the
\* descriptors that close on exec only its target.
LEMMA RedirectFacts ==
  ASSUME cfd \in [Fd -> Descriptions], cloexec \subseteq Fd,
         \A fd \in Fd : fd \in cloexec <=> cfd[fd] = "pipeW",
         NEW target \in Fd, NEW file \in {"outFile", "errFile"}, Redirect(target, file)
  PROVE  /\ cfd' \in [Fd -> Descriptions] /\ cfd'[target] = file
         /\ \A fd \in Fd \ {target} : cfd'[fd] = cfd[fd]
         /\ cloexec' = cloexec \ {target}
<1> DEFINE fd == LowestFree(cfd)
<1>1. fd \in Fd /\ cfd[fd] = "closed"
  BY LowestIsFree DEF Redirect
<1>2. fd \notin cloexec
  BY <1>1
<1>3. CASE fd = target
  <2>1. cfd' = [cfd EXCEPT ![fd] = file] /\ cloexec' = cloexec \ {fd}
    BY <1>3 DEF Redirect
  <2> HIDE DEF fd
  <2> QED
    BY <1>1, <1>3, <2>1 DEF Descriptions
<1>4. CASE fd # target
  <2>1. /\ cfd' = [[cfd EXCEPT ![fd] = file] EXCEPT ![target] = file, ![fd] = "closed"]
        /\ cloexec' = cloexec \ {target, fd}
    BY <1>4 DEF Redirect
  <2> HIDE DEF fd
  <2> QED
    BY <1>1, <1>2, <1>4, <2>1 DEF Descriptions
<1> QED
  BY <1>3, <1>4

\* What a redirection does to the pipe: nothing, unless it lands on it.
LEMMA RedirectKeepsPipe ==
  ASSUME LaunchInv, child \in {"stdout", "stderr"}, child' \in {"stderr", "exec"},
         UNCHANGED <<opt, rd, wr>>, NEW target \in Fd,
         cfd'[target] \notin {"pipeR", "pipeW"},
         \A fd \in Fd \ {target} : cfd'[fd] = cfd[fd], cloexec' = cloexec \ {target},
         wr = target => PipeOverwritten
  PROVE  PipeInv'
<1>1. wr \in Fd /\ cloexec \subseteq Fd
  BY DEF LaunchInv, TypeOK
<1>2. /\ \A fd \in Fd : fd \in cloexec <=> cfd[fd] = "pipeW"
      /\ ~PipeOverwritten => cfd[wr] = "pipeW"
      /\ \A fd \in Fd : cfd[fd] # "pipeR"
  BY DEF LaunchInv, PipeInv, Launching
<1>3. PipeOverwritten' <=> PipeOverwritten
  BY DEF PipeOverwritten
<1> QED
  BY <1>1, <1>2, <1>3 DEF PipeInv

LEMMA ChildStdoutInv == ASSUME LaunchInv, ChildStdout PROVE LaunchInv'
<1>1. /\ child = "stdout" /\ child \in Launching
      /\ cfd \in [Fd -> Descriptions] /\ cloexec \subseteq Fd
      /\ \A fd \in Fd : fd \in cloexec <=> cfd[fd] = "pipeW"
  BY DEF ChildStdout, Launching, LaunchInv, TypeOK, PipeInv
<1>2. CASE ~opt.out /\ UNCHANGED <<cfd, cloexec>> /\ Proceed("stderr")
  <2>1. child' = "stderr" /\ UNCHANGED <<opt, rd, wr>>
    BY <1>2 DEF Proceed
  <2>2. PipeInv' /\ StreamInv'
    BY <1>1, <1>2, <2>1 DEF LaunchInv, PipeInv, StreamInv, PipeOverwritten, Launching
  <2> QED
    BY <1>1, <1>2, <2>2, ProceedInv DEF Launching
<1>3. CASE opt.out /\ Redirect(Stdout, "outFile") /\ Proceed("stderr")
  <2>1. child' = "stderr" /\ UNCHANGED <<opt, rd, wr>>
    BY <1>3 DEF Proceed
  <2>2. /\ cfd' \in [Fd -> Descriptions] /\ cfd'[Stdout] = "outFile"
        /\ \A fd \in Fd \ {Stdout} : cfd'[fd] = cfd[fd]
        /\ cloexec' = cloexec \ {Stdout}
    BY <1>1, <1>3, FdFacts, RedirectFacts
  <2>3. PipeInv'
    BY <1>1, <1>3, <2>1, <2>2, FdFacts, RedirectKeepsPipe DEF PipeOverwritten
  <2>4. StreamInv'
    BY <2>1, <2>2 DEF StreamInv
  <2> QED
    BY <1>1, <1>3, <2>2, <2>3, <2>4, ProceedInv DEF Launching
<1>4. CASE ChildError
  BY <1>1, <1>4, ChildErrorInv
<1> QED
  BY <1>2, <1>3, <1>4 DEF ChildStdout

LEMMA ChildStderrInv == ASSUME LaunchInv, ChildStderr PROVE LaunchInv'
<1>1. /\ child = "stderr" /\ child \in Launching /\ opt \in Options
      /\ cfd \in [Fd -> Descriptions] /\ cloexec \subseteq Fd
      /\ \A fd \in Fd : fd \in cloexec <=> cfd[fd] = "pipeW"
      /\ opt.out => cfd[Stdout] = "outFile"
      /\ opt.err = "same" => opt.out
  BY DEF ChildStderr, Launching, LaunchInv, TypeOK, PipeInv, StreamInv, Options
<1>2. CASE opt.err = "none" /\ UNCHANGED <<cfd, cloexec>> /\ Proceed("exec")
  <2>1. child' = "exec" /\ UNCHANGED <<opt, rd, wr>>
    BY <1>2 DEF Proceed
  <2>2. PipeInv' /\ StreamInv'
    BY <1>1, <1>2, <2>1 DEF LaunchInv, PipeInv, StreamInv, PipeOverwritten, Launching
  <2> QED
    BY <1>1, <1>2, <2>2, ProceedInv DEF Launching
<1>3. CASE opt.err = "own" /\ Redirect(Stderr, "errFile") /\ Proceed("exec")
  <2>1. child' = "exec" /\ UNCHANGED <<opt, rd, wr>>
    BY <1>3 DEF Proceed
  <2>2. /\ cfd' \in [Fd -> Descriptions] /\ cfd'[Stderr] = "errFile"
        /\ \A fd \in Fd \ {Stderr} : cfd'[fd] = cfd[fd]
        /\ cloexec' = cloexec \ {Stderr}
    BY <1>1, <1>3, FdFacts, RedirectFacts
  <2>3. PipeInv'
    BY <1>1, <1>3, <2>1, <2>2, FdFacts, RedirectKeepsPipe DEF PipeOverwritten
  <2>4. StreamInv'
    BY <1>1, <1>3, <2>1, <2>2, FdFacts DEF StreamInv
  <2> QED
    BY <1>1, <1>3, <2>2, <2>3, <2>4, ProceedInv DEF Launching
<1>4. CASE /\ opt.err = "same"
           /\ cfd' = [cfd EXCEPT ![Stderr] = cfd[Stdout]]
           /\ cloexec' = cloexec \ {Stderr}
           /\ Proceed("exec")
  <2>1. child' = "exec" /\ UNCHANGED <<opt, rd, wr>>
    BY <1>4 DEF Proceed
  <2>2. /\ cfd' \in [Fd -> Descriptions] /\ cfd'[Stderr] = "outFile"
        /\ \A fd \in Fd \ {Stderr} : cfd'[fd] = cfd[fd]
    BY <1>1, <1>4, FdFacts
  <2>3. PipeInv'
    BY <1>1, <1>4, <2>1, <2>2, FdFacts, RedirectKeepsPipe DEF PipeOverwritten
  <2>4. StreamInv'
    BY <1>1, <1>4, <2>1, <2>2, FdFacts DEF StreamInv
  <2> QED
    BY <1>1, <1>4, <2>2, <2>3, <2>4, ProceedInv DEF Launching
<1>5. CASE ChildError
  BY <1>1, <1>5, ChildErrorInv
<1> QED
  BY <1>2, <1>3, <1>4, <1>5 DEF ChildStderr

\* execvp() closes the write end, the only end that is left.
LEMMA ChildExecInv == ASSUME LaunchInv, ChildExec PROVE LaunchInv'
<1>1. CASE ChildError
  BY <1>1, ChildErrorInv DEF ChildExec, Launching
<1>2. CASE ~ChildError
  <2>1. /\ child = "exec" /\ child' = "running" /\ execed' = TRUE /\ cloexec' = {}
        /\ cfd' = [fd \in Fd |-> IF fd \in cloexec THEN "closed" ELSE cfd[fd]]
        /\ UNCHANGED <<opt, parent, pfd, rd, wr, pipe, errored, exit>>
    BY <1>2 DEF ChildExec
  <2>2. /\ cfd \in [Fd -> Descriptions] /\ ~errored /\ child \in Launching
        /\ \A fd \in Fd : fd \in cloexec <=> cfd[fd] = "pipeW"
        /\ \A fd \in Fd : cfd[fd] # "pipeR"
    BY <2>1 DEF LaunchInv, TypeOK, PipeInv, OutcomeInv, Launching
  <2>3. cfd' \in [Fd -> Descriptions]
    BY <2>1, <2>2 DEF Descriptions
  <2>4. TypeOK' /\ child \in Alive /\ child' \in Alive /\ UNCHANGED ParentVars
    BY <2>1, <2>3 DEF LaunchInv, TypeOK, Alive, ParentVars
  <2>5. PipeInv'
    BY <2>1, <2>2 DEF PipeInv, Launching
  <2>6. StreamInv'
    <3>1. opt \in Options /\ (opt.out => cfd[Stdout] = "outFile")
      BY <2>1 DEF LaunchInv, TypeOK, StreamInv
    <3>2. /\ opt.err = "own" => cfd[Stderr] = "errFile"
          /\ opt.err = "same" => cfd[Stderr] = cfd[Stdout] /\ cfd[Stdout] = "outFile"
      BY <2>1, <3>1 DEF LaunchInv, StreamInv, Options
    <3> QED
      BY <2>1, <2>2, <3>1, <3>2, FdFacts DEF StreamInv
  <2>7. OutcomeInv'
    BY <2>1, <2>2 DEF LaunchInv, OutcomeInv, PipeOverwritten, Launching
  <2> QED
    BY <2>4, <2>5, <2>6, <2>7, ParentKept DEF LaunchInv
<1> QED
  BY <1>1, <1>2

-----------------------------------------------------------------------------
(* The theorems.                                                           *)

LEMMA LaunchInvariant == Spec => []LaunchInv
<1>1. LaunchInv /\ [Next]_vars => LaunchInv'
  <2> SUFFICES ASSUME LaunchInv, [Next]_vars PROVE LaunchInv'
    OBVIOUS
  <2>1. CASE UNCHANGED vars
    BY <2>1 DEF vars, LaunchInv, TypeOK, ParentInv, ChildReaped, PipeInv, StreamInv,
       OutcomeInv, PipeOverwritten
  <2>2. ASSUME ParentStep \/ ReadFails PROVE LaunchInv'
    BY <2>2, MakePipeInv, NoPipeInv, ForkInv, CloseWriteEndInv, ReadInv, ReapInv,
       ReadFailsInv DEF ParentStep
  <2>3. ASSUME ChildStep PROVE LaunchInv'
    BY <2>3, ChildClosesInv, ChildChdirInv, ChildStdoutInv, ChildStderrInv, ChildExecInv
       DEF ChildStep
  <2> QED
    BY <2>1, <2>2, <2>3, CommandEndsInv DEF Next, Rest
<1> QED
  BY <1>1, InitInv, PTL DEF Spec

\* Every variable of run's model keeps its type: the descriptors of the pipe are ones
\* of the table, whatever was open when run started.
THEOREM LaunchTypes == Spec => []TypeOK
<1>1. LaunchInv => TypeOK
  BY DEF LaunchInv
<1> QED
  BY <1>1, LaunchInvariant, PTL

\* run returns 127 for every launch that failed in the child, and says that the command
\* was launched, or returns its status, only if it was executed or killed; unless a
\* redirection has replaced the pipe that the parent reads.
THEOREM LaunchReported == Spec => []ReportIsTrue
<1>1. LaunchInv => ReportIsTrue
  <2> SUFFICES ASSUME LaunchInv, ~PipeOverwritten
               PROVE  /\ exit # "none" /\ errored => exit = "127"
                      /\ exit \in {"launched", "status"} => execed \/ child = "killed"
    BY DEF ReportIsTrue
  <2>1. exit # "none" /\ errored => exit = "127"
    BY DEF LaunchInv, TypeOK, OutcomeInv
  <2>2. ASSUME exit = "launched" PROVE execed \/ child = "killed"
    <3>1. child \notin Launching /\ ~errored /\ child \notin {"none", "reaped"}
      BY <2>2 DEF LaunchInv, OutcomeInv, ParentInv
    <3>2. child \in {"running", "exited", "killed"}
      BY <3>1 DEF LaunchInv, TypeOK, Launching, Alive
    <3> QED
      BY <3>1, <3>2 DEF LaunchInv, OutcomeInv
  <2> QED
    BY <2>1, <2>2 DEF LaunchInv, OutcomeInv
<1> QED
  BY <1>1, LaunchInvariant, PTL

\* The command gets no end of the pipe, and the streams that it was given: whatever
\* descriptors were open and wherever the pipe and the files came to lie.
THEOREM LaunchDescriptors == Spec => []CleanDescriptors
<1>1. LaunchInv => CleanDescriptors
  BY DEF LaunchInv, PipeInv, StreamInv, CleanDescriptors
<1> QED
  BY <1>1, LaunchInvariant, PTL

\* When run has waited, or returns 127, no child is left.
THEOREM LaunchReaped == Spec => []ChildReaped
<1>1. LaunchInv => ChildReaped
  BY DEF LaunchInv, ParentInv
<1> QED
  BY <1>1, LaunchInvariant, PTL
=============================================================================
