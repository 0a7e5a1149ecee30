------------------------------ MODULE RunLaunch ------------------------------
(***************************************************************************)
(* devutils/src/run.cpp: launch a command with redirections, and learn     *)
(* through a close-on-exec pipe whether the child got as far as exec.      *)
(* The parent reads the pipe: an errno means the launch failed, end of     *)
(* file means that exec took place (or the child died without a word).     *)
(*                                                                         *)
(* Descriptor tables are explicit, because the protocol depends on them:   *)
(* run inherits any set of open descriptors, standard streams among them   *)
(* or not, pipe() and open() hand out the lowest free descriptors as long  *)
(* as there are any, and dup2() closes what it lands on.                   *)
(***************************************************************************)
EXTENDS Naturals, FiniteSets, FiniteSetsExt

CONSTANTS
  Programs,  \* outcomes of execvp considered, a subset of {"ok", "fails"}
  MaxFd      \* the highest descriptor a process may have (RLIMIT_NOFILE less one)

ASSUME ProgramsAssumption == Programs \subseteq {"ok", "fails"}

\* The three standard streams have descriptors, open or not.
ASSUME FdAssumption == MaxFd \in Nat /\ MaxFd >= 2

VARIABLES
  opt,      \* options of run
  parent,   \* where the parent is
  child,    \* where the child is
  pfd,      \* descriptor table of the parent
  cfd,      \* descriptor table of the child
  cloexec,  \* descriptors of the child with FD_CLOEXEC
  rd, wr,   \* error_pipe[0], error_pipe[1]
  pipe,     \* what the pipe holds: nothing or an errno
  errored,  \* history: the child called child_error
  execed,   \* history: the child's execvp succeeded
  exit      \* how run ended

vars == <<opt, parent, child, pfd, cfd, cloexec, rd, wr, pipe, errored, execed, exit>>

-----------------------------------------------------------------------------
Fd == 0 .. MaxFd
Stdout == 1
Stderr == 2

\* What a descriptor refers to: nothing, a stream run was started with, an end
\* of the pipe, or the open file a redirection made.
Descriptions == {"closed", "std", "pipeR", "pipeW", "outFile", "errFile"}

\* Redirections: none, or a file; "same" names stdout's file for stderr too
\* (-stdort, or the same name twice).
\* ignoreChld: run was started with SIGCHLD ignored, so that its child is reaped by
\* the kernel and waitpid() fails once it has ended.
Options == {o \in [out : BOOLEAN, err : {"none", "own", "same"}, dir : BOOLEAN,
                   async : BOOLEAN, ignoreChld : BOOLEAN, program : Programs] :
              o.err = "same" => o.out}

Free(table) == {fd \in Fd : table[fd] = "closed"}

LowestFree(table) == Min(Free(table))

AllClosed == [fd \in Fd |-> "closed"]

\* Where a child process can be that a signal still ends.
Alive == {"close", "chdir", "stdout", "stderr", "exec", "running"}

Init ==
  /\ opt \in Options
  /\ \E open \in SUBSET Fd :
       pfd = [fd \in Fd |-> IF fd \in open THEN "std" ELSE "closed"]
  /\ cfd = AllClosed
  /\ cloexec = {}
  /\ parent = "pipe" /\ child = "none"
  /\ rd = 0 /\ wr = 0
  /\ pipe = "empty"
  /\ errored = FALSE /\ execed = FALSE
  /\ exit = "none"

-----------------------------------------------------------------------------
(* The parent.                                                             *)

Fail == parent' = "done" /\ exit' = "127"

\* pipe(), which takes two descriptors, then FD_CLOEXEC on the write end alone.
MakePipe ==
  /\ parent = "pipe"
  /\ Cardinality(Free(pfd)) >= 2
  /\ rd' = LowestFree(pfd)
  /\ wr' = LowestFree([pfd EXCEPT ![rd'] = "pipeR"])
  /\ pfd' = [pfd EXCEPT ![rd'] = "pipeR", ![wr'] = "pipeW"]
  /\ cloexec' = {wr'}
  /\ parent' = "fork"
  /\ UNCHANGED <<opt, child, cfd, pipe, errored, execed, exit>>

\* Mutant: pipe()'s result is not looked at; its array holds whatever it held.
PipeUnchecked ==
  /\ parent = "pipe"
  /\ parent' = "fork"
  /\ rd' \in {0, MaxFd + 1} /\ wr' = MaxFd + 1
  /\ UNCHANGED <<opt, child, pfd, cfd, cloexec, pipe, errored, execed, exit>>

\* pipe() or fcntl() fails.
NoPipe ==
  /\ parent = "pipe"
  /\ Fail
  /\ UNCHANGED <<opt, child, pfd, cfd, cloexec, rd, wr, pipe, errored, execed>>

Fork ==
  /\ parent = "fork"
  /\ child' = "close"
  /\ cfd' = pfd
  /\ parent' = "close"
  /\ UNCHANGED <<opt, pfd, cloexec, rd, wr, pipe, errored, execed, exit>>

ForkFails ==
  /\ parent = "fork"
  /\ pfd' = [pfd EXCEPT ![rd] = "closed", ![wr] = "closed"]
  /\ Fail
  /\ UNCHANGED <<opt, child, cfd, cloexec, rd, wr, pipe, errored, execed>>

\* Mutant: the parent keeps its own copy of the write end.
ParentKeepsWriteEnd ==
  /\ parent = "close"
  /\ parent' = "read"
  /\ UNCHANGED <<opt, child, pfd, cfd, cloexec, rd, wr, pipe, errored, execed, exit>>

\* close(error_pipe[1]), before the read (and the -i report, which changes nothing).
CloseWriteEnd ==
  /\ parent = "close"
  /\ pfd' = [pfd EXCEPT ![wr] = "closed"]
  /\ parent' = "read"
  /\ UNCHANGED <<opt, child, cfd, cloexec, rd, wr, pipe, errored, execed, exit>>

\* No process holds the write end any more.
EndOfFile == /\ pipe = "empty"
             /\ \A fd \in Fd : pfd[fd] # "pipeW" /\ cfd[fd] # "pipeW"

\* read() blocks until there is an errno or the end of the file; then the read end
\* is closed.
Read ==
  /\ parent = "read"
  /\ \/ /\ pipe = "errno" /\ parent' = "reap" /\ exit' = exit
     \/ /\ EndOfFile /\ opt.async
        /\ parent' = "done" /\ exit' = "launched"
     \/ /\ EndOfFile /\ ~opt.async
        /\ parent' = "wait" /\ exit' = exit
  /\ pfd' = [pfd EXCEPT ![rd] = "closed"]
  /\ UNCHANGED <<opt, child, cfd, cloexec, rd, wr, pipe, errored, execed>>

\* read() fails: the child is sent SIGTERM, which kills it unless its command
\* ignores the signal, and waited for like one that failed.
ReadFails ==
  /\ parent = "read"
  /\ parent' = "reap"
  /\ pfd' = [pfd EXCEPT ![rd] = "closed"]
  /\ \/ UNCHANGED <<child, cfd>>
     \/ child \in Alive /\ child' = "killed" /\ cfd' = AllClosed
  /\ UNCHANGED <<opt, cloexec, rd, wr, pipe, errored, execed, exit>>

\* Mutant: a reported failure is not waited for.
ReapSkipped ==
  /\ parent = "reap"
  /\ Fail
  /\ UNCHANGED <<opt, child, pfd, cfd, cloexec, rd, wr, pipe, errored, execed>>

\* The launch failed: the child is reaped, by waitpid() or by the kernel, and 127
\* returned.
Reap ==
  /\ parent = "reap"
  /\ child \in {"exited", "killed"}
  /\ child' = "reaped"
  /\ Fail
  /\ UNCHANGED <<opt, pfd, cfd, cloexec, rd, wr, pipe, errored, execed>>

\* The command runs: its status, or 128 plus the signal, is run's; waitpid()
\* failing is 127.  A child_error whose errno was lost ends here too, as status 127.
Wait ==
  /\ parent = "wait"
  /\ child \in {"exited", "killed"}
  /\ child' = "reaped"
  /\ IF errored \/ opt.ignoreChld THEN Fail
     ELSE /\ parent' = "done"
          /\ exit' = IF child = "exited" THEN "status" ELSE "signal"
  /\ UNCHANGED <<opt, pfd, cfd, cloexec, rd, wr, pipe, errored, execed>>

-----------------------------------------------------------------------------
(* The child.                                                              *)

\* Mutant: child_error exits without having written.
ChildErrorSilent ==
  /\ errored' = TRUE
  /\ child' = "exited"
  /\ cfd' = AllClosed
  /\ UNCHANGED <<opt, parent, pfd, cloexec, rd, wr, pipe, execed, exit>>

\* write(error_pipe[1], errno), its result ignored, then _exit(127).  Whatever
\* descriptor wr refers to by now gets the bytes.
ChildError ==
  /\ errored' = TRUE
  /\ pipe' = IF cfd[wr] = "pipeW" THEN "errno" ELSE pipe
  /\ child' = "exited"
  /\ cfd' = AllClosed
  /\ UNCHANGED <<opt, parent, pfd, cloexec, rd, wr, execed, exit>>

Proceed(l) ==
  /\ child' = l
  /\ UNCHANGED <<opt, parent, pfd, rd, wr, pipe, errored, execed, exit>>

\* close(error_pipe[0])
ChildCloses ==
  /\ child = "close"
  /\ cfd' = [cfd EXCEPT ![rd] = "closed"]
  /\ cloexec' = cloexec
  /\ Proceed("chdir")

ChildChdir ==
  /\ child = "chdir"
  /\ \/ UNCHANGED <<cfd, cloexec>> /\ Proceed("stdout")
     \/ opt.dir /\ ChildError

\* open(), if there is a descriptor for it, then dup2(from, target): target is closed
\* first and loses FD_CLOEXEC; nothing happens when both are the same.
Redirect(target, file) ==
  LET fd == LowestFree(cfd)
      opened == [cfd EXCEPT ![fd] = file]
  IN  /\ Free(cfd) # {}
      /\ IF fd = target
         THEN cfd' = opened /\ cloexec' = cloexec \ {fd}
         ELSE /\ cfd' = [opened EXCEPT ![target] = file, ![fd] = "closed"]
              /\ cloexec' = cloexec \ {target, fd}

ChildStdout ==
  /\ child = "stdout"
  /\ \/ ~opt.out /\ UNCHANGED <<cfd, cloexec>> /\ Proceed("stderr")
     \/ opt.out /\ Redirect(Stdout, "outFile") /\ Proceed("stderr")
     \/ opt.out /\ ChildError

\* Mutant: stderr's file is opened even when it is stdout's.
ChildStderrReopens ==
  /\ child = "stderr"
  /\ \/ opt.err = "none" /\ UNCHANGED <<cfd, cloexec>> /\ Proceed("exec")
     \/ opt.err # "none" /\ Redirect(Stderr, "errFile") /\ Proceed("exec")
     \/ opt.err # "none" /\ ChildError

\* Its own file, or a copy of stdout's descriptor when both name one file.
ChildStderr ==
  /\ child = "stderr"
  /\ \/ opt.err = "none" /\ UNCHANGED <<cfd, cloexec>> /\ Proceed("exec")
     \/ opt.err = "own" /\ Redirect(Stderr, "errFile") /\ Proceed("exec")
     \/ /\ opt.err = "same"
        /\ cfd' = [cfd EXCEPT ![Stderr] = cfd[Stdout]]
        /\ cloexec' = cloexec \ {Stderr}
        /\ Proceed("exec")
     \/ opt.err # "none" /\ ChildError

\* setenv() for every -env, then execvp(): its descriptors with FD_CLOEXEC close.
ChildExec ==
  /\ child = "exec"
  /\ \/ /\ opt.program = "ok"
        /\ child' = "running"
        /\ execed' = TRUE
        /\ cfd' = [fd \in Fd |-> IF fd \in cloexec THEN "closed" ELSE cfd[fd]]
        /\ cloexec' = {}
        /\ UNCHANGED <<opt, parent, pfd, rd, wr, pipe, errored, exit>>
     \/ ChildError

\* The command ends by itself, or a signal kills the child at any point.
CommandEnds ==
  /\ child = "running"
  /\ child' = "exited"
  /\ cfd' = AllClosed
  /\ UNCHANGED <<opt, parent, pfd, cloexec, rd, wr, pipe, errored, execed, exit>>

ChildKilled ==
  /\ child \in Alive
  /\ child' = "killed"
  /\ cfd' = AllClosed
  /\ UNCHANGED <<opt, parent, pfd, cloexec, rd, wr, pipe, errored, execed, exit>>

ParentStep ==
  MakePipe \/ NoPipe \/ Fork \/ ForkFails \/ CloseWriteEnd \/ Read \/ Reap \/ Wait

ChildStep == ChildCloses \/ ChildChdir \/ ChildStdout \/ ChildStderr \/ ChildExec

Rest == parent = "done" /\ UNCHANGED vars

Next == ParentStep \/ ReadFails \/ ChildStep \/ CommandEnds \/ ChildKilled \/ Rest

Spec == Init /\ [][Next]_vars

\* Both processes are scheduled; the command itself may run for ever, and read()
\* need not fail.
FairSpec == Spec /\ WF_vars(ParentStep) /\ WF_vars(ChildStep)

-----------------------------------------------------------------------------
(* Properties.                                                             *)

TypeOK ==
  /\ opt \in Options
  /\ parent \in {"pipe", "fork", "close", "read", "reap", "wait", "done"}
  /\ child \in Alive \cup {"none", "exited", "killed", "reaped"}
  /\ pfd \in [Fd -> Descriptions] /\ cfd \in [Fd -> Descriptions]
  /\ cloexec \subseteq Fd
  /\ rd \in Fd /\ wr \in Fd
  /\ pipe \in {"empty", "errno"}
  /\ errored \in BOOLEAN /\ execed \in BOOLEAN
  /\ exit \in {"none", "127", "launched", "status", "signal"}

\* A redirection lands on the pipe: the write end got descriptor 1 or 2 because
\* run was started without that stream.
PipeOverwritten == \/ opt.out /\ wr = Stdout
                   \/ opt.err # "none" /\ wr = Stderr

\* As long as the pipe is not itself redirected away, what run returns is true:
\* a failure before exec gives 127 and nothing else, and "launched" (-Q) or the
\* command's own status is returned only if exec took place or the child was
\* killed by a signal.
ReportIsTrue ==
  ~PipeOverwritten =>
    /\ exit # "none" /\ errored => exit = "127"
    /\ exit \in {"launched", "status"} => execed \/ child = "killed"

\* The command inherits no end of the error pipe, and stdout and stderr share one
\* open file when they were given one name, so that neither overwrites the other.
CleanDescriptors ==
  child = "running" =>
    /\ \A fd \in Fd : cfd[fd] \notin {"pipeR", "pipeW"}
    /\ opt.err = "same" => cfd[Stderr] = cfd[Stdout]
    /\ opt.out => cfd[Stdout] = "outFile"
    /\ opt.err = "own" => cfd[Stderr] = "errFile"

\* Without -Q, and after a failed launch, run leaves no child behind.
ChildReaped ==
  exit \in {"127", "status", "signal"} => child \in {"none", "reaped"}

\* The parent's read always ends, even if the command runs for ever: it never
\* waits for a write end that nobody closes.
ReadEnds == parent = "read" ~> parent # "read"

\* The comment above the pipe: it reports chdir, redirect and exec failures to the
\* parent; so -Q does not return 0 for a command that failed to start.
FailuresReported == exit = "launched" => ~errored
=============================================================================
