# Verification of allforall-suite

TLA+ models of the allforall-suite's programs (`src/utils`), model-checked with
TLC and, in large part, proved with TLAPS.  The suite is four packages of small
C++ programs without a common library:

| package    | what it has                                                      |
|------------|------------------------------------------------------------------|
| `devutils` | process tools: `parg`, `retry`, `run`; text tools: `buniq`, `fill`, `kp`; `var`, `whichall`, `dwipe`, `fwipe`, `lockout`, `nothing`, `serve`, `sysrng` |
| `inetin`   | network tools: `nprobe-tcp`, `nprobe-udp`, `stls`, `sttp`, `sdns`, `netst`, `resolv`, `furl` |
| `bintool`  | file tools: `bsplit`, `bmerge`, `bpatch`, `bhxx`, `exe`, `bgrep`, `filecmp`, `hashbin`, `be`, `bce`, `bin2cl`, `bincat` |
| `timex`    | a library: dates and times, time zones, sleeping, formatting      |

The programs do not call one another.  What interacts is inside each: threads
over shared counters or a mutex, a parent and its child over a pipe and signals,
handlers of an event loop, callbacks of a library's thread, two programs over one
directory, an object under a sequence of calls; and, from outside, signals,
clocks that are set, peers that stay silent, files and processes that change.

## 1. Inventory

State, operations, what is hard, and what makes the component correct.  The
lines of every definition are in `PROJECT.json` under `map`, and the hazards,
each at its line, under `hazards`.

**parg** (`devutils/src/parg.cpp`) reads items, groups them into batches and runs
a command for each on a pool of threads.  State: the batches, the atomic `next`
and `failed`, a mutex for prompts, one child per worker.  Hard: the check of
`failed` and the claim of a batch are two steps, children end in any order, fork
and thread creation fail, the prompt may find no input.  Correct if each batch is
run once, in order, by one worker; the status is failure exactly if a command
failed; `-e` stops the run soon; no token is lost between input and arguments.

**retry** (`devutils/src/retry.cpp`) runs a command until it succeeds, with a total
deadline.  State: attempt, deadline, the child and its process group.  Hard:
`setpgid` is called by parent and child at once, the command ends at any point of
the polling, descendants outlive it, SIGCHLD may be ignored.  Correct if no two
attempts overlap, the status tells the truth, nothing of the last attempt's group
outlives a timeout, and a timed run ends.

**run** (`devutils/src/run.cpp`) launches one command with redirections; failures
before `exec` come back through a pipe that `exec` closes.  State: both processes'
descriptor tables, the pipe.  Hard: who holds the write end when, and numbers that
collide with redirections.  Correct if the status is right, the command inherits
neither end, the parent never waits for a command it does not want to wait for,
and every child is reaped.

**nprobe-tcp / nprobe-udp** (`inetin/src`) try an address a number of times against
a timer, each attempt in an event loop of its own.  State: the flag `completed`,
the timer, the socket, the queued handlers.  Hard: the handlers' order.  Correct
if each attempt has one verdict and a true one, and ends.

**stls** connects to one address of a host after the other, shakes hands against
a deadline and reports.  State: the address, the socket, the two deadlines.  Hard:
waits that are repeated, a peer that answers a little at a time, signals.  Correct
if it is held no longer than its timeouts allow, success is a verified handshake,
and no socket stays open.

**sttp** makes one HTTP request with libcurl.  State: the output, upload and header
files, the name the server gave, what libcurl has delivered.  Hard: redirects whose
headers arrive too, a file opened by the first byte of the body, errors that show
only when buffers are written out.  Correct if status 0 means a whole body in the right
file, and a failure of that file is not reported as the network's.  (Local failures of
the headers' file and of the upload do end the transfer as libcurl's, and what standard
output loses is not noticed: that is the code, and `Sttp` has it.)

**sdns** asks servers for several types of record at once; c-ares' event thread
calls back into `run_server`'s results.  Hard: the wait may give up while callbacks
run.  Correct if no callback writes to results that are gone and no record leaks.

**netst** joins the kernel's sockets with the descriptors in `/proc`, which change
meanwhile.  Correct if what is printed was true at some time of the run, and what
was true all the time is printed.

**timex classes** (`timex/src/class_*.cpp`): Date, Time and Timedate with 64-bit
years, and methods that refuse what they cannot represent.  Hard: limits, month
ends, leap years, borrowing.  Correct if arithmetic is exact and a refusal leaves
the object alone.

**timex zones** (`func_zones.cpp`): the zone a process has selected, shared by its
threads under a mutex and detected on first use; queries of ICU, whose exceptions
may come while the mutex is held.  Correct if a selection holds until the next one,
and an answer is true for the whole interval it names.

**timex sleep** (`func_sleep.cpp`, `zsleep/`): sleeping for a time or until a date,
one system call on POSIX systems and one or several waits on Windows.  Hard:
signals, timers that cannot be created, the wall clock set during the sleep, dates
the calendar does not have, an argument of `Sleep` that means "for ever".  Correct if no
call that says it has slept is early, it waits for the moment named, and it returns
(which the code does not keep for dates 49.7 days off: section 4).

**Tools over files and text**, each one pass with a result that has to be right:
`bsplit` and `bmerge` (chunks in one directory, left by several calls), `bpatch` (a
file rewritten in place while others may write it), `bhxx` (dumps and their
reversal), `bgrep` (matches with context), `exe` (strings and an output that must
not be the input), `buniq` (grouping of records), `fill` (combinations), `kp`
("Kut and Paste": replacement of text in lines), `furl` (URLs built and taken
apart).

The remaining programs keep no state from one step to the next: section 7.

## 2. Modules

| module | models | kind |
|---|---|---|
| `JobRun` | what the user of parg is promised | abstract specification |
| `Parg` | `runBatches`, `confirm`, `execute` | threads, children; refines `JobRun` |
| `PargBatch` | `split`, `makeBatches`, placeholders, main's special cases | algorithm in three steps |
| `Retry` | retry's loop, deadline, process group | process, child, clock |
| `RunLaunch` | run's launch protocol | two processes, descriptors |
| `Calendar` | tx::Date's operators and the count of days they are compared with | operators |
| `Timedate` | an object under calls, day loops step by step | state machine |
| `SysClock` | the monotonic and the wall clock, which somebody sets | shared clocks |
| `Zones` | tx::zone: selection, detection, queries; ICU as constants | threads, a mutex |
| `Sleep` | tx::sleep on POSIX and on Windows | threads, signals, timers |
| `Timex` | `Zones`, `Sleep` and `SysClock` in one process | composition |
| `NProbe` | both probes | event loop, timer, network |
| `Stls` | stls | program, peer, clock |
| `Sdns` | sdns | program and event thread |
| `Sttp` | sttp | program, libcurl's callbacks, disk |
| `Netst` | netst on Linux | program and a changing system |
| `Inetin` | whichever of these five is started | composition |
| `SplitMerge` | bsplit and bmerge on one directory | sequences of calls |
| `Bpatch`, `Bhxx`, `Bgrep`, `Exe` | the bintool programs of those names | state machine over a file |
| `Buniq`, `Fill`, `Kp`, `Furl` | the text tools of those names | state machine over a text |
| `Walk` | a loop over a sequence as a value, for `Furl` | operator |
| `Tools` | whichever of these nine is started | composition |
| `PargProofs` (on `Parg` and `PargBatch`), `RetryProofs`, `RunLaunchProofs`, `TimedateProofs`, `TimexProofs`, `InetinProofs`, `ToolsProofs`, `TextProofs` | theorems | TLAPS |
| `MC*` | constants for TLC | instances |

Correspondence, in short:

* `Parg`: `pc[t]` is where thread `t` stands in the worker's loop; `next`, `failed`
  and `index[t]` are the code's variables; `outcome` and `late` are history.  The
  steps are the accesses to shared state: `Check` (the load of `failed`), `Claim`
  (`fetch_add`), `Confirm` (under the mutex, in one step since nothing else is done
  under it), `Fork`, `Wait` (waitpid returns), `Store`.  The main thread's `Spawn`
  interleaves with workers already started, and `SpawnFails` is the exception of
  `std::thread`'s constructor, which ends the process.
* `PargBatch`: an input is a sequence of characters of a small alphabet; `Find`
  restarts after the delimiter as `input.find(d, start)` does.  The command line is
  one of `Command`, with the placeholder once, twice and not at all in an argument.
* `Retry`: one action per system call of the parent; `proc[a]`, `grouped[a]` and
  `kin[a]` are the child of attempt `a`, whether it is in its own group, and what it
  started there.  `expired` says that the deadline has passed, and time is otherwise
  left out: the grace period and delays are "elapsed or not".  `opt.autoreap` is
  SIGCHLD ignored, `opt.killable` that the group may be signalled at all.
* `RunLaunch`: descriptors 0 to `MaxFd` with what is behind each, for both
  processes.  `Init` lets run start with any set of them open.
* `Timedate`: the last four fields of a time are one field of ticks.  `CountDay` is
  one turn of the loop in `add_day` or `sub_day`, on a copy, and `Finish` the
  assignment of the copy.  `AddMonth` and the other month calls take one step.
* `Zones`: a caller's `pc` is where it stands between taking and giving back the
  mutex; `Call` does what a call does before it needs the mutex (normalisation, the
  reading of the clock).  A zone's history is a sequence of periods, the first
  without a beginning.  `Query` is one step, since it touches nothing shared.
* `Sleep`: one action per system call.  A sleeper in `nanosleep`, `deadline` or
  `until` is inside the call of that kind; `Interrupt` is a signal, after which
  `Resume` makes the call again; `Sleep` and `timer` are Windows' two ways to wait a
  bounded time, and `check` is the loop that reads the wall clock again; `forever` is
  `Sleep(INFINITE)`, which an argument of `LongestSleep` is.  A call whose parts are no
  Date or Time ends as `thrown`: their constructors throw.  A thread is woken up to
  `MaxLag` ticks late.
* `NProbe`: an operation is pending, queued (its handler is ready, with a code) or
  finished; handlers run one at a time, in any order among the queued ones.
  `reached` is history: whether the peer did answer.
* `Stls`: `now` and the two limits are milliseconds in ticks; `WantsMore` is
  SSL_connect asking to wait, with the time left of the handshake's one deadline.
* `Sdns`: `EventThread` writes a result at any moment at which a query is open;
  `alive` says that `run_server`'s results still exist, and `late` that something
  was written when they did not.
* `Sttp`: one action per callback of libcurl and per local file.  `lost` is the set of
  streams that have taken bytes which a full disk did not; `Flush` looks at one of them.
  `aborted` says which callback has ended the transfer, `disposed` which of the headers
  seen so far gave a name for `-Dd`, and `name` which of them the file was made with.
  A timeout is `-t`'s at any time, or the connection's (`-T`, or libcurl's default) as
  long as a request may still need one.
* `Netst`: `ever` and `always` are history: the processes that have held a socket at
  some time, and those that have all the time.  `System` is what others do between
  two system calls of netst.
* `SplitMerge`: a chunk is a sequence of blocks `<<job, position>>`, so that a block
  in the wrong place shows; file names are prefix, number and padding.
* `Tools`: each program is a record with its options, its input, where it is and
  what it has written.  Characters and bytes come from an alphabet with one of every
  kind the code distinguishes.  The regular expressions of `kp`, LIEF and Capstone
  are external: of the first, escaped and unescaped characters; of the others, one
  record of each kind.  `kp.lost` says that the stream's last buffer was lost when it was
  closed, behind the code's back; `furl.asked` is the part that the second call asks for,
  with the name of a parameter or without.

Each mutant (an operator whose comment begins with *Mutant*) is a plausible wrong
version of the definition that follows it; no specification uses it.

## 3. Runs

| run | bounds | shows |
|---|---|---|
| `parg_pool` | 3 threads, 4 batches | with `-e`, at most one late command for each of the other threads (`BoundedOvershoot`); each batch once and a true verdict (`ImplementsJobRun`); the run ends if the commands do (`Terminates`); a command that hangs holds up its own worker only (`OneLiveWorkerSuffices`) |
| `parg_batches` | all texts of 5 characters or fewer | no token lost, duplicated or cut (`TokensPreserved`); sizes by `-n` and `-L`, and the command alone exactly if there are no tokens and no placeholder (`BatchShape`); placeholders replaced where they should be and nowhere else (`Substituted`) |
| `retry` | 3 attempts | attempts do not overlap (`NoCommandOutlived`), the status (`VerdictMatchesAttempts`), the group after a timeout (`TimeoutSweepsGroup`), both kinds of run end (`RunEnds`) |
| `retry_leftovers` | same | a counterexample: section 4 |
| `run_launch` | 5 descriptors, any of them open at the start, a command that can or cannot be executed | `TypeOK`; a true status (`ReportIsTrue`), no end of the pipe in the command and the redirections asked for (`CleanDescriptors`), no child left (`ChildReaped`), no wait for nobody (`ReadEnds`) |
| `run_lost_report` | same | a counterexample |
| `timedate` | one call on each of the starting dates; a day of 2 x 2 x 2 ticks; two cycles of 400 years and 6 | every method against a count of days and of months (`ArithmeticIsRight`), and what a refusal leaves (`FailureIsClean`) |
| `timex` | two threads on zones with a call each, or one that sleeps; 14 ticks, 2 signals, the clock set once | a selection holds (`SelectionHolds`), answers are true for their interval (`InfoIsSound`), the moment waited for (`WakeIsExact`), not early (`NeverEarly`), every call returns but a sleep that was told to wait for ever (`CallsEnd`) |
| `inetin` | timeouts of up to 2 ticks; 2 addresses, servers, types of record, responses before the last, pieces of a body; 2 sockets, 2 processes, 2 changes; 3 attempts on 2 endpoints | `TimeoutHolds` and `VerdictSound` (stls), `CallbacksSafe` (sdns), `HttpDelivers` (sttp), `SocketsFound` (netst), `VerdictsTrue` and `Prompt` (nprobe), and that every program ends (`ProgramsEnd`) |
| `netst_shared` | same | a counterexample |
| `tools` | inputs of up to 6 characters, 17 for `bhxx`, 10 for `exe` and 11 for `furl`; 3 calls of bsplit and bmerge with up to 11 chunks | one property for each tool: a round trip (`MergeIsSound`, `DumpIsFaithful`, `FurlRoundTrip`) or the result against a reference definition (`BuniqSelects`, `KpReplacesText`, `FillComplete`, `SearchIsExact`), and what failures leave of files (`PatchIsExact`, `ExeIsSound`) |
| `split_merge_stale` | 3 calls | a counterexample |

Several properties are conjunctions of named parts, each commented where it is
defined: `RunEnds` of a timed and an untimed run, `MergeIsSound` of a complete and a
partial split, `ArithmeticIsRight` of days and of months, `DumpIsFaithful` of the dump
and its reversal.

Why the bounds are enough.  Parg: workers interact through two variables, so three
workers and one batch more than workers give every order of check, claim and store, and
a batch claimed by a worker that has been round already.  Retry: three attempts are a
first, a middle and a last.  RunLaunch: the three standard descriptors and two more, for
the ends of the pipe, or for one end and a redirection's file.  SplitMerge: eleven
chunks pass from one digit to two; three calls are split, split again, merge.  Timedate:
a call depends on the object it finds and on nothing else, so that one call from each
interesting date stands for sequences; the range is chosen so that it is two cycles of
400 years and then ends.  Zones: the mutex is for two, and a second call of a thread
finds nothing that the other thread could not have left; histories have a transition
before the epoch, one into and one out of summer time, none at all, and offsets that are
not whole seconds, and queries are at a transition, before it and after the last second
ICU knows.  Sleep: threads that sleep share nothing but the clock, so that one is
enough; two signals are one after a resumed wait; a day has four ticks and a
millisecond two, so that a wait of three ticks is rounded up to one day; the last day
that can be converted and the calendar's last are among the dates asked for. A timer is
as long as the day, so that a date may take three of them, and `Sleep`'s largest
argument is longer than a day and shorter than the longest wait for a date, as the 49.7
days are. stls: two addresses are one that fails and one that is tried after it; the
handshake may wait any number of times until its deadline. sdns: two queries answered
in both orders, and a server after one that gave up. sttp: two responses before the
last are one in the middle; two pieces, one written before the other fails. netst: two
processes are one before and one after the socket changes hands. The tools' inputs have
every combination of two neighbours, and the ends of a line, a window or the file
within them.

**Fairness.** `Parg`: each thread's own steps are weakly fair (threads are scheduled),
a command's end is not: `Terminates` assumes it for every command,
`OneLiveWorkerSuffices` for one worker. `Confirm` is one of the steps that are fair:
both properties assume that the user answers each prompt, or closes the input. `Retry`:
weak fairness of the parent's steps and of the clock; `UntimedRunEnds` assumes that
commands end, `TimedRunEnds` does not. `RunLaunch`: both processes are scheduled, the
command may run for ever, and `read()` need not fail. `Inetin`: each program's own
steps are weakly fair; time passes in stls's `select` (strong fairness of `TlsTick`: a
peer that answers disables it again and again without stopping the clock), and libcurl
ends a transfer when `-t` is over (weak fairness of `TransferTimesOut` with `-t` only:
the limit of connecting need not come, since a connection may be made). Nothing is
assumed of peers, servers, other processes or signals. `ProgramsEnd` is about sttp only
with `-t`, and about nprobe only if its clock runs; `Prompt` does not assume that.
`Timex`: time passes, each thread's steps between and after system calls are taken, and
the mutex is free for all as long as its holder moves; signals, failures and clock
changes may or may not come. Deadlock is checked in every run: a program that has ended
stutters explicitly.

## 4. Findings

1. `retry`: when SIGCHLD is ignored, `waitpid` fails in the grace period and
   `terminate_process_group` returns without the SIGKILL its comment promises
   (retry.cpp:143-155); members of the group that ignored SIGTERM go on running.
2. `run`: started with a standard stream closed, the error pipe may get that number
   and is overwritten by the redirection (run.cpp:131, 171); with `-Q` the status is 0
   for a command that was never executed.
3. `bmerge` joins whatever chunks the directory has (bmerge.cpp:123-132), those of an
   earlier and longer split as well, although its page says that it reassembles what
   bsplit split.
4. `netst` keeps one process for a socket, the last one found in `/proc`
   (netst.cpp:359), so that `-i` does not show a socket that its process shares with
   a later one, although the page says that it shows the sockets the process owns.

Outside the runs, read in the code:

* exit statuses: `sttp` ends with 28 after a timeout (sttp.cpp:587; its page,
  docs/sttp.md:92, lists 2);
  `stls` with 1 after a failed connection or a timeout (stls.cpp:723, 849; its page
  lists 2); `sdns` with 0 if any of a server's queries was answered (sdns.cpp:295-304;
  its page lists a failed query as non-zero); `netst` with 1 when no socket matches
  (netst.cpp:935-940; its page has no 1).
* `netst` compares `-p`, `-r` and `-pp` with the whole local address (netst.cpp:772),
  so that the page's examples `-p :443`, `-r 80` and `-pp 8080` match nothing.
* `sttp` writes the body to standard output without a flush or a look at it
  (sttp.cpp:357), and flushes the headers' file without looking at the result
  (sttp.cpp:572), so that status 0 can go with either cut off by a full disk;
  `HttpDelivers` says what status 0 does mean.  A header that cannot be written
  (sttp.cpp:384) and an upload that cannot be read (sttp.cpp:397) come out as status 3,
  a failed transfer.
* `kp` looks at the output's stream as soon as it has taken the text (kp.cpp:341, and
  332 for standard output) and not after it is closed: a text that fits in the buffer
  and is lost on a full disk goes with status 0 (`kp.lost`).
* `kp` without `-mi` replaces whole lines (kp.cpp:271, and its page at docs/kp.md:15),
  but the page's examples `kp -s foo bar` (docs/kp.md:32-36, "Replace all occurrences")
  and `kp -R 10:20 -s error warning` (50-54) have no `-mi`.
* on Windows `tx::sleep` cuts a wait to MAXDWORD milliseconds to go on with the rest
  (win/sleeps.cpp:33-45), but MAXDWORD is INFINITE and `::Sleep` does not return:
  sleep_long for a date 49.7 days off or more waits for ever, and so does sleep_all
  where no timer can be had.  `CallsEnd` excepts the pc `forever`, and `WakeIsExact` says
  which calls can come there.
* `fwipe` overwrites no more than the first 1024 bytes (fwipe.cpp:43-50), where its
  page says "up to its size".

## 5. Proofs

Every theorem is about the specification that the runs check, for every value of its
constants that the named assumptions allow; TLC evaluates these assumptions on each
instance.  Except for the calendar's lemmas, each is proved from an inductive invariant,
with one lemma for each action (or for a group of actions that end in the same way) and
`PTL` for the temporal step.

**parg** (`PargProofs`; any number of threads and batches, `BoundsAssumption`: both
positive).  `TypeCorrect`, `OvershootBounded`, `PoolImplementsJobRun`.  `TypeOK` alone
is not inductive: that a claimed batch goes from "not taken" to "taken" and never back
needs to know that a worker's `index` is below `next` and that no two workers hold the
same one (`Claims`); that what the abstract run calls *result* matches the state of the
worker that holds the batch (`Effects`); that only started threads move, and that the
main thread returns after all have ended (`Threads`); and that `failed` is set exactly
if there is a failed result, or its worker is about to set it (`Flag`).  Every action
preserves it, and one lemma for each shows that it is a step of `JobRun` or a stutter.
The bound on late commands needs one conjunct more (`OvershootInv`): it counts the
workers that are past the check when `failed` is set, and the one that set it is not
among them.

**parg's batches** (`PargProofs`; texts of any length, any `-mx` and `-L`).
`BatchesPlanned`, `BatchesShaped`, `TokensKept`, `ArgumentsSubstituted`.  `BatchInv`
says what each step of `main` has made of the text; the work is in the operators.
`split`'s loop over blanks, its loop with `find`, the loop over lines and the batches'
sizes are recursive functions of the position, and each fact about one is an induction
over the set of the positions for which it holds (`NatSetInduction`, from the
well-foundedness of the numbers): the library's induction takes an operator, which no
backend can instantiate, a set is a value like any other.  `GroupInv` is the invariant
of the `-L` loop: after `k` lines every batch done has the tokens of exactly `maxLines`
lines that hold one, in order, and the batch begun those of fewer.  `TokensKept` has
three parts.  The batches put end to end are the tokens (`PlannedFlat`).  The loop over
blanks has found, in front of each position, the words that end there, in order
(`Found`); there is one such list (`WordsUnique`), so it is the one of `WordsOf`, and
reading the text line by line finds the same (`BlankLines`).  The loop with `find`
leaves nothing between two pieces but a delimiter (`EdgeFacts`), so no token holds one
and the other characters are all in the tokens (`DelimitedGood`, `PiecesLetters`).

**retry** (`RetryProofs`; any number of attempts).  `TypeCorrect`, `NoneOutlived`,
`VerdictTrue`, `GroupSwept`.  `Processes` says where the process of each attempt is by
where `main` is; `Record` what has been seen of each attempt; `Deadline` that the
steps of a timeout are taken with `-m` and after the deadline only; `Group` that the
child is in its own group whenever a signal is sent, which is what the race of the two
`setpgid` calls is about.

**run** (`RunLaunchProofs`; a descriptor table of any size, with any set of its
descriptors open when run starts; `FdAssumption`: the three standard streams have
descriptors).  `LaunchTypes`, `LaunchReported`, `LaunchDescriptors`,
`LaunchReaped`.  `PipeInv` follows the child's write end: until exec it is the only
close-on-exec descriptor, and only a redirection that lands on its number takes it
away, which is the case of finding 2; the child closes its read end first, and there
is no other.  `ParentInv` is about the parent's table when the child gets its copy,
`StreamInv` says that a redirection once made is not undone, and `OutcomeInv` what has
become of the child when the parent has read an errno or end-of-file.

**Calendar** (in `TimedateProofs`; every date, any `Max \in Nat`): a step of the day
loops is exactly one day (`NextDayCounts`, `PreviousDayCounts`), and the cycles taken in
one go are 146097 days each (`AddedCyclesCount`, `SubtractedCyclesCount`).

**Timedate** (`TimedateProofs`; any range of years, any length of hour, minute and
tick, any number of calls with any arguments).  `AlwaysADate`, `ArithmeticExact`,
`FailsCleanly`.  The invariant says, while days are counted, that the copy's instant
and the days left add up to what was asked for (`UnderWay`); the calendar's lemmas make
each turn of the loop keep it, and when it is over what is left is nothing.  That a
loop which runs into the calendar's end was asked for something beyond it follows from
the same sum.  On the way it is shown that the overflow guards of `add_time_units` and
`sub_time_units` are never the reason of a failure: the calendar's end comes first.

**Zones** (`TimexProofs`; any number of threads, names, zones and transitions, with
`ZoneAssumption`: identifiers are canonical or not known, histories increase).
`ZonesTypeCorrect`, `ZoneStaysSelected`, `IntervalsAreSound`.  `Exclusion` relates the
mutex to where its holder is: detection happens under it and only while nothing is
selected, which is why it cannot overwrite a selection that was made after it began.
`PeriodExists` and the lemmas after it show that the period of a second exists, is
one, and is the same for all seconds of the interval answered.

**Sleep** (`TimexProofs`; any number of threads and signals, any lengths of day,
millisecond, timer and `Sleep`; `SleepAssumption`).  `WakesWhenAsked`,
`SleepsLongEnough`.  On POSIX the invariant relates the rest that `nanosleep` hands
back to the time lost in handlers (`Posix`); on Windows it says that the time spent
and the time left are at least what was asked, before, in and after each bounded wait
(`Windows`).  That what is left of a call for a time is less than a day, and a day less
than `Sleep`'s largest argument (`SleepAssumption`), is why such a call never waits for
ever.  `NeverEarly` is an action property proved from it.

**inetin** (`InetinProofs`; any timeout and any number of addresses, endpoints and
attempts). `StlsTimeout` and `StlsVerdict` from `TlsInv`, in which `TlsTime` bounds each
wait by the timeouts of the addresses tried so far and the handshake's one deadline;
`NProbeVerdicts` from `ProbeInv`: an attempt that is not decided still has its timer,
not cancelled, and its operation (`Undecided`), so that the handler that decides is the
only one, and an operation that came back well did so because of the peer (`IoInv`).
`SdnsCallbacks` from `DnsInv`: the event thread writes only while a query is open, no
query is open once `run_server`'s results are gone, and every result printed is
completed (`QueryInv`); the exit status counts the servers answered (`ServerInv`).
`SttpDelivers` from `HttpInv`: what the body's file has lost, and a transfer that
`write_callback` has ended, show as an error of the output (`FaultInv`); each stage has
only what it can have, and one that ends well has written every piece (`StageInv`); the
name kept is the one given last, and headers that come after the file is made are
trailers (`NameInv`). `NetstFinds` from
`NetInv`, for any tables, processes and sockets (`NetstAssumption`): a socket that has
had one owner all the time is in the list from the answer to its request on, and has its
owner's number once that process has been looked at, whatever else changes meanwhile
(`ListInv`).

**bgrep** (`ToolsProofs`; any files, patterns, contexts and limits: `GrepAssumption`,
`SizeAssumption`).  `BgrepExact` from `GrepInv`: what has been reported so far are the
occurrences in front of the offset, each once, in order and with its window, and no
more of them than `-m` allows; the loop ends when it has met every offset or one
occurrence too many.

**bsplit and bmerge** (`ToolsProofs`; any number of calls with any sizes and prefixes,
`JobsAssumption`).  `MergeSound` from `SplitInv`: the chunks that the last split has
written follow each other in the file (`ChunksFollow`), where one that was interrupted
may be short, and a merge that takes these and no others has, when it comes to a
chunk, the bytes in front of it (`MergeInv`).  That numeric order is the order of the
chunks needs no bound on their number.

**bpatch** (`ToolsProofs`; any file, patch text and offset, `PatchAssumption`).
`BpatchExact` from `PatchInv`: until it is opened for writing the file is as it was but
for what the other program wrote, and what is in memory is the file with the bytes
replaced, said position by position.  What the text of the patch stands for is a
recursive function; that it exists and gives bytes is proved by induction over the set
of the positions of the text (`NatSetInduction`, itself from the well-foundedness of
the numbers: an induction over a set, not over an operator).

**fill** (`ToolsProofs`; any templates, names, lists of values and limit,
`FillAssumption`: the lists are not empty).  `FillsComplete` from `FillInv`.  The
names of the template, the product of the numbers of values, the loops within loops and
the removal of repetitions are recursive functions: `DistinctFacts` says that a
repetition is all that is dropped, `TooManyFacts` that looking at each factor before it
is multiplied answers whether the whole product is over the limit, and
`ListsAreAssignments` that the loops meet every assignment of values to names.

**exe** (`ToolsProofs`; any file, any kinds of information, `ExeAssumption`).
`ExeSound` from `ExeInv`: what is held is the file on disk until the output is opened,
and then what was collected from it.  `ScanHeld` is the invariant of the search over
the characters: the text held is the run that ends here, as long as it can be to the
left, and the strings found are those of the runs that ended before; from it
`ScanUnitsFacts` has every longest run once.

**kp** (`ToolsProofs`; any file, any OLD but the empty one, any NEW, any range of lines,
`KpAssumption`).  `KpReplaces` from `KpInv`: a call that ends well has counted what
`EditLines` makes of the lines or handed it to the output, and that has it unless the
last buffer was lost.  The rest is about operators.
`MatchMeansText` says that an escaped OLD matches where it stands as text and nowhere
else; `Listing` is the invariant of the search from left to right, and `GreedyUnique`
says that there is one set of occurrences without overlaps of which none is left out
for a later one, so that what is found is what the reference chooses;
`ReplacementIsNew` that formatting takes back the escapes of NEW; `EditIsExpected` puts
these together for a line.  `FlattenLaid` says where the parts of a sequence stand when
they are put end to end; from it `JoinFacts` has the lines that are written read back
as they were, with as many newlines as the input has.  std::regex itself is modelled
from the way kp uses it, for single characters and the dot.

**bhxx** (`TextProofs`; any file, layouts, places to seek to and lengths,
`BhxxAssumption`).  `BhxxFaithful` from `BhxxInv`: between two lines as much of the
input is read as the dump shows (`LeftOf`), every byte of it is found in the dump at its
offset, itself or in a line that a `*` stands for (`FoundIn`), the line that a repetition
is compared with is the last one shown (`LastShown`), and the lines so far convert back
to the bytes read (`DumpRestored`).  A line's hex text is read by `-r` as a scan with a
state (`TakeAll`), again a recursive function; `GroupsReversed` says where the bytes of a
group stand when the group is written backwards, and `LineReversed` puts the two together:
any line that is dumped, in whichever layout, is taken apart into its bytes.

**furl** (`TextProofs`; any texts and parts over the 256 bytes, of any length,
`FurlAssumption`).  `FurlFaithful` from `FurlInv`: what the first call has printed is the
encoding of its text, or the URL built from parts that were accepted; and what the
second call answers is what it was asked for, with its status (`Told`).  The rest are
lemmas about the conversions.  The loops of `url_decode`, `parse_port` and `parse_query`
are one operator, `Through` of `Walk`, whose value is a recursive function;
`WalkedFunction` says what that function does at each position.  From it
`DecodesEncoded` has every byte decoded as it was encoded, `PortRead` the number read that
was written, and `QueryRead` the parameters read that were written, in order: an encoded
text has no delimiter (`Reserved`), so that every `&` and `=` in a query is one that
was put there.  `BuiltRead` puts these together for a URL: where its first `#`, `?`,
`://`, `/` and `:` are follows from what its parts do not contain (`WellPlaced`).

Model-checked only:

* liveness (`Terminates`, `RunEnds`, `ReadEnds`, `ProgramsEnd`, `Prompt`, `CallsEnd`,
  `OneLiveWorkerSuffices`), which is out of the prover's reach, as `ENABLED` is;
* `BuniqSelects`, whose result is built by folds over
  sequences: a fold takes an operator as its argument, and no backend can
  instantiate a fact about all operators;
* the runs that end in a counterexample.

## 6. Plan

Done: all modules of section 2, and the theorems of section 5.  What could come next,
in this order: `Buniq` with its folds written as recursive functions and an
induction over positions, as for parg's batches, bpatch, fill, kp, bhxx and furl.

## 7. Not modelled, and why

* Option parsing, messages, colours and statistics of every program: options appear
  as the set of values they can produce.
* `httplib.h` (24336 lines, more than half of the repository's) is third-party code,
  and `serve` only mounts a directory with it.
* `resolv` (one library call for each address), `whichall`, `var`, `sysrng`,
  `nothing`, `lockout`, `fwipe`, `dwipe` (ask, then one removal), `be`, `bce`,
  `bin2cl`, `bincat`, `filecmp` and `hashbin` (read, compute, print): no state that a
  later step depends on.
* timex: `available_zones` lists ICU's identifiers; comparisons and getters change
  nothing; of `func_time.cpp` the offset that `timestamp_fields` adds is in `Zones`,
  and the text it formats is left out.
* netst's Windows and FreeBSD backends read one table that has both socket and
  process; exe's headers and disassembly are LIEF's and Capstone's; `kp -E` hands its
  expression to std::regex; `furl` prints neither the user part nor the fragment of a URL,
  and `Furl` takes them off.
* What the code does and the models have, but no property forbids, because the code does
  it: parg's abort when a thread cannot be started (`SpawnFails`; `JobRun` allows it at
  any time); a kill or a full disk between bpatch's truncation and the end of its write,
  and what another program appends meanwhile; a hard link to exe's input; windows of
  bgrep whose size wraps around for a huge `-C`; what sttp's standard output and headers'
  file and kp's last buffer lose; `Sleep(INFINITE)`.  The properties exclude these cases
  by name and say nothing of them.  parg's second look at its input file
  (parg.cpp:529) is not in `PargBatch`, which takes the text as read; numbers are
  unbounded in `Fill`, where the property is that the check comes before the product.
* Within the models: process numbers are never reused (`Retry`, `Netst`); writes do
  not fail in `SplitMerge`, where the code ignores such failures; two programs of
  `Tools` never run at the same time, except that another one may write bpatch's file;
  attempts are not counted to 2^32 in `NProbe`; local time is UTC in `Sleep`.
