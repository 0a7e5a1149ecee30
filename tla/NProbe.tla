------------------------------- MODULE NProbe -------------------------------
(***************************************************************************)
(* inetin's nprobe-tcp and nprobe-udp: a number of attempts to reach a     *)
(* host, each with a timeout.  An attempt starts a timer and an            *)
(* asynchronous operation on one io_context and runs it until no handler   *)
(* is left.  Both may complete before either handler has run, so that      *)
(* cancelling or closing the other comes too late: the flag "completed"    *)
(* decides which of the handlers counts.                                   *)
(*                                                                         *)
(* An operation or a timer is pending, then queued with its error code     *)
(* ("ok", "error", "aborted"), then finished once its handler has run.     *)
(***************************************************************************)
EXTENDS Integers, Sequences

CONSTANTS MaxAttempts, MaxEndpoints   \* largest -t, most addresses of the host

ASSUME AttemptsAssumption == MaxAttempts \in Nat \ {0}
ASSUME EndpointsAssumption == MaxEndpoints \in Nat \ {0}

VARIABLES
  opt,        \* protocol, attempts, addresses of the host
  pc,         \* main(): between attempts, running one, or done
  timer,      \* the timer of this attempt
  io,         \* the operation of this attempt: connect, or send then receive
  endpoint,   \* the address being tried
  socket,     \* the socket of this attempt: open or closed
  completed,  \* the flag
  result,     \* the Result being filled in
  results,    \* the Results of finished attempts
  reached,    \* history: whether this attempt's peer accepted or answered
  exit        \* exit status

probeVars == <<opt, pc, timer, io, endpoint, socket, completed, result, results,
          reached, exit>>

-----------------------------------------------------------------------------
ProbeOptions == [proto : {"tcp", "udp"}, attempts : 1 .. MaxAttempts,
            endpoints : 1 .. MaxEndpoints]

Codes == {"ok", "error", "aborted"}

\* Queued(o, code): operation o is complete and its handler waits to be run.
Idle == [op |-> "none", state |-> "finished", code |-> "ok"]
Pending(op) == [op |-> op, state |-> "pending", code |-> "ok"]
Queued(op, code) == [op |-> op, state |-> "queued", code |-> code]

\* close() or cancel() completes what is pending, and changes nothing else.
Abort(o) == IF o.state = "pending" THEN Queued(o.op, "aborted") ELSE o

NoResult == [success |-> FALSE, timed_out |-> FALSE, error |-> FALSE]

ProbeInit ==
  /\ opt \in ProbeOptions
  /\ pc = "next"
  /\ timer = Idle /\ io = Idle
  /\ endpoint = 1
  /\ socket = "closed"
  /\ completed = FALSE
  /\ result = NoResult /\ results = <<>>
  /\ reached = FALSE
  /\ exit = -1

-----------------------------------------------------------------------------
(* main().                                                                 *)

\* probe(), nprobe-tcp: the timer and the connect to the first address.
TcpStart ==
  /\ pc = "next" /\ opt.proto = "tcp"
  /\ pc' = "run"
  /\ timer' = Pending("wait")
  /\ io' = Pending("connect")
  /\ endpoint' = 1 /\ socket' = "open"
  /\ completed' = FALSE /\ result' = NoResult /\ reached' = FALSE
  /\ UNCHANGED <<opt, results, exit>>

\* probe(), nprobe-udp: the first address a socket can be connected to; if there is
\* none the attempt has failed and nothing is run.
UdpStart ==
  /\ pc = "next" /\ opt.proto = "udp"
  /\ \/ \E e \in 1 .. opt.endpoints :
          /\ endpoint' = e /\ socket' = "open"
          /\ pc' = "run"
          /\ timer' = Pending("wait") /\ io' = Pending("send")
          /\ result' = NoResult
     \/ /\ endpoint' = opt.endpoints /\ socket' = "closed"
        /\ pc' = "store"
        /\ timer' = Idle /\ io' = Idle
        /\ result' = [NoResult EXCEPT !.error = TRUE]
  /\ completed' = FALSE /\ reached' = FALSE
  /\ UNCHANGED <<opt, results, exit>>

\* io.run() returns: no operation is pending and no handler queued.
RunReturns ==
  /\ pc = "run"
  /\ timer.state = "finished" /\ io.state = "finished"
  /\ pc' = "store"
  /\ result' = [result EXCEPT !.error = @ \/ result.timed_out]
  /\ UNCHANGED <<opt, timer, io, endpoint, socket, completed, results, reached, exit>>

\* results.push_back(); the socket is destroyed with the attempt.
Store ==
  /\ pc = "store"
  /\ results' = Append(results, [result |-> result, reached |-> reached])
  /\ pc' = IF Len(results) + 1 = opt.attempts THEN "exit" ELSE "next"
  /\ socket' = "closed"
  /\ UNCHANGED <<opt, timer, io, endpoint, completed, result, reached, exit>>

Exit ==
  /\ pc = "exit"
  /\ exit' = IF \E i \in DOMAIN results : ~results[i].result.success THEN 1 ELSE 0
  /\ pc' = "done"
  /\ UNCHANGED <<opt, timer, io, endpoint, socket, completed, result, results, reached>>

-----------------------------------------------------------------------------
(* The handlers.                                                           *)

attempt == <<opt, pc, endpoint, results, reached, exit>>

\* Mutant: the timer's handler looks at its error code only.
TimerIgnoresFlag ==
  /\ timer.state = "queued"
  /\ timer' = Idle
  /\ IF timer.code = "ok"
     THEN /\ completed' = TRUE
          /\ result' = [result EXCEPT !.timed_out = TRUE]
          /\ socket' = "closed" /\ io' = Abort(io)
     ELSE UNCHANGED <<completed, result, socket, io>>
  /\ UNCHANGED attempt

\* The timer's handler: it ran out, and the operation had not completed: close.
TimerHandler ==
  /\ timer.state = "queued"
  /\ timer' = Idle
  /\ IF timer.code = "ok" /\ ~completed
     THEN /\ completed' = TRUE
          /\ result' = [result EXCEPT !.timed_out = TRUE]
          /\ socket' = "closed" /\ io' = Abort(io)
     ELSE UNCHANGED <<completed, result, socket, io>>
  /\ UNCHANGED attempt

\* Mutant: the attempt is decided but the timer runs on.
DecideNoCancel(field) ==
  IF completed THEN UNCHANGED <<completed, timer, result>>
  ELSE /\ completed' = TRUE
       /\ timer' = timer
       /\ result' = [result EXCEPT ![field] = TRUE]

\* What every handler of an operation does at the end: nothing if the timer was
\* first, otherwise it decides the attempt and cancels the timer.
Decide(field) ==
  IF completed THEN UNCHANGED <<completed, timer, result>>
  ELSE /\ completed' = TRUE
       /\ timer' = Abort(timer)
       /\ result' = [result EXCEPT ![field] = TRUE]

\* async_connect over the addresses: a socket closed meanwhile ends it, an error
\* moves on to the next address, and then the handler of probe() is called.
TcpHandler ==
  /\ io.op = "connect" /\ io.state = "queued"
  /\ IF socket = "open" /\ io.code = "error" /\ endpoint < opt.endpoints
     THEN /\ endpoint' = endpoint + 1
          /\ io' = Pending("connect")
          /\ UNCHANGED <<socket, completed, timer, result>>
     ELSE /\ Decide(IF socket = "open" /\ io.code = "ok" THEN "success" ELSE "error")
          /\ io' = Idle
          /\ socket' = IF io.code = "ok" THEN "closed" ELSE socket
          /\ endpoint' = endpoint
  /\ UNCHANGED <<opt, pc, results, reached, exit>>

\* nprobe-udp: the datagram is sent: wait for the answer, unless the time is over.
UdpSendHandler ==
  /\ io.op = "send" /\ io.state = "queued"
  /\ IF io.code = "ok" /\ ~completed
     THEN io' = Pending("receive") /\ UNCHANGED <<completed, timer, result>>
     ELSE io' = Idle /\ Decide("error")
  /\ UNCHANGED <<attempt, socket>>

UdpReceiveHandler ==
  /\ io.op = "receive" /\ io.state = "queued"
  /\ io' = Idle
  /\ Decide(IF io.code = "ok" THEN "success" ELSE "error")
  /\ UNCHANGED <<attempt, socket>>

-----------------------------------------------------------------------------
(* The network and the clock.                                              *)

Complete(code) ==
  /\ io.state = "pending"
  /\ io' = Queued(io.op, code)
  /\ reached' = (reached \/ (code = "ok" /\ io.op \in {"connect", "receive"}))
  /\ UNCHANGED <<opt, pc, timer, endpoint, socket, completed, result, results, exit>>

\* The peer accepts or answers, or an error comes back; nothing may ever come back.
Network == Complete("ok") \/ Complete("error")

TimerExpires ==
  /\ timer.state = "pending"
  /\ timer' = Queued("wait", "ok")
  /\ UNCHANGED <<attempt, io, socket, completed, result>>

Handler == TimerHandler \/ TcpHandler \/ UdpSendHandler \/ UdpReceiveHandler

Main == TcpStart \/ UdpStart \/ RunReturns \/ Store \/ Exit

NProbeStep == Main \/ Handler \/ Network \/ TimerExpires

\* The clock goes on.
ClockRuns == WF_probeVars(TimerExpires)

-----------------------------------------------------------------------------
(* Properties.                                                             *)

\* Every finished attempt has exactly one verdict.
OneVerdict(r) == r.success # r.error /\ (r.timed_out => r.error)

\* Every attempt gets exactly one verdict, connected (responded), timed out or failed,
\* also when the answer and the timeout are both queued, in either order; and it is true:
\* success means that the peer accepted or answered.  Status 0 means that all the
\* attempts asked for were made and succeeded, status 1 that one did not.
VerdictsTrue ==
  /\ \A i \in DOMAIN results :
       /\ OneVerdict(results[i].result)
       /\ results[i].result.success => results[i].reached
  /\ exit # -1 =>
       /\ Len(results) = opt.attempts
       /\ exit = 0 <=> \A i \in DOMAIN results : results[i].result.success

\* A decided attempt is over at once: it does not wait for its timer, nor for the
\* peer after the timer.
Prompt == pc = "run" /\ completed ~> pc # "run"
=============================================================================
