------------------------------- MODULE Inetin -------------------------------
(***************************************************************************)
(* The network programs of inetin that keep state: whichever is started,   *)
(* with whichever options, against hosts, servers and peers that answer,   *)
(* fail or stay silent, in a system that changes meanwhile.                *)
(***************************************************************************)
EXTENDS Stls, Sdns, Sttp, Netst, NProbe

VARIABLE program   \* the one that is started

vars == <<program, tls, dns, http, net, probeVars>>

\* The programs that are not started stay at a state of their own.
Init ==
  /\ program \in {"stls", "sdns", "sttp", "netst", "nprobe"}
  /\ IF program = "stls" THEN TlsInit ELSE tls = TlsStart([verify |-> TRUE, timeout |-> 1])
  /\ IF program = "sdns" THEN DnsInit ELSE dns = DnsStart([servers |-> 1, types |-> 1])
  /\ IF program = "sttp" THEN HttpInit
     ELSE http = HttpStart([target |-> "stdout", follow |-> FALSE, timed |-> FALSE,
                            headers |-> "none", upload |-> "none"], FALSE)
  /\ IF program = "netst" THEN NetInit
     ELSE net = NetStart([s \in Socks |-> CHOOSE t \in SockTables : TRUE],
                         [s \in Socks |-> {}], {})
  /\ ProbeInit
  /\ program # "nprobe" => opt = [proto |-> "tcp", attempts |-> 1, endpoints |-> 1]

Stls(step) == program = "stls" /\ step /\ UNCHANGED <<program, dns, http, net, probeVars>>

Sdns(step) == program = "sdns" /\ step /\ UNCHANGED <<program, tls, http, net, probeVars>>

Sttp(step) == program = "sttp" /\ step /\ UNCHANGED <<program, tls, dns, net, probeVars>>

Netst(step) == program = "netst" /\ step /\ UNCHANGED <<program, tls, dns, http, probeVars>>

NProbe(step) == program = "nprobe" /\ step /\ UNCHANGED <<program, tls, dns, http, net>>

Ended ==
  CASE program = "stls" -> tls.pc = "done"
    [] program = "sdns" -> dns.pc = "done"
    [] program = "sttp" -> http.pc = "done"
    [] program = "netst" -> net.pc = "done"
    [] program = "nprobe" -> pc = "done"

Next ==
  \/ Stls(TlsRun \/ TlsPeer \/ TlsTick)
  \/ Sdns(DnsStep \/ EventThread)
  \/ Sttp(HttpStep)
  \/ Netst(NetStep)
  \/ NProbe(NProbeStep)
  \/ Ended /\ UNCHANGED vars

\* The programs run; select() and the queues of libcurl and c-ares return when their
\* time is over; the clock advances while stls waits.  Nothing is assumed of peers, nor
\* of the clock of nprobe, so that Prompt does not lean on it.
Fairness ==
  /\ WF_vars(Stls(TlsRun))
  /\ SF_vars(Stls(TlsTick))
  /\ WF_vars(Sdns(DnsStep))
  /\ WF_vars(Sttp(HttpRun))
  /\ WF_vars(Sttp(http.opt.timed /\ TransferTimesOut))
  /\ WF_vars(Netst(NetRun))
  /\ WF_vars(NProbe(Main)) /\ WF_vars(NProbe(Handler))

Spec == Init /\ [][Next]_vars /\ Fairness

-----------------------------------------------------------------------------
\* Every program ends, whatever the other side does or leaves undone: stls because of
\* its timeout, sdns because it waits no longer than 20 seconds, sttp if it has -t,
\* netst whatever processes do, and nprobe if the clock runs.
ProgramsEnd ==
  (program = "sttp" => http.opt.timed) /\ (program = "nprobe" => ClockRuns) => <>Ended
=============================================================================
