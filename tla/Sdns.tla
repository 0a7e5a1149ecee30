-------------------------------- MODULE Sdns --------------------------------
(***************************************************************************)
(* inetin's sdns (sdns.cpp): run_server asks one server for every type of  *)
(* record at once and waits until all queries are answered.  The answers   *)
(* come in c-ares' event thread, which writes them into run_server's       *)
(* results; ares_destroy ends that thread after it has called back for     *)
(* every query still open.  c-ares is external.                            *)
(***************************************************************************)
EXTENDS Integers, FiniteSets

CONSTANTS MaxServers, MaxTypes   \* most servers, most types asked for

ASSUME DnsAssumption == {MaxServers, MaxTypes} \subseteq Nat \ {0}

VARIABLE dns   \* the program: see DnsStart

-----------------------------------------------------------------------------
DnsOptions == [servers : 1 .. MaxServers, types : 1 .. MaxTypes]

\* How a query can end: with a record, whose rcode may be an error, without one, or
\* cancelled.
Statuses == {"success", "nodata", "notfound", "timeout", "nomem", "destruction"}

\* QueryResult: completed, status, and whether it holds a copy of the answer.
NoAnswer == [completed |-> FALSE, status |-> "cancelled", record |-> FALSE]

\* pc, the server asked, the query that is next, the queries the event thread has, the
\* results (alive from the first query until run_server returns), copies of records not
\* yet freed, whether the file of -f was opened, success, the exit status; and history:
\* for each server asked whether something was printed for it, callbacks that came too
\* late.
DnsStart(opt) ==
  [opt |-> opt, pc |-> "library", server |-> 1, next |-> 1, open |-> {},
   result |-> [i \in 1 .. opt.types |-> NoAnswer], alive |-> FALSE, records |-> 0,
   success |-> TRUE, exit |-> -1, answered |-> 0, late |-> FALSE]

DnsInit == dns \in {DnsStart(opt) : opt \in DnsOptions}

DnsAt(pc) == dns.pc = pc

\* ares_library_init, ares_threadsafety, the file of -f.
LibraryFails ==
  /\ DnsAt("library")
  /\ dns' = [dns EXCEPT !.pc = "done", !.exit = 1]

LibraryReady ==
  /\ DnsAt("library")
  /\ dns' = [dns EXCEPT !.pc = "channel"]

\* run_server returns to the loop over the servers.
ServerDone(d, ok) ==
  [d EXCEPT !.pc = "next", !.alive = FALSE, !.success = @ /\ ok,
            !.answered = IF ok THEN @ + 1 ELSE @,
            !.late = @ \/ d.open # {}]

\* No channel, or a server's address that is not one.
ChannelFails ==
  /\ DnsAt("channel")
  /\ dns' = ServerDone(dns, FALSE)

OpenChannel ==
  /\ DnsAt("channel")
  /\ dns' = [dns EXCEPT !.pc = "query", !.next = 1, !.alive = TRUE,
                        !.result = [i \in DOMAIN @ |-> NoAnswer]]

\* query_callback: the result of query i is filled in.
Filled(d, i, status, record) ==
  [d EXCEPT !.open = @ \ {i}, !.late = @ \/ ~d.alive,
            !.records = IF record THEN @ + 1 ELSE @,
            !.result[i] = [completed |-> TRUE, status |-> status, record |-> record]]

\* ares_query_dnsrec: the query is in the event thread's hands, or has already been
\* called back with the error.
Query ==
  LET i == dns.next
      sent == [dns EXCEPT !.next = @ + 1]
  IN  /\ DnsAt("query") /\ i <= dns.opt.types
      /\ \/ dns' = [sent EXCEPT !.open = @ \cup {i}]
         \/ dns' = Filled(sent, i, "nomem", FALSE)

AllSent ==
  /\ DnsAt("query") /\ dns.next > dns.opt.types
  /\ dns' = [dns EXCEPT !.pc = "wait"]

\* The event thread calls back, while other queries are still being made, too.  A
\* record whose copy cannot be made is reported as "nomem".
Answer ==
  \E i \in dns.open, status \in {"success", "nodata", "notfound"}, record \in BOOLEAN :
    dns' = Filled(dns, i, IF status = "success" /\ ~record THEN "nomem" ELSE status, record)

\* The tries of a query are used up.
QueryTimesOut == \E i \in dns.open : dns' = Filled(dns, i, "timeout", FALSE)

\* ares_queue_wait_empty returns, and ares_destroy ends the event thread.
Answered ==
  /\ DnsAt("wait") /\ dns.open = {}
  /\ dns' = [dns EXCEPT !.pc = "print"]

\* Mutant: the results are dropped while the event thread still has queries.
WaitTimesOutKeepingChannel ==
  /\ DnsAt("wait")
  /\ dns' = ServerDone([dns EXCEPT !.records = 0], FALSE)

\* 20 seconds are over, or the wait fails: ares_destroy calls back for what is open, and
\* the copies are freed.
WaitFails20s ==
  /\ DnsAt("wait")
  /\ dns' = ServerDone([dns EXCEPT !.records = 0, !.open = {}], FALSE)

\* Every result is printed, and its copy freed; one that has a record is enough.
PrintResults ==
  /\ DnsAt("print")
  /\ dns' = ServerDone([dns EXCEPT !.records = 0],
                       \E i \in DOMAIN dns.result : dns.result[i].record)

NextServer ==
  /\ DnsAt("next")
  /\ dns' = IF dns.server < dns.opt.servers
            THEN [dns EXCEPT !.pc = "channel", !.server = @ + 1]
            ELSE [dns EXCEPT !.pc = "done", !.exit = IF dns.success THEN 0 ELSE 1]

DnsStep ==
  \/ LibraryFails \/ LibraryReady \/ ChannelFails \/ OpenChannel
  \/ Query \/ AllSent \/ Answered \/ WaitFails20s \/ PrintResults \/ NextServer

EventThread == Answer \/ QueryTimesOut

-----------------------------------------------------------------------------
(* Properties.                                                             *)

\* A callback never writes to results that are gone, whether the queries are answered,
\* time out or are cut off; what is printed is complete; no copy of a record outlives
\* its server; and the status is 0 only if every server has answered something.
CallbacksSafe ==
  /\ ~dns.late
  /\ dns.open # {} => dns.alive
  /\ dns.pc = "print" => \A i \in DOMAIN dns.result : dns.result[i].completed
  /\ dns.pc \in {"next", "done"} => dns.records = 0
  /\ dns.records <= Cardinality({i \in DOMAIN dns.result : dns.result[i].record})
  /\ dns.exit = 0 <=> dns.pc = "done" /\ dns.answered = dns.opt.servers
=============================================================================
