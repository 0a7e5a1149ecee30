------------------------------- MODULE Netst -------------------------------
(***************************************************************************)
(* inetin's netst (netst.cpp, Linux): the kernel's sockets are dumped with *)
(* four netlink requests, and then every process's descriptors are read to *)
(* see which socket they are.  Nothing stands still meanwhile: processes   *)
(* open, pass on and close sockets between any two steps.  netlink and     *)
(* /proc are external; the other backends read one table that has both.    *)
(***************************************************************************)
EXTENDS Integers, FiniteSets

CONSTANTS
  Socks,      \* sockets that occur, all with one local address
  SockTables, \* tables they may be in: a subset of 1 .. 4
  MaxPid,     \* processes are 1 .. MaxPid, in the order /proc lists them
  MaxChanges  \* bound on what happens in the system during the run

ASSUME NetstAssumption ==
  /\ IsFiniteSet(Socks) /\ SockTables \subseteq 1 .. 4 /\ SockTables # {}
  /\ MaxPid \in Nat \ {0} /\ MaxChanges \in Nat

VARIABLE net   \* the program and the system around it: see NetStart

-----------------------------------------------------------------------------
Pids == 1 .. MaxPid

\* enumerate_sockets: request 1 is for TCP over IPv4, 2 for UDP, 3 and 4 over IPv6.
IsTcp(table) == table \in {1, 3}

\* -p and -r with a full local address or a port alone; -i; -pp.
NetOptions ==
  [port : {"none", "address", "bare"}, pid : 0 .. MaxPid, pidOnly : BOOLEAN]

NoOptions == [port |-> "none", pid |-> 0, pidOnly |-> FALSE]

\* What netst has: opt (looked at, and so chosen, when it prints), pc, the request, what
\* its dump has delivered, the list of sockets with pid (0: unknown) and whether they have
\* an inode, the process whose descriptors are read and which are still to be read,
\* whether all went well, what is printed, the exit status.
\* Around it: each socket's table and the processes that hold it ({}: closed), whose
\* descriptors may be read, and as history who has held it at all and all the time, and
\* how many changes there were.
NetStart(table, holders, readable) ==
  [opt |-> NoOptions, pc |-> "request", request |-> 1, delivered |-> {}, list |-> {},
   process |-> 0, todo |-> {}, ok |-> TRUE, printed |-> {}, exit |-> -1,
   table |-> table, holders |-> holders, lingering |-> {}, readable |-> readable,
   ever |-> holders, always |-> holders, changes |-> 0]

NetInit ==
  \E table \in [Socks -> SockTables], holders \in [Socks -> SUBSET Pids],
     readable \in SUBSET Pids :
    net = NetStart(table, holders, readable)

-----------------------------------------------------------------------------
(* The system.                                                             *)

Hold(s, pids) ==
  [net EXCEPT !.holders[s] = pids, !.ever[s] = @ \cup pids, !.always[s] = @ \cap pids,
              !.changes = @ + 1]

Changing == net.pc \notin {"print", "done"} /\ net.changes < MaxChanges

\* A process opens a socket, or passes one on by fork() or a message.
Acquire ==
  /\ Changing
  /\ \E s \in Socks \ net.lingering, p \in Pids :
       p \notin net.holders[s] /\ net' = Hold(s, net.holders[s] \cup {p})

\* A process closes a socket or exits; of TCP the kernel may keep a rest (TIME_WAIT)
\* that has no inode any more.
Release ==
  /\ Changing
  /\ \E s \in Socks : \E p \in net.holders[s] :
       LET left == Hold(s, net.holders[s] \ {p}) IN
       \/ net' = left
       \/ net.holders[s] = {p} /\ IsTcp(net.table[s])
          /\ net' = [left EXCEPT !.lingering = @ \cup {s}]

System == Acquire \/ Release

-----------------------------------------------------------------------------
(* linux_diag_dump.                                                        *)

\* What a dump of the table still has to deliver.
Undelivered ==
  {s \in Socks : /\ net.table[s] = net.request
                 /\ net.holders[s] # {} \/ s \in net.lingering
                 /\ s \notin net.delivered}

NextRequest(ok) ==
  [net EXCEPT !.request = @ + 1, !.ok = @ /\ ok, !.delivered = {},
              !.pc = IF net.request = 4 THEN "processes" ELSE "request"]

\* sendto(); a protocol the kernel cannot dump answers NLMSG_ERROR.
Request ==
  /\ net.pc = "request"
  /\ \/ net' = [net EXCEPT !.pc = "receive"]
     \/ net' = NextRequest(FALSE)

\* recv() and the messages of one buffer.
Receive ==
  /\ net.pc = "receive"
  /\ \E batch \in SUBSET Undelivered :
       /\ batch # {}
       /\ net' = [net EXCEPT !.delivered = @ \cup batch,
                    !.list = @ \cup {[sock |-> s, pid |-> 0, inode |-> s \notin net.lingering] :
                                       s \in batch}]

\* NLMSG_DONE, or recv() fails.
DumpDone == net.pc = "receive" /\ Undelivered = {} /\ net' = NextRequest(TRUE)

RecvFails == net.pc = "receive" /\ net' = NextRequest(FALSE)

-----------------------------------------------------------------------------
(* linux_find_processes.                                                   *)

\* Mutant: the first process whose descriptors may not be read ends the search.
AfterUnreadableEnds == [net EXCEPT !.pc = "print"]

\* The next entry of /proc, after one whose fd directory cannot be opened.
AfterUnreadable == [net EXCEPT !.process = @ + 1]

\* The next entry of /proc.
NextProcess ==
  /\ net.pc = "processes"
  /\ LET p == net.process + 1 IN
     net' = CASE p > MaxPid -> [net EXCEPT !.pc = "print"]
              [] p \in Pids \ net.readable -> AfterUnreadable
              [] p \in net.readable -> [net EXCEPT !.process = p, !.pc = "descriptors",
                                                   !.todo = Socks]

\* One descriptor, if the process has it by now, is a socket of the list: the socket is
\* this process's, whoever it was given to before.
Descriptor ==
  /\ net.pc = "descriptors"
  /\ \E s \in net.todo :
       net' = [net EXCEPT !.todo = @ \ {s},
                 !.list = {IF /\ e.sock = s /\ e.inode
                              /\ net.process \in net.holders[s]
                           THEN [e EXCEPT !.pid = net.process] ELSE e : e \in @}]

DescriptorsEnd ==
  net.pc = "descriptors" /\ net.todo = {} /\ net' = [net EXCEPT !.pc = "processes"]

-----------------------------------------------------------------------------
(* main().                                                                 *)

\* matches_port: the whole local address.
MatchesPort(opt) == opt.port # "bare"

Chosen(opt) ==
  {e \in net.list : /\ opt.port # "none" => MatchesPort(opt)
                    /\ opt.pid # 0 => e.pid = opt.pid}

\* The loop over the list: with -pp a socket without a process is found but not printed.
PrintSockets ==
  /\ net.pc = "print"
  /\ \E opt \in NetOptions :
       net' = [net EXCEPT !.pc = "done", !.opt = opt,
                 !.printed = {e \in Chosen(opt) : opt.pidOnly => e.pid # 0},
                 !.exit = IF Chosen(opt) = {} THEN 1 ELSE 0]

\* socket(AF_NETLINK) fails: nothing is listed.
NoNetlink ==
  /\ net.pc = "request" /\ net.request = 1
  /\ net' = [net EXCEPT !.pc = "print", !.ok = FALSE]

NetRun ==
  \/ Request \/ NoNetlink \/ Receive \/ DumpDone \/ RecvFails
  \/ NextProcess \/ Descriptor \/ DescriptorsEnd \/ PrintSockets

NetStep == NetRun \/ System

-----------------------------------------------------------------------------
(* Properties.                                                             *)

\* A readable process has had the socket all the time, and no other has ever had it.
OwnedBy(s, p) == net.ever[s] = {p} /\ net.always[s] = {p} /\ p \in net.readable

Asked(s, p) == net.opt.port # "bare" /\ net.opt.pid \in {0, p}

\* What netst prints of a system that does not wait for it: a process it names has held
\* the socket at some time during the run; a socket that one readable process has held
\* throughout is printed with this process, if no request failed, whatever happened to
\* the other sockets and whatever other processes could not be read.
SocketsFound ==
  net.pc = "done" =>
    /\ \A e \in net.printed : e.pid # 0 => e.pid \in net.ever[e.sock] \cap net.readable
    /\ net.ok => \A s \in Socks, p \in Pids :
         OwnedBy(s, p) /\ Asked(s, p) => [sock |-> s, pid |-> p, inode |-> TRUE] \in net.printed
    /\ net.exit = 1 => net.printed = {}

\* What the documentation says of -i: the sockets owned by the process are shown, also
\* those it shares with others.
OwnedAreShown ==
  net.pc = "done" /\ net.ok /\ net.opt.port = "none" /\ net.opt.pid \in net.readable =>
    \A s \in Socks : net.opt.pid \in net.always[s] => \E e \in net.printed : e.sock = s
=============================================================================
