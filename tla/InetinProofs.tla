---------------------------- MODULE InetinProofs ----------------------------
(***************************************************************************)
(* Proofs about the network programs of inetin: how long stls can be held  *)
(* and what its status means, the callbacks of sdns, the file of sttp,     *)
(* what netst finds, and the verdicts of nprobe, for every number of       *)
(* addresses, servers, queries, redirects, sockets, processes and attempts *)
(* and every timeout.                                                      *)
(***************************************************************************)
EXTENDS Inetin, FiniteSetTheorems, TLAPS

-----------------------------------------------------------------------------
(* stls.                                                                   *)

TlsPcs ==
  {"resolve", "address", "connecting", "session", "handshake", "waiting", "done"}

TlsReasons ==
  {"none", "setup", "unresolved", "unreachable", "handshake", "timeout", "reported"}

TlsStates ==
  [opt : TlsOptions,
   pc : TlsPcs,
   addresses : Nat, next : Nat, sockets : Int, now : Nat, deadline : Nat, limit : Nat,
   good : BOOLEAN, exit : Int,
   reason : TlsReasons]

\* The time of the addresses tried so far, each given the whole timeout.
Allowed == (tls.next - 1) * tls.opt.timeout

\* Where the program is in its time: no wait is longer than what is allowed so far, and
\* the handshake's waits all end at its deadline.
TlsTime ==
  /\ tls.pc \in {"resolve", "address", "connecting", "session"} => tls.deadline = 0
  /\ tls.pc \in {"resolve", "address", "session"} => tls.now <= Allowed
  /\ tls.pc = "connecting" => tls.now <= tls.limit /\ tls.limit <= Allowed
  /\ tls.pc \in {"handshake", "waiting"} =>
       /\ tls.deadline > 0 /\ tls.deadline <= Allowed + tls.opt.timeout
       /\ tls.now <= tls.deadline
  /\ tls.pc = "waiting" => tls.limit = tls.deadline
  /\ tls.pc # "done" => tls.exit = -1 /\ tls.reason = "none"

TlsInv == tls \in TlsStates /\ TlsTime /\ TimeoutHolds /\ VerdictSound

PutPc(s, to) == [s EXCEPT !.pc = to]

LEMMA PutPcFields ==
  ASSUME NEW s \in TlsStates, NEW to \in TlsPcs
  PROVE  LET r == PutPc(s, to)
         IN  /\ r \in TlsStates
             /\ r.opt = s.opt /\ r.pc = to /\ r.addresses = s.addresses
             /\ r.next = s.next /\ r.sockets = s.sockets /\ r.now = s.now
             /\ r.deadline = s.deadline /\ r.limit = s.limit /\ r.good = s.good
             /\ r.exit = s.exit /\ r.reason = s.reason
  BY DEF PutPc, TlsStates

PutSocket(s, to, sockets) == [s EXCEPT !.pc = to, !.sockets = sockets]

LEMMA PutSocketFields ==
  ASSUME NEW s \in TlsStates, NEW to \in TlsPcs, NEW sockets \in Int
  PROVE  LET r == PutSocket(s, to, sockets)
         IN  /\ r \in TlsStates
             /\ r.opt = s.opt /\ r.pc = to /\ r.addresses = s.addresses
             /\ r.next = s.next /\ r.sockets = sockets /\ r.now = s.now
             /\ r.deadline = s.deadline /\ r.limit = s.limit /\ r.good = s.good
             /\ r.exit = s.exit /\ r.reason = s.reason
  BY DEF PutSocket, TlsStates

PutEnd(s, to, status) == [s EXCEPT !.pc = to, !.exit = status]

LEMMA PutEndFields ==
  ASSUME NEW s \in TlsStates, NEW to \in TlsPcs, NEW status \in Int
  PROVE  LET r == PutEnd(s, to, status)
         IN  /\ r \in TlsStates
             /\ r.opt = s.opt /\ r.pc = to /\ r.addresses = s.addresses
             /\ r.next = s.next /\ r.sockets = s.sockets /\ r.now = s.now
             /\ r.deadline = s.deadline /\ r.limit = s.limit /\ r.good = s.good
             /\ r.exit = status /\ r.reason = s.reason
  BY DEF PutEnd, TlsStates

PutReason(s, reason, sockets) == [s EXCEPT !.reason = reason, !.sockets = sockets]

LEMMA PutReasonFields ==
  ASSUME NEW s \in TlsStates, NEW reason \in TlsReasons, NEW sockets \in Int
  PROVE  LET r == PutReason(s, reason, sockets)
         IN  /\ r \in TlsStates
             /\ r.opt = s.opt /\ r.pc = s.pc /\ r.addresses = s.addresses
             /\ r.next = s.next /\ r.sockets = sockets /\ r.now = s.now
             /\ r.deadline = s.deadline /\ r.limit = s.limit /\ r.good = s.good
             /\ r.exit = s.exit /\ r.reason = reason
  BY DEF PutReason, TlsStates

PutPcNext(s, to, next) == [s EXCEPT !.pc = to, !.next = next]

LEMMA PutPcNextFields ==
  ASSUME NEW s \in TlsStates, NEW to \in TlsPcs, NEW next \in Nat
  PROVE  LET r == PutPcNext(s, to, next)
         IN  /\ r \in TlsStates
             /\ r.opt = s.opt /\ r.pc = to /\ r.addresses = s.addresses
             /\ r.next = next /\ r.sockets = s.sockets /\ r.now = s.now
             /\ r.deadline = s.deadline /\ r.limit = s.limit /\ r.good = s.good
             /\ r.exit = s.exit /\ r.reason = s.reason
  BY DEF PutPcNext, TlsStates

PutNext(s, next) == [s EXCEPT !.next = next]

LEMMA PutNextFields ==
  ASSUME NEW s \in TlsStates, NEW next \in Nat
  PROVE  LET r == PutNext(s, next)
         IN  /\ r \in TlsStates
             /\ r.opt = s.opt /\ r.pc = s.pc /\ r.addresses = s.addresses
             /\ r.next = next /\ r.sockets = s.sockets /\ r.now = s.now
             /\ r.deadline = s.deadline /\ r.limit = s.limit /\ r.good = s.good
             /\ r.exit = s.exit /\ r.reason = s.reason
  BY DEF PutNext, TlsStates

PutWait(s, sockets, limit) == [s EXCEPT !.sockets = sockets, !.limit = limit]

LEMMA PutWaitFields ==
  ASSUME NEW s \in TlsStates, NEW sockets \in Int, NEW limit \in Nat
  PROVE  LET r == PutWait(s, sockets, limit)
         IN  /\ r \in TlsStates
             /\ r.opt = s.opt /\ r.pc = s.pc /\ r.addresses = s.addresses
             /\ r.next = s.next /\ r.sockets = sockets /\ r.now = s.now
             /\ r.deadline = s.deadline /\ r.limit = limit /\ r.good = s.good
             /\ r.exit = s.exit /\ r.reason = s.reason
  BY DEF PutWait, TlsStates

PutAddresses(s, to, addresses) == [s EXCEPT !.pc = to, !.addresses = addresses]

LEMMA PutAddressesFields ==
  ASSUME NEW s \in TlsStates, NEW to \in TlsPcs, NEW addresses \in Nat
  PROVE  LET r == PutAddresses(s, to, addresses)
         IN  /\ r \in TlsStates
             /\ r.opt = s.opt /\ r.pc = to /\ r.addresses = addresses
             /\ r.next = s.next /\ r.sockets = s.sockets /\ r.now = s.now
             /\ r.deadline = s.deadline /\ r.limit = s.limit /\ r.good = s.good
             /\ r.exit = s.exit /\ r.reason = s.reason
  BY DEF PutAddresses, TlsStates

PutDeadline(s, to, good, deadline) == [s EXCEPT !.pc = to, !.good = good, !.deadline = deadline]

LEMMA PutDeadlineFields ==
  ASSUME NEW s \in TlsStates, NEW to \in TlsPcs, NEW good \in BOOLEAN, NEW deadline \in Nat
  PROVE  LET r == PutDeadline(s, to, good, deadline)
         IN  /\ r \in TlsStates
             /\ r.opt = s.opt /\ r.pc = to /\ r.addresses = s.addresses
             /\ r.next = s.next /\ r.sockets = s.sockets /\ r.now = s.now
             /\ r.deadline = deadline /\ r.limit = s.limit /\ r.good = good
             /\ r.exit = s.exit /\ r.reason = s.reason
  BY DEF PutDeadline, TlsStates

PutLimit(s, to, limit) == [s EXCEPT !.pc = to, !.limit = limit]

LEMMA PutLimitFields ==
  ASSUME NEW s \in TlsStates, NEW to \in TlsPcs, NEW limit \in Nat
  PROVE  LET r == PutLimit(s, to, limit)
         IN  /\ r \in TlsStates
             /\ r.opt = s.opt /\ r.pc = to /\ r.addresses = s.addresses
             /\ r.next = s.next /\ r.sockets = s.sockets /\ r.now = s.now
             /\ r.deadline = s.deadline /\ r.limit = limit /\ r.good = s.good
             /\ r.exit = s.exit /\ r.reason = s.reason
  BY DEF PutLimit, TlsStates

PutNow(s, now) == [s EXCEPT !.now = now]

LEMMA PutNowFields ==
  ASSUME NEW s \in TlsStates, NEW now \in Nat
  PROVE  LET r == PutNow(s, now)
         IN  /\ r \in TlsStates
             /\ r.opt = s.opt /\ r.pc = s.pc /\ r.addresses = s.addresses
             /\ r.next = s.next /\ r.sockets = s.sockets /\ r.now = now
             /\ r.deadline = s.deadline /\ r.limit = s.limit /\ r.good = s.good
             /\ r.exit = s.exit /\ r.reason = s.reason
  BY DEF PutNow, TlsStates

LEMMA TlsInitInv == Init => TlsInv
<1> SUFFICES ASSUME Init PROVE TlsInv
  OBVIOUS
<1>1. PICK o \in TlsOptions : tls = TlsStart(o)
  <2>1. [verify |-> TRUE, timeout |-> 1] \in TlsOptions
    BY TlsAssumption DEF TlsOptions
  <2> QED
    BY <2>1, Zenon DEF Init, TlsInit
<1>2. o.timeout \in Nat
  BY TlsAssumption DEF TlsOptions
<1>3. tls \in TlsStates
  BY <1>1 DEF TlsStart, TlsStates, TlsPcs, TlsReasons
<1>4. /\ tls.pc = "resolve" /\ tls.next = 1 /\ tls.now = 0 /\ tls.deadline = 0
      /\ tls.exit = -1 /\ tls.reason = "none" /\ tls.sockets = 0 /\ tls.opt = o
  BY <1>1 DEF TlsStart
<1>5. Allowed = 0
  BY <1>2, <1>4 DEF Allowed
<1> QED
  BY <1>2, <1>3, <1>4, <1>5 DEF TlsInv, TlsTime, TimeoutHolds, VerdictSound, Allowed

\* main() returns.
LEMMA TlsExitInv ==
  ASSUME TlsInv, NEW status \in {0, 1, 2}, NEW reason \in
           {"setup", "unresolved", "unreachable", "handshake", "timeout", "reported"},
         TlsExit(status, reason),
         reason = "timeout" => tls.now >= tls.deadline,
         reason = "unreachable" => tls.next > tls.addresses,
         status = 0 => reason = "reported" /\ (tls.opt.verify => tls.good)
  PROVE  TlsInv'
<1>1. /\ tls' \in TlsStates
      /\ tls'.pc = "done" /\ tls'.exit = status /\ tls'.reason = reason
      /\ tls'.sockets = 0 /\ tls'.opt = tls.opt /\ tls'.addresses = tls.addresses
      /\ tls'.next = tls.next /\ tls'.now = tls.now /\ tls'.deadline = tls.deadline
      /\ tls'.good = tls.good
  <2>1. tls \in TlsStates
    BY DEF TlsInv
  <2> DEFINE d == PutEnd(tls, "done", status)
  <2>2. tls' = PutReason(d, reason, 0)
    BY Zenon DEF TlsExit, PutEnd, PutReason
  <2>3. /\ d \in TlsStates /\ d.pc = "done" /\ d.exit = status
        /\ d.opt = tls.opt /\ d.addresses = tls.addresses /\ d.next = tls.next
        /\ d.now = tls.now /\ d.deadline = tls.deadline /\ d.good = tls.good
    BY <2>1, PutEndFields DEF TlsPcs
  <2> HIDE DEF d
  <2> QED
    <3>1. reason \in TlsReasons
      BY DEF TlsReasons
    <3> QED
      BY <2>2, <2>3, <3>1, PutReasonFields
<1> QED
  BY <1>1 DEF TlsInv, TlsTime, TimeoutHolds, VerdictSound

\* What the steps need to know of the state they start from.
LEMMA TlsFacts ==
  ASSUME TlsInv
  PROVE  /\ tls \in TlsStates /\ tls.opt \in TlsOptions
         /\ tls.opt.timeout \in Nat \ {0} /\ tls.now \in Nat /\ tls.next \in Nat
         /\ tls.limit \in Nat /\ tls.deadline \in Nat /\ Allowed \in Int
<1>1. tls \in TlsStates /\ tls.opt \in TlsOptions
  BY DEF TlsInv, TlsStates
<1>2. tls.opt.timeout \in Nat \ {0} /\ tls.next \in Nat
  BY <1>1, TlsAssumption DEF TlsOptions, TlsStates
<1>3. Allowed \in Int
  BY <1>2 DEF Allowed
<1> QED
  BY <1>1, <1>2, <1>3 DEF TlsStates

\* The next address has the whole timeout, too.
LEMMA AllowedGrows ==
  ASSUME NEW n \in Nat, NEW k \in Nat
  PROVE  (n + 1 - 1) * k = (n - 1) * k + k
<1>1. (n - 1) * k = n * k - k
  OBVIOUS
<1>2. n * k \in Nat
  OBVIOUS
<1> QED
  BY <1>1, <1>2

LEMMA StartConnectInv == ASSUME TlsInv, StartConnect PROVE TlsInv'
<1> DEFINE n == tls.next + 1
           k == tls.sockets + 1
           l == tls.now + tls.opt.timeout
           d == PutPcNext(tls, "connecting", n)
<1>1. /\ tls.pc = "address" /\ tls' = PutWait(d, k, l)
  BY Zenon DEF StartConnect, At, PutPcNext, PutWait
<1>2. n \in Nat /\ k = 1 /\ k \in Int /\ l \in Nat
  BY <1>1, TlsFacts DEF TlsInv, VerdictSound
<1>3. /\ n = tls.next + 1 /\ l = tls.now + tls.opt.timeout
  OBVIOUS
<1> HIDE DEF n, k, l
<1>4. d \in TlsStates /\ d.pc = "connecting" /\ d.next = n /\ d.opt = tls.opt
      /\ d.now = tls.now /\ d.deadline = tls.deadline /\ d.exit = tls.exit
      /\ d.reason = tls.reason
  <2>1. tls \in TlsStates /\ "connecting" \in TlsPcs
    BY TlsFacts DEF TlsPcs
  <2> QED
    BY <1>2, <2>1, PutPcNextFields
<1> HIDE DEF d
<1>5. /\ tls' \in TlsStates /\ tls'.pc = "connecting" /\ tls'.next = n
      /\ tls'.sockets = 1 /\ tls'.limit = l /\ tls'.opt = tls.opt /\ tls'.now = tls.now
      /\ tls'.deadline = 0 /\ tls'.exit = -1 /\ tls'.reason = "none"
  <2>1. tls.deadline = 0 /\ tls.exit = -1 /\ tls.reason = "none"
    BY <1>1 DEF TlsInv, TlsTime
  <2> QED
    <3>1. k \in Int /\ l \in Nat /\ d \in TlsStates
      BY <1>2, <1>4
    <3> QED
      BY <1>1, <1>2, <1>4, <2>1, <3>1, PutWaitFields
<1>6. Allowed' = Allowed + tls.opt.timeout
  <2>1. tls.next \in Nat /\ tls.opt.timeout \in Nat
    BY TlsFacts
  <2>2. tls'.next = tls.next + 1 /\ tls'.opt = tls.opt
    BY <1>3, <1>5
  <2>3. Allowed' = (tls.next + 1 - 1) * tls.opt.timeout
    BY <2>1, <2>2 DEF Allowed
  <2> QED
    BY <2>1, <2>3, AllowedGrows DEF Allowed
<1>7. tls.now <= Allowed
  BY <1>1 DEF TlsInv, TlsTime
<1>8. TlsTime' /\ VerdictSound'
  BY <1>3, <1>5, <1>6, <1>7, TlsFacts DEF TlsTime, VerdictSound
<1>9. TimeoutHolds'
  BY <1>5, <1>6, <1>7, TlsFacts DEF TimeoutHolds, Allowed
<1> QED
  BY <1>5, <1>8, <1>9 DEF TlsInv

\* The address is given up.
LEMMA GiveUpInv == ASSUME TlsInv, tls.pc = "connecting", GiveUp PROVE TlsInv'
<1> DEFINE k == tls.sockets - 1
<1>1. k = 0 /\ k \in Int
  BY TlsFacts DEF TlsInv, VerdictSound
<1>2. tls' = PutSocket(tls, "address", k)
  BY Zenon DEF GiveUp, PutSocket
<1> HIDE DEF k
<1>3. /\ tls' \in TlsStates /\ tls'.pc = "address" /\ tls'.sockets = 0
      /\ tls'.next = tls.next /\ tls'.opt = tls.opt /\ tls'.now = tls.now
      /\ tls'.deadline = 0 /\ tls'.exit = -1 /\ tls'.reason = "none"
  <2>1. tls.deadline = 0 /\ tls.exit = -1 /\ tls.reason = "none"
    BY DEF TlsInv, TlsTime
  <2> QED
    <3>1. tls \in TlsStates /\ "address" \in TlsPcs
      BY TlsFacts DEF TlsPcs
    <3> QED
      BY <1>1, <1>2, <2>1, <3>1, PutSocketFields
<1>4. Allowed' = Allowed /\ tls.now <= Allowed
  BY <1>3, TlsFacts DEF TlsInv, TlsTime, Allowed
<1>5. TlsTime' /\ VerdictSound'
  BY <1>3, <1>4, TlsFacts DEF TlsTime, VerdictSound
<1>6. TimeoutHolds'
  BY <1>3, <1>4, TlsFacts DEF TimeoutHolds, Allowed
<1> QED
  BY <1>3, <1>5, <1>6 DEF TlsInv

\* Steps that change where the program is, and little else.
LEMMA MoveInv ==
  ASSUME TlsInv, tls.pc # "done", tls' \in TlsStates,
         tls'.opt = tls.opt, tls'.exit = tls.exit, tls'.reason = tls.reason,
         tls'.sockets = tls.sockets, tls'.next >= tls.next,
         tls'.pc \in {"connecting", "session", "handshake", "waiting"} <=>
           tls.pc \in {"connecting", "session", "handshake", "waiting"},
         tls'.pc # "done", Allowed' >= Allowed, TlsTime',
         tls'.now <= Allowed' + (IF tls'.deadline > 0 THEN tls.opt.timeout ELSE 0)
  PROVE  TlsInv'
<1>1. tls'.exit = -1 /\ tls'.reason = "none"
  BY DEF TlsInv, TlsTime
<1> QED
  BY <1>1 DEF TlsInv, TimeoutHolds, VerdictSound, Allowed

LEMMA NoSocketInv == ASSUME TlsInv, NoSocket PROVE TlsInv'
<1> DEFINE n == tls.next + 1
<1>1. tls.pc = "address" /\ tls' = PutNext(tls, n)
  BY Zenon DEF NoSocket, At, PutNext
<1>2. n \in Nat /\ n = tls.next + 1
  BY TlsFacts
<1> HIDE DEF n
<1>3. /\ tls' \in TlsStates /\ tls'.pc = "address" /\ tls'.next = n
      /\ tls'.sockets = tls.sockets /\ tls'.opt = tls.opt /\ tls'.now = tls.now
      /\ tls'.deadline = tls.deadline /\ tls'.exit = tls.exit
      /\ tls'.reason = tls.reason
  BY <1>1, <1>2, TlsFacts, PutNextFields
<1>4. Allowed' = Allowed + tls.opt.timeout
  <2>1. tls.next \in Nat /\ tls.opt.timeout \in Nat
    BY TlsFacts
  <2>2. (n - 1) * tls.opt.timeout = (tls.next - 1) * tls.opt.timeout + tls.opt.timeout
    BY <1>2, <2>1, AllowedGrows
  <2> QED
    BY <1>3, <2>2 DEF Allowed
<1>5. TlsTime'
  BY <1>1, <1>3, <1>4, TlsFacts DEF TlsInv, TlsTime
<1>6. tls.now <= Allowed /\ tls.deadline = 0
  BY <1>1 DEF TlsInv, TlsTime
<1> QED
  BY <1>1, <1>2, <1>3, <1>4, <1>5, <1>6, TlsFacts, MoveInv

\* The program goes on to another place, with its times as they are.
LEMMA GoInv ==
  ASSUME TlsInv, NEW to \in TlsPcs, TlsGo(to),
         \/ tls.pc = "connecting" /\ to = "session"
         \/ tls.pc = "waiting" /\ to = "handshake"
  PROVE  TlsInv'
<1>1. tls' = PutPc(tls, to)
  BY Zenon DEF TlsGo, PutPc
<1>2. /\ tls' \in TlsStates /\ tls'.pc = to /\ tls'.next = tls.next
      /\ tls'.sockets = tls.sockets /\ tls'.opt = tls.opt /\ tls'.now = tls.now
      /\ tls'.deadline = tls.deadline /\ tls'.limit = tls.limit /\ tls'.exit = tls.exit
      /\ tls'.reason = tls.reason
  <2>1. tls \in TlsStates
    BY TlsFacts
  <2> QED
    BY <1>1, <2>1, PutPcFields
<1>3. Allowed' = Allowed
  BY <1>2 DEF Allowed
<1>4. TlsTime'
  BY <1>2, <1>3, TlsFacts DEF TlsInv, TlsTime
<1>5. tls.now <= Allowed + (IF tls.deadline > 0 THEN tls.opt.timeout ELSE 0)
  BY TlsFacts DEF TlsInv, TimeoutHolds, Allowed
<1> QED
  BY <1>2, <1>3, <1>4, <1>5, TlsFacts, MoveInv

LEMMA ResolveInv == ASSUME TlsInv, Resolve PROVE TlsInv'
<1>1. PICK n \in 1 .. MaxAddresses : tls' = PutAddresses(tls, "address", n)
  BY Zenon DEF Resolve, PutAddresses
<1>2. tls.pc = "resolve" /\ n \in Nat /\ "address" \in TlsPcs /\ tls \in TlsStates
  BY TlsFacts DEF Resolve, At, TlsPcs
<1>3. /\ tls' \in TlsStates /\ tls'.pc = "address" /\ tls'.next = tls.next
      /\ tls'.sockets = tls.sockets /\ tls'.opt = tls.opt /\ tls'.now = tls.now
      /\ tls'.deadline = tls.deadline /\ tls'.exit = tls.exit
      /\ tls'.reason = tls.reason
  BY <1>1, <1>2, PutAddressesFields
<1>4. Allowed' = Allowed
  BY <1>3 DEF Allowed
<1>5. TlsTime' /\ tls.now <= Allowed /\ tls.deadline = 0
  BY <1>2, <1>3, <1>4, TlsFacts DEF TlsInv, TlsTime
<1> QED
  BY <1>2, <1>3, <1>4, <1>5, TlsFacts, MoveInv

\* The handshake's deadline is the whole timeout away.
LEMMA StartHandshakeInv == ASSUME TlsInv, StartHandshake PROVE TlsInv'
<1> DEFINE l == tls.now + tls.opt.timeout
<1>1. PICK good \in BOOLEAN : tls' = PutDeadline(tls, "handshake", good, l)
  BY Zenon DEF StartHandshake, PutDeadline
<1>2. /\ tls.pc = "session" /\ "handshake" \in TlsPcs /\ tls \in TlsStates
      /\ l \in Nat /\ l > 0 /\ l = tls.now + tls.opt.timeout
  BY TlsFacts DEF StartHandshake, At, TlsPcs
<1> HIDE DEF l
<1>3. /\ tls' \in TlsStates /\ tls'.pc = "handshake" /\ tls'.next = tls.next
      /\ tls'.sockets = tls.sockets /\ tls'.opt = tls.opt /\ tls'.now = tls.now
      /\ tls'.deadline = l /\ tls'.exit = tls.exit /\ tls'.reason = tls.reason
  BY <1>1, <1>2, PutDeadlineFields
<1>4. Allowed' = Allowed
  BY <1>3 DEF Allowed
<1>5. tls.now <= Allowed
  BY <1>2 DEF TlsInv, TlsTime
<1>6. TlsTime'
  BY <1>2, <1>3, <1>4, <1>5, TlsFacts DEF TlsInv, TlsTime
<1> QED
  BY <1>2, <1>3, <1>4, <1>5, <1>6, TlsFacts, MoveInv

LEMMA HandshakeSucceedsInv == ASSUME TlsInv, HandshakeSucceeds PROVE TlsInv'
<1> DEFINE status == IF tls.opt.verify /\ ~tls.good THEN 1 ELSE 0
<1>1. TlsExit(status, "reported") /\ status \in {0, 1, 2}
  BY DEF HandshakeSucceeds
<1>2. status = 0 => (tls.opt.verify => tls.good)
  OBVIOUS
<1> QED
  BY <1>1, <1>2, TlsExitInv

LEMMA WantsMoreInv == ASSUME TlsInv, WantsMore PROVE TlsInv'
<1>1. tls.pc = "handshake"
  BY DEF WantsMore, At
<1>2. CASE tls.now >= tls.deadline /\ TlsExit(1, "timeout")
  BY <1>2, TlsExitInv
<1>3. CASE tls' = PutLimit(tls, "waiting", tls.deadline)
  <2>1. "waiting" \in TlsPcs
    BY DEF TlsPcs
  <2>0. tls \in TlsStates /\ tls.deadline \in Nat
    BY TlsFacts
  <2>2. /\ tls' \in TlsStates /\ tls'.pc = "waiting" /\ tls'.next = tls.next
        /\ tls'.sockets = tls.sockets /\ tls'.opt = tls.opt /\ tls'.now = tls.now
        /\ tls'.deadline = tls.deadline /\ tls'.limit = tls.deadline
        /\ tls'.exit = tls.exit /\ tls'.reason = tls.reason
    BY <1>3, <2>0, <2>1, PutLimitFields
  <2>3. Allowed' = Allowed
    BY <2>2 DEF Allowed
  <2>4. TlsTime' /\ tls.now <= Allowed + tls.opt.timeout /\ tls.deadline > 0
    BY <1>1, <2>2, <2>3, TlsFacts DEF TlsInv, TlsTime
  <2> QED
    BY <1>1, <2>2, <2>3, <2>4, TlsFacts, MoveInv
<1> QED
  BY <1>2, <1>3, Zenon DEF WantsMore, PutLimit

\* Time passes no further than select()'s timeout.
LEMMA TlsTickInv == ASSUME TlsInv, TlsTick PROVE TlsInv'
<1> DEFINE n == tls.now + 1
<1>1. /\ tls.pc \in {"connecting", "waiting"} /\ tls.now < tls.limit
      /\ tls' = PutNow(tls, n)
  BY Zenon DEF TlsTick, PutNow
<1>2. n \in Nat /\ n = tls.now + 1 /\ tls \in TlsStates
  BY TlsFacts
<1> HIDE DEF n
<1>3. /\ tls' \in TlsStates /\ tls'.pc = tls.pc /\ tls'.next = tls.next
      /\ tls'.sockets = tls.sockets /\ tls'.opt = tls.opt /\ tls'.now = n
      /\ tls'.deadline = tls.deadline /\ tls'.limit = tls.limit
      /\ tls'.exit = tls.exit /\ tls'.reason = tls.reason
  BY <1>1, <1>2, PutNowFields
<1>4. Allowed' = Allowed
  BY <1>3 DEF Allowed
<1>5. /\ TlsTime'
      /\ n <= Allowed + (IF tls.deadline > 0 THEN tls.opt.timeout ELSE 0)
  BY <1>1, <1>2, <1>3, <1>4, TlsFacts DEF TlsInv, TlsTime
<1> QED
  BY <1>1, <1>3, <1>4, <1>5, TlsFacts, MoveInv

LEMMA TlsNextInv ==
  ASSUME TlsInv, TlsRun \/ TlsPeer \/ TlsTick \/ UNCHANGED tls
  PROVE  TlsInv'
<1>1. ASSUME ContextFails \/ SessionFails PROVE TlsInv'
  BY <1>1, TlsExitInv DEF ContextFails, SessionFails
<1>2. ASSUME ResolveFails \/ HandshakeFails \/ WaitFails PROVE TlsInv'
  BY <1>2, TlsExitInv DEF ResolveFails, HandshakeFails, WaitFails
<1>3. ASSUME NoAddressLeft PROVE TlsInv'
  BY <1>3, TlsExitInv DEF NoAddressLeft
<1>4. ASSUME WaitTimesOut PROVE TlsInv'
  <2>1. tls.pc = "waiting" /\ tls.now >= tls.limit /\ TlsExit(1, "timeout")
    BY <1>4 DEF WaitTimesOut, At
  <2>2. tls.now >= tls.deadline
    BY <2>1 DEF TlsInv, TlsTime
  <2> QED
    BY <2>1, <2>2, TlsExitInv
<1>5. ASSUME Refused \/ ConnectTimesOut \/ ConnectInterrupted PROVE TlsInv'
  BY <1>5, GiveUpInv DEF Refused, ConnectTimesOut, ConnectInterrupted, At
<1>6. ASSUME Connected \/ Ready PROVE TlsInv'
  BY <1>6, GoInv DEF Connected, Ready, At, TlsPcs
<1>7. ASSUME UNCHANGED tls PROVE TlsInv'
  BY <1>7 DEF TlsInv, TlsTime, TimeoutHolds, VerdictSound, Allowed
<1> QED
  BY <1>1, <1>2, <1>3, <1>4, <1>5, <1>6, <1>7, ResolveInv, NoSocketInv, StartConnectInv,
     StartHandshakeInv, HandshakeSucceedsInv, WantsMoreInv, TlsTickInv
     DEF TlsRun, TlsPeer

LEMMA TlsInvariant == Spec => []TlsInv
<1>1. TlsInv /\ [Next]_vars => TlsInv'
  <2>1. [Next]_vars => TlsRun \/ TlsPeer \/ TlsTick \/ UNCHANGED tls
    BY DEF Next, vars, Stls, Sdns, Sttp, Netst, NProbe
  <2> QED
    BY <2>1, TlsNextInv
<1> QED
  BY <1>1, TlsInitInv, PTL DEF Spec

\* A host that answers slowly or not at all holds stls no longer than its timeout for
\* each address and once more for the handshake.
THEOREM StlsTimeout == Spec => []TimeoutHolds
<1>1. TlsInv => TimeoutHolds
  BY DEF TlsInv
<1> QED
  BY <1>1, TlsInvariant, PTL

\* With -v, status 0 means that the certificate was found valid, at whichever address
\* the handshake took place.
THEOREM StlsVerdict == Spec => []VerdictSound
<1>1. TlsInv => VerdictSound
  BY DEF TlsInv
<1> QED
  BY <1>1, TlsInvariant, PTL

-----------------------------------------------------------------------------
(* sdns.                                                                   *)

DnsPcs == {"library", "channel", "query", "wait", "print", "next", "done"}

QueryResults ==
  [completed : BOOLEAN, status : Statuses \cup {"cancelled"}, record : BOOLEAN]

DnsStates ==
  [opt : DnsOptions, pc : DnsPcs, server : Nat, next : Nat, open : SUBSET Nat,
   result : Seq(QueryResults), alive : BOOLEAN, records : Int,
   success : BOOLEAN, exit : Int, answered : Nat, late : BOOLEAN]

\* The queries of a server whose results hold a record.
Held(answers) == {i \in DOMAIN answers : answers[i].record}

\* The queries of one server: those made are with the event thread or completed, those
\* not yet made are neither, and only a completed one holds a record; the results are
\* there as long as the event thread has a query.
QueryInv ==
  /\ ~dns.late
  /\ DOMAIN dns.result = 1 .. dns.opt.types
  /\ dns.alive <=> dns.pc \in {"query", "wait", "print"}
  /\ dns.open # {} => dns.pc \in {"query", "wait"}
  /\ dns.open \subseteq DOMAIN dns.result
  /\ \A i \in dns.open : ~dns.result[i].record /\ (dns.pc = "query" => i < dns.next)
  /\ dns.pc = "query" =>
       /\ dns.next > 0
       /\ \A i \in DOMAIN dns.result :
         IF i < dns.next THEN i \in dns.open \/ dns.result[i].completed
         ELSE ~dns.result[i].record
  /\ dns.pc \in {"wait", "print"} =>
       \A i \in DOMAIN dns.result : i \in dns.open \/ dns.result[i].completed
  /\ dns.alive => dns.records <= Cardinality(Held(dns.result))
  /\ ~dns.alive => dns.records = 0

\* The servers whose turn is over.
Finished == IF dns.pc \in {"next", "done"} THEN dns.server ELSE dns.server - 1

\* success: every server whose turn is over has answered something.
ServerInv ==
  /\ dns.server \in 1 .. dns.opt.servers
  /\ dns.answered <= Finished
  /\ dns.pc # "done" => dns.exit = -1 /\ (dns.success <=> dns.answered = Finished)
  /\ dns.pc = "done" =>
       \/ dns.exit = 0 /\ dns.answered = dns.opt.servers
       \/ dns.exit = 1 /\ dns.answered < dns.opt.servers

DnsInv == dns \in DnsStates /\ QueryInv /\ ServerInv

PutQueries(d, to, next, open, answers, alive, records) ==
  [d EXCEPT !.pc = to, !.next = next, !.open = open, !.result = answers, !.alive = alive,
            !.records = records]

LEMMA PutQueriesFields ==
  ASSUME NEW d \in DnsStates, NEW to \in DnsPcs, NEW next \in Nat, NEW open \in SUBSET Nat,
         NEW answers \in Seq(QueryResults), NEW alive \in BOOLEAN, NEW records \in Int
  PROVE  LET r == PutQueries(d, to, next, open, answers, alive, records)
         IN  /\ r \in DnsStates
             /\ r.opt = d.opt /\ r.pc = to /\ r.server = d.server /\ r.next = next
             /\ r.open = open /\ r.result = answers /\ r.alive = alive
             /\ r.records = records /\ r.success = d.success /\ r.exit = d.exit
             /\ r.answered = d.answered /\ r.late = d.late
  BY DEF PutQueries, DnsStates

PutTurn(d, to, server, open, alive, records, success, answered, code, late) ==
  [d EXCEPT !.pc = to, !.server = server, !.open = open, !.alive = alive,
            !.records = records, !.success = success, !.answered = answered, !.exit = code,
            !.late = late]

LEMMA PutTurnFields ==
  ASSUME NEW d \in DnsStates, NEW to \in DnsPcs, NEW server \in Nat, NEW open \in SUBSET Nat,
         NEW alive \in BOOLEAN, NEW records \in Int, NEW success \in BOOLEAN,
         NEW answered \in Nat, NEW code \in Int, NEW late \in BOOLEAN
  PROVE  LET r == PutTurn(d, to, server, open, alive, records, success, answered, code, late)
         IN  /\ r \in DnsStates
             /\ r.opt = d.opt /\ r.pc = to /\ r.server = server /\ r.next = d.next
             /\ r.open = open /\ r.result = d.result /\ r.alive = alive
             /\ r.records = records /\ r.success = success /\ r.exit = code
             /\ r.answered = answered /\ r.late = late
  BY DEF PutTurn, DnsStates

\* A state between two turns: no query, no results, no records.
PutServer(d, to, server, success, answered, code) ==
  PutTurn(d, to, server, {}, FALSE, 0, success, answered, code, FALSE)

LEMMA PutServerFields ==
  ASSUME dns \in DnsStates, NEW to \in DnsPcs, NEW server \in Nat, NEW success \in BOOLEAN,
         NEW answered \in Nat, NEW code \in Int,
         dns' = PutServer(dns, to, server, success, answered, code)
  PROVE  /\ dns' \in DnsStates /\ dns'.opt = dns.opt /\ dns'.pc = to
         /\ dns'.server = server /\ dns'.open = {} /\ dns'.result = dns.result
         /\ ~dns'.alive /\ dns'.records = 0 /\ (dns'.success <=> success)
         /\ dns'.exit = code /\ dns'.answered = answered /\ ~dns'.late
<1> DEFINE none == {}
           zero == 0
           no == FALSE
<1>1. none \in SUBSET Nat /\ zero \in Int /\ no \in BOOLEAN
  OBVIOUS
<1>2. dns' = PutTurn(dns, to, server, none, no, zero, success, answered, code, no)
  BY DEF PutServer
<1> HIDE DEF none, zero, no
<1>3. /\ dns' \in DnsStates /\ dns'.opt = dns.opt /\ dns'.pc = to
      /\ dns'.server = server /\ dns'.open = none /\ dns'.result = dns.result
      /\ dns'.alive = no /\ dns'.records = zero /\ dns'.success = success
      /\ dns'.exit = code /\ dns'.answered = answered /\ dns'.late = no
  BY <1>1, <1>2, PutTurnFields
<1> QED
  BY <1>3 DEF none, zero, no

LEMMA DnsFacts ==
  ASSUME dns \in DnsStates
  PROVE  /\ dns.opt \in DnsOptions /\ dns.opt.servers \in Nat \ {0}
         /\ dns.opt.types \in Nat \ {0}
         /\ dns.pc \in DnsPcs /\ dns.server \in Nat /\ dns.next \in Nat
         /\ dns.open \in SUBSET Nat /\ dns.result \in Seq(QueryResults)
         /\ dns.alive \in BOOLEAN /\ dns.records \in Int /\ dns.success \in BOOLEAN
         /\ dns.exit \in Int /\ dns.answered \in Nat /\ dns.late \in BOOLEAN
<1>1. dns.opt \in DnsOptions
  BY DEF DnsStates
<1>2. dns.opt.servers \in Nat \ {0} /\ dns.opt.types \in Nat \ {0}
  BY <1>1, DnsAssumption DEF DnsOptions
<1> QED
  BY <1>1, <1>2 DEF DnsStates

\* What the queries of a server do while it has its turn.
LEMMA TurnInv ==
  ASSUME DnsInv, dns' \in DnsStates, dns.pc \notin {"next", "done"},
         dns'.pc \notin {"next", "done"},
         dns'.opt = dns.opt, dns'.server = dns.server, dns'.success <=> dns.success,
         dns'.answered = dns.answered, dns'.exit = dns.exit
  PROVE  ServerInv'
<1>1. Finished' = Finished
  BY DEF Finished
<1> QED
  BY <1>1 DEF DnsInv, ServerInv

\* The end of a server's turn, with what it answered.
LEMMA ServerDoneInv ==
  ASSUME DnsInv, dns.pc \notin {"next", "done"}, NEW ok \in BOOLEAN,
         NEW success \in BOOLEAN, success <=> dns.success /\ ok,
         NEW answered \in Nat, answered = IF ok THEN dns.answered + 1 ELSE dns.answered,
         dns' = PutServer(dns, "next", dns.server, success, answered, dns.exit)
  PROVE  DnsInv'
<1>1. /\ dns \in DnsStates /\ "next" \in DnsPcs /\ dns.server \in Nat /\ {} \in SUBSET Nat
      /\ 0 \in Int /\ dns.exit \in Int /\ dns.answered \in Nat /\ dns.success \in BOOLEAN
  BY DnsFacts DEF DnsInv, DnsPcs
<1>2. /\ dns' \in DnsStates /\ dns'.opt = dns.opt /\ dns'.pc = "next"
      /\ dns'.server = dns.server /\ dns'.open = {} /\ dns'.result = dns.result
      /\ ~dns'.alive /\ dns'.records = 0 /\ (dns'.success <=> success)
      /\ dns'.exit = dns.exit /\ dns'.answered = answered /\ ~dns'.late
  BY <1>1, PutServerFields
<1>3. QueryInv'
  BY <1>2 DEF DnsInv, QueryInv
<1>4. ServerInv'
  <2>1. Finished' = Finished + 1 /\ Finished = dns.server - 1
    BY <1>1, <1>2 DEF Finished
  <2> QED
    BY <1>1, <1>2, <2>1 DEF DnsInv, ServerInv
<1> QED
  BY <1>2, <1>3, <1>4 DEF DnsInv

\* The three ways a turn ends.
LEMMA ServerEnds ==
  ASSUME DnsInv, ChannelFails \/ WaitFails20s \/ PrintResults
  PROVE  DnsInv'
<1> DEFINE ok == dns.pc = "print" /\ \E i \in DOMAIN dns.result : dns.result[i].record
           success == dns.success /\ ok
           answered == IF ok THEN dns.answered + 1 ELSE dns.answered
<1>1. /\ dns \in DnsStates /\ ~dns.late /\ dns.success \in BOOLEAN /\ dns.answered \in Nat
      /\ dns.pc \in {"channel", "wait", "print"}
      /\ dns.pc # "wait" => dns.open = {}
      /\ dns.pc = "channel" => dns.records = 0
  BY DnsFacts DEF DnsInv, QueryInv, ChannelFails, WaitFails20s, PrintResults, DnsAt
<1>2. dns' = PutServer(dns, "next", dns.server, success, answered, dns.exit)
  <2>1. CASE ChannelFails
    BY <1>1, <2>1 DEF ChannelFails, ServerDone, PutServer, PutTurn, DnsStates, DnsAt
  <2>2. CASE WaitFails20s
    BY <1>1, <2>2 DEF WaitFails20s, ServerDone, PutServer, PutTurn, DnsStates, DnsAt
  <2>3. CASE PrintResults
    <3>1. dns' = ServerDone([dns EXCEPT !.records = 0], ok)
      BY <2>3, Zenon DEF PrintResults, DnsAt
    <3>2. dns.open = {}
      BY <1>1, <2>3 DEF PrintResults, DnsAt
    <3> HIDE DEF ok
    <3>3. CASE ok
      BY <1>1, <3>1, <3>2, <3>3 DEF ServerDone, PutServer, PutTurn, DnsStates
    <3>4. CASE ~ok
      BY <1>1, <3>1, <3>2, <3>4 DEF ServerDone, PutServer, PutTurn, DnsStates
    <3> QED
      BY <3>3, <3>4
  <2> QED
    BY <2>1, <2>2, <2>3
<1>3. /\ ok \in BOOLEAN /\ success \in BOOLEAN /\ answered \in Nat
      /\ success <=> dns.success /\ ok
      /\ answered = IF ok THEN dns.answered + 1 ELSE dns.answered
  BY <1>1
<1> HIDE DEF ok, success, answered
<1> QED
  BY <1>1, <1>2, <1>3, ServerDoneInv

LEMMA NextServerInv == ASSUME DnsInv, NextServer PROVE DnsInv'
<1>1. /\ dns \in DnsStates /\ dns.pc = "next" /\ ~dns.late /\ ~dns.alive /\ dns.records = 0
      /\ dns.open = {} /\ "channel" \in DnsPcs /\ "done" \in DnsPcs /\ dns.server + 1 \in Nat
      /\ dns.opt.servers \in Nat /\ dns.server \in 1 .. dns.opt.servers
      /\ dns.exit \in Int /\ dns.answered \in Nat /\ dns.success \in BOOLEAN
      /\ DOMAIN dns.result = 1 .. dns.opt.types /\ 0 \in Int /\ 1 \in Int /\ dns.server \in Nat
      /\ dns.exit = -1 /\ (dns.success <=> dns.answered = dns.server)
      /\ dns.answered <= dns.server /\ {} \in SUBSET Nat
  BY DnsFacts DEF DnsInv, QueryInv, ServerInv, Finished, NextServer, DnsAt, DnsPcs
<1>2. ASSUME NEW to \in {"channel", "done"}, NEW server \in Nat, NEW code \in Int,
             dns' = PutServer(dns, to, server, dns.success, dns.answered, code)
      PROVE  /\ dns' \in DnsStates /\ QueryInv' /\ dns'.opt = dns.opt /\ dns'.pc = to
             /\ dns'.server = server /\ (dns'.success <=> dns.success)
             /\ dns'.answered = dns.answered /\ dns'.exit = code
  <2>1. /\ dns' \in DnsStates /\ dns'.opt = dns.opt /\ dns'.pc = to
        /\ dns'.server = server /\ dns'.open = {} /\ dns'.result = dns.result
        /\ ~dns'.alive /\ dns'.records = 0 /\ (dns'.success <=> dns.success)
        /\ dns'.exit = code /\ dns'.answered = dns.answered /\ ~dns'.late
    BY <1>1, <1>2, PutServerFields
  <2> QED
    BY <1>1, <2>1 DEF QueryInv
<1>3. CASE dns.server < dns.opt.servers
  <2> DEFINE s == dns.server + 1
  <2>1. dns' = PutServer(dns, "channel", s, dns.success, dns.answered, dns.exit)
    BY <1>1, <1>3 DEF NextServer, PutServer, PutTurn, DnsStates
  <2>2. s \in Nat /\ s = dns.server + 1
    BY <1>1
  <2> HIDE DEF s
  <2>3. /\ dns' \in DnsStates /\ QueryInv' /\ dns'.opt = dns.opt /\ dns'.pc = "channel"
        /\ dns'.server = s /\ (dns'.success <=> dns.success)
        /\ dns'.answered = dns.answered /\ dns'.exit = dns.exit
    BY <1>1, <1>2, <2>1, <2>2
  <2>4. ServerInv'
    BY <1>1, <1>3, <2>2, <2>3 DEF ServerInv, Finished
  <2> QED
    BY <2>3, <2>4 DEF DnsInv
<1>4. CASE ~(dns.server < dns.opt.servers)
  <2>1. ASSUME NEW code \in {0, 1}, code = 0 <=> dns.success,
               dns' = PutServer(dns, "done", dns.server, dns.success, dns.answered, code)
        PROVE  DnsInv'
    <3>1. /\ dns' \in DnsStates /\ QueryInv' /\ dns'.opt = dns.opt /\ dns'.pc = "done"
          /\ dns'.server = dns.server /\ (dns'.success <=> dns.success)
          /\ dns'.answered = dns.answered /\ dns'.exit = code
      BY <1>1, <1>2, <2>1
    <3>2. ServerInv'
      BY <1>1, <1>4, <2>1, <3>1 DEF ServerInv, Finished
    <3> QED
      BY <3>1, <3>2 DEF DnsInv
  <2>2. CASE dns.success
    <3>1. dns' = PutServer(dns, "done", dns.server, dns.success, dns.answered, 0)
      BY <1>1, <1>4, <2>2 DEF NextServer, PutServer, PutTurn, DnsStates
    <3> QED
      BY <2>1, <2>2, <3>1
  <2>3. CASE ~dns.success
    <3>1. dns' = PutServer(dns, "done", dns.server, dns.success, dns.answered, 1)
      BY <1>1, <1>4, <2>3 DEF NextServer, PutServer, PutTurn, DnsStates
    <3> QED
      BY <2>1, <2>3, <3>1
  <2> QED
    BY <2>2, <2>3
<1> QED
  BY <1>3, <1>4

LEMMA LibraryInv == ASSUME DnsInv, LibraryFails \/ LibraryReady PROVE DnsInv'
<1>1. /\ dns \in DnsStates /\ dns.pc = "library" /\ ~dns.late /\ ~dns.alive
      /\ dns.records = 0 /\ dns.open = {}
      /\ dns.opt.servers \in Nat /\ dns.server \in 1 .. dns.opt.servers /\ dns.server \in Nat
      /\ dns.answered \in Nat /\ dns.success \in BOOLEAN /\ dns.answered < dns.server
      /\ DOMAIN dns.result = 1 .. dns.opt.types /\ dns.exit = -1
  BY DnsFacts DEF DnsInv, QueryInv, ServerInv, Finished, LibraryFails, LibraryReady, DnsAt
<1>2. ASSUME NEW to \in {"channel", "done"}, NEW code \in Int,
             dns' = PutServer(dns, to, dns.server, dns.success, dns.answered, code)
      PROVE  /\ dns' \in DnsStates /\ QueryInv' /\ dns'.opt = dns.opt /\ dns'.pc = to
             /\ dns'.server = dns.server /\ (dns'.success <=> dns.success)
             /\ dns'.answered = dns.answered /\ dns'.exit = code
  <2>1. to \in DnsPcs
    BY DEF DnsPcs
  <2>2. /\ dns' \in DnsStates /\ dns'.opt = dns.opt /\ dns'.pc = to
        /\ dns'.server = dns.server /\ dns'.open = {} /\ dns'.result = dns.result
        /\ ~dns'.alive /\ dns'.records = 0 /\ (dns'.success <=> dns.success)
        /\ dns'.exit = code /\ dns'.answered = dns.answered /\ ~dns'.late
    BY <1>1, <1>2, <2>1, PutServerFields
  <2> QED
    BY <1>1, <2>2 DEF QueryInv
<1>3. CASE LibraryFails
  <2>1. dns' = PutServer(dns, "done", dns.server, dns.success, dns.answered, 1)
    BY <1>1, <1>3 DEF LibraryFails, PutServer, PutTurn, DnsStates
  <2>2. /\ dns' \in DnsStates /\ QueryInv' /\ dns'.opt = dns.opt /\ dns'.pc = "done"
        /\ dns'.server = dns.server /\ dns'.answered = dns.answered /\ dns'.exit = 1
    BY <1>2, <2>1
  <2>3. ServerInv'
    BY <1>1, <2>2 DEF ServerInv, Finished
  <2> QED
    BY <2>2, <2>3 DEF DnsInv
<1>4. CASE LibraryReady
  <2>1. dns' = PutServer(dns, "channel", dns.server, dns.success, dns.answered, dns.exit)
    BY <1>1, <1>4 DEF LibraryReady, PutServer, PutTurn, DnsStates
  <2>2. dns.exit \in Int
    BY <1>1
  <2>3. /\ dns' \in DnsStates /\ QueryInv' /\ dns'.opt = dns.opt /\ dns'.pc = "channel"
        /\ dns'.server = dns.server /\ (dns'.success <=> dns.success)
        /\ dns'.answered = dns.answered /\ dns'.exit = dns.exit
    BY <1>2, <2>1, <2>2
  <2>4. ServerInv'
    BY <1>1, <2>3, TurnInv
  <2> QED
    BY <2>3, <2>4 DEF DnsInv
<1> QED
  BY <1>3, <1>4

-----------------------------------------------------------------------------
\* What a step of the queries has to keep, and what follows.
LEMMA QueriesStep ==
  ASSUME DnsInv, dns.pc \notin {"next", "done"}, NEW to \in DnsPcs, to \notin {"next", "done"},
         NEW next \in Nat, NEW open \in SUBSET Nat, NEW answers \in Seq(QueryResults),
         NEW alive \in BOOLEAN, NEW records \in Int,
         dns' = PutQueries(dns, to, next, open, answers, alive, records)
  PROVE  /\ dns' \in DnsStates /\ ServerInv' /\ ~dns'.late
         /\ dns'.opt = dns.opt /\ dns'.pc = to /\ dns'.next = next /\ dns'.open = open
         /\ dns'.result = answers /\ (dns'.alive <=> alive) /\ dns'.records = records
<1>1. dns \in DnsStates /\ ~dns.late
  BY DEF DnsInv, QueryInv
<1>2. /\ dns' \in DnsStates
      /\ dns'.opt = dns.opt /\ dns'.pc = to /\ dns'.server = dns.server /\ dns'.next = next
      /\ dns'.open = open /\ dns'.result = answers /\ (dns'.alive <=> alive)
      /\ dns'.records = records /\ (dns'.success <=> dns.success) /\ dns'.exit = dns.exit
      /\ dns'.answered = dns.answered /\ (dns'.late <=> dns.late)
  <2> DEFINE r == PutQueries(dns, to, next, open, answers, alive, records)
  <2>1. /\ r \in DnsStates
        /\ r.opt = dns.opt /\ r.pc = to /\ r.server = dns.server /\ r.next = next
        /\ r.open = open /\ r.result = answers /\ r.alive = alive
        /\ r.records = records /\ r.success = dns.success /\ r.exit = dns.exit
        /\ r.answered = dns.answered /\ r.late = dns.late
    BY <1>1, PutQueriesFields, SMTT(30)
  <2> HIDE DEF r
  <2> QED
    BY <2>1 DEF r
<1>3. ServerInv'
  BY <1>2, TurnInv
<1> QED
  BY <1>1, <1>2, <1>3

LEMMA OpenChannelInv == ASSUME DnsInv, OpenChannel PROVE DnsInv'
<1> DEFINE R == [i \in DOMAIN dns.result |-> NoAnswer]
           one == 1
           yes == TRUE
<1>1. /\ dns \in DnsStates /\ dns.pc = "channel" /\ dns.open = {} /\ dns.open \in SUBSET Nat
      /\ dns.records = 0 /\ dns.records \in Int /\ dns.opt.types \in Nat
      /\ "query" \in DnsPcs /\ dns.result \in Seq(QueryResults)
      /\ DOMAIN dns.result = 1 .. dns.opt.types
  BY DnsFacts DEF DnsInv, QueryInv, OpenChannel, DnsAt, DnsPcs
<1>2. /\ R \in Seq(QueryResults) /\ DOMAIN R = DOMAIN dns.result
      /\ \A i \in DOMAIN R : ~R[i].record
  <2>1. NoAnswer \in QueryResults /\ ~NoAnswer.record
    BY DEF NoAnswer, QueryResults
  <2>2. R = [i \in 1 .. dns.opt.types |-> NoAnswer]
    BY <1>1
  <2> HIDE DEF R
  <2>3. R \in Seq(QueryResults)
    BY <1>1, <2>1, <2>2
  <2> QED
    BY <1>1, <2>1, <2>2, <2>3
<1>3. dns' = PutQueries(dns, "query", one, dns.open, R, yes, dns.records)
  BY <1>1 DEF OpenChannel, PutQueries, DnsStates
<1>4. one = 1 /\ one \in Nat /\ yes \in BOOLEAN /\ yes = TRUE
  OBVIOUS
<1> HIDE DEF R, one, yes
<1>5. /\ dns' \in DnsStates /\ ServerInv' /\ ~dns'.late
      /\ dns'.opt = dns.opt /\ dns'.pc = "query" /\ dns'.next = one /\ dns'.open = dns.open
      /\ dns'.result = R /\ (dns'.alive <=> yes) /\ dns'.records = dns.records
  <2>1. /\ dns.pc \notin {"next", "done"} /\ dns.records \in Int /\ "query" \in DnsPcs
        /\ dns.open \in SUBSET Nat /\ one \in Nat /\ yes \in BOOLEAN
        /\ R \in Seq(QueryResults)
    BY <1>1, <1>2, <1>4
  <2> QED
    BY <1>3, <2>1, QueriesStep
<1>6. 0 <= Cardinality(Held(R))
  <2>1. Held(R) = {}
    BY <1>2 DEF Held
  <2> QED
    BY <2>1, FS_EmptySet
<1>7. QueryInv'
  BY <1>1, <1>2, <1>4, <1>5, <1>6 DEF QueryInv
<1> QED
  BY <1>5, <1>7 DEF DnsInv

LEMMA SentInv == ASSUME DnsInv, AllSent \/ Answered PROVE DnsInv'
<1> DEFINE to == IF dns.pc = "query" THEN "wait" ELSE "print"
<1>1. /\ dns \in DnsStates /\ dns.pc \in {"query", "wait"} /\ to \in DnsPcs
      /\ to = "print" => dns.open = {}
      /\ to \in {"wait", "print"}
      /\ dns.next \in Nat /\ dns.open \in SUBSET Nat /\ dns.result \in Seq(QueryResults)
      /\ dns.alive \in BOOLEAN /\ dns.records \in Int /\ dns.opt.types \in Nat
      /\ dns.pc = "query" => dns.next > dns.opt.types
  BY DnsFacts DEF DnsInv, AllSent, Answered, DnsAt, DnsPcs
<1>2. dns' = PutQueries(dns, to, dns.next, dns.open, dns.result, dns.alive, dns.records)
  <2>1. CASE AllSent
    BY <1>1, <2>1 DEF AllSent, DnsAt, PutQueries, DnsStates
  <2>2. CASE Answered
    BY <1>1, <2>2 DEF Answered, DnsAt, PutQueries, DnsStates
  <2> QED
    BY <2>1, <2>2
<1> HIDE DEF to
<1>3. /\ dns' \in DnsStates /\ ServerInv' /\ ~dns'.late
      /\ dns'.opt = dns.opt /\ dns'.pc = to /\ dns'.next = dns.next /\ dns'.open = dns.open
      /\ dns'.result = dns.result /\ (dns'.alive <=> dns.alive) /\ dns'.records = dns.records
  BY <1>1, <1>2, QueriesStep
<1>4. \A i \in DOMAIN dns.result : i \in dns.open \/ dns.result[i].completed
  BY <1>1 DEF DnsInv, QueryInv
<1>5. QueryInv'
  BY <1>1, <1>3, <1>4 DEF DnsInv, QueryInv
<1> QED
  BY <1>3, <1>5 DEF DnsInv

\* One more result with a record.
LEMMA HeldGrows ==
  ASSUME NEW n \in Nat, NEW answers, DOMAIN answers = 1 .. n, NEW i \in 1 .. n,
         ~answers[i].record, NEW q \in QueryResults
  PROVE  LET r == [answers EXCEPT ![i] = q]
         IN  Cardinality(Held(r)) = IF q.record THEN Cardinality(Held(answers)) + 1
                                    ELSE Cardinality(Held(answers))
<1> DEFINE r == [answers EXCEPT ![i] = q]
<1>1. IsFiniteSet(1 .. n)
  BY FS_Interval
<1>2. IsFiniteSet(Held(answers))
  <2>1. Held(answers) \in SUBSET (1 .. n)
    BY DEF Held
  <2> QED
    BY <1>1, <2>1, FS_Subset
<1>3. i \notin Held(answers)
  BY DEF Held
<1>4. CASE q.record
  <2>1. Held(r) = Held(answers) \cup {i}
    BY <1>4 DEF Held
  <2> QED
    BY <1>2, <1>3, <1>4, <2>1, FS_AddElement
<1>5. CASE ~q.record
  <2>1. Held(r) = Held(answers)
    BY <1>3, <1>5 DEF Held
  <2> QED
    BY <1>5, <2>1
<1> QED
  BY <1>4, <1>5

\* The results that hold a record can be counted.
LEMMA HeldCount == ASSUME DnsInv PROVE Cardinality(Held(dns.result)) \in Nat
<1>1. dns.opt.types \in Int /\ 1 \in Int
  BY DnsFacts DEF DnsInv
<1>2. IsFiniteSet(1 .. dns.opt.types)
  BY <1>1, FS_Interval
<1>3. Held(dns.result) \in SUBSET (1 .. dns.opt.types)
  BY DEF Held, DnsInv, QueryInv
<1> QED
  BY <1>2, <1>3, FS_Subset, FS_CardinalityType

\* query_callback, for a query that the event thread has or for the one being made.
Called(i, next, status, record) ==
  dns' = Filled([dns EXCEPT !.next = next], i, status, record)

LEMMA CallbackInv ==
  ASSUME DnsInv, dns.pc \in {"query", "wait"}, NEW i \in DOMAIN dns.result,
         ~dns.result[i].record, NEW next \in Nat,
         next = dns.next \/ (i = dns.next /\ next = dns.next + 1),
         dns.pc = "query" => i < next,
         NEW status \in Statuses, NEW record \in BOOLEAN, Called(i, next, status, record)
  PROVE  DnsInv'
<1> DEFINE q == [completed |-> TRUE, status |-> status, record |-> record]
           R == [dns.result EXCEPT ![i] = q]
           open == dns.open \ {i}
           n == IF record THEN dns.records + 1 ELSE dns.records
<1>1. /\ dns \in DnsStates /\ ~dns.late /\ dns.alive /\ dns.pc \in DnsPcs
      /\ dns.open \in SUBSET Nat /\ dns.result \in Seq(QueryResults)
      /\ dns.records \in Int /\ dns.pc \notin {"next", "done"}
  BY DnsFacts DEF DnsInv, QueryInv
<1>2. q \in QueryResults /\ (q.record <=> record) /\ q.completed
  BY DEF QueryResults
<1>3. R \in Seq(QueryResults) /\ R = [dns.result EXCEPT ![i] = q]
  <2> HIDE DEF q
  <2> QED
    BY <1>1, <1>2
<1>4. /\ open \in SUBSET Nat /\ n \in Int /\ open = dns.open \ {i}
      /\ n = IF q.record THEN dns.records + 1 ELSE dns.records
  BY <1>1, <1>2
<1>5. dns' = PutQueries(dns, dns.pc, next, open, R, dns.alive, n)
  <2>1. CASE record
    BY <1>1, <2>1 DEF Called, Filled, PutQueries, DnsStates
  <2>2. CASE ~record
    BY <1>1, <2>2 DEF Called, Filled, PutQueries, DnsStates
  <2> QED
    BY <2>1, <2>2
<1> HIDE DEF q, R, open, n
<1>6. /\ dns' \in DnsStates /\ ServerInv' /\ ~dns'.late
      /\ dns'.opt = dns.opt /\ dns'.pc = dns.pc /\ dns'.next = next /\ dns'.open = open
      /\ dns'.result = R /\ (dns'.alive <=> dns.alive) /\ dns'.records = n
  <2>1. /\ dns.pc \notin {"next", "done"} /\ dns.pc \in DnsPcs /\ n \in Int
        /\ open \in SUBSET Nat /\ R \in Seq(QueryResults) /\ dns.alive \in BOOLEAN
    BY <1>1, <1>3, <1>4, DnsFacts
  <2> QED
    BY <1>5, <2>1, QueriesStep
<1>7. /\ dns \in DnsStates /\ ~dns.late /\ dns.alive /\ dns.pc \in DnsPcs
      /\ dns.next \in Nat /\ dns.open \in SUBSET Nat /\ dns.result \in Seq(QueryResults)
      /\ dns.records \in Int /\ dns.opt.types \in Nat /\ DOMAIN dns.result = 1 .. dns.opt.types
      /\ dns.pc \notin {"next", "done"} /\ dns.open \subseteq DOMAIN dns.result
      /\ dns.records <= Cardinality(Held(dns.result))
  BY DnsFacts DEF DnsInv, QueryInv
<1>8. /\ R \in Seq(QueryResults) /\ DOMAIN R = DOMAIN dns.result /\ R[i] = q
      /\ \A j \in DOMAIN dns.result \ {i} : R[j] = dns.result[j]
  BY <1>1, <1>3, <1>7
<1>9. n <= Cardinality(Held(R))
  <2>1. Cardinality(Held(R)) = IF q.record THEN Cardinality(Held(dns.result)) + 1
                               ELSE Cardinality(Held(dns.result))
    BY <1>2, <1>3, <1>7, HeldGrows
  <2>2. Cardinality(Held(dns.result)) \in Nat
    BY HeldCount
  <2> QED
    BY <1>4, <1>7, <2>1, <2>2
<1>10. ASSUME NEW j \in open PROVE ~R[j].record /\ (dns.pc = "query" => j < next)
  <2>1. /\ j \in dns.open /\ j \in DOMAIN dns.result \ {i} /\ j \in Nat
        /\ ~dns.result[j].record /\ (dns.pc = "query" => j < dns.next)
    BY <1>4, <1>7 DEF DnsInv, QueryInv
  <2> QED
    BY <1>7, <1>8, <2>1
<1>11. ASSUME dns.pc = "query", NEW j \in DOMAIN R
      PROVE  /\ next > 0
             /\ IF j < next THEN j \in open \/ R[j].completed ELSE ~R[j].record
  <2>1. dns.next > 0 /\ next > 0
    BY <1>7, <1>11 DEF DnsInv, QueryInv
  <2>2. CASE j = i
    BY <1>2, <1>8, <1>11, <2>1, <2>2
  <2>3. CASE j # i
    <3>1. /\ R[j] = dns.result[j] /\ j \in Nat /\ i \in Nat
          /\ j \in open <=> j \in dns.open
          /\ IF j < dns.next THEN j \in dns.open \/ dns.result[j].completed
             ELSE ~dns.result[j].record
      BY <1>4, <1>7, <1>8, <1>11, <2>3 DEF DnsInv, QueryInv
    <3> QED
      BY <1>7, <2>1, <2>3, <3>1
  <2> QED
    BY <2>2, <2>3
<1>12. dns.pc = "wait" => \A j \in DOMAIN R : j \in open \/ R[j].completed
  BY <1>2, <1>4, <1>7, <1>8 DEF DnsInv, QueryInv
<1>13. QueryInv'
  <2>1. i \in DOMAIN R
    BY <1>8
  <2>2. dns.pc = "query" => next > 0
    BY <1>11, <2>1
  <2>3. open \subseteq DOMAIN R /\ DOMAIN R = 1 .. dns.opt.types
    BY <1>4, <1>7, <1>8
  <2>4. Held(dns'.result) = Held(R)
    BY <1>6
  <2>5. dns'.records <= Cardinality(Held(dns'.result))
    BY <1>6, <1>9, <2>4
  <2> QED
    BY <1>6, <1>7, <1>10, <1>11, <1>12, <2>2, <2>3, <2>5 DEF QueryInv
<1> QED
  BY <1>6, <1>13 DEF DnsInv

LEMMA EventThreadInv == ASSUME DnsInv, EventThread PROVE DnsInv'
<1>1. PICK i \in dns.open, status \in Statuses, record \in BOOLEAN :
        dns' = Filled(dns, i, status, record)
  BY DEF EventThread, Answer, QueryTimesOut, Statuses
<1>2. /\ dns \in DnsStates /\ dns.next \in Nat /\ dns.pc \in {"query", "wait"}
      /\ i \in DOMAIN dns.result /\ ~dns.result[i].record /\ (dns.pc = "query" => i < dns.next)
  BY <1>1, DnsFacts DEF DnsInv, QueryInv
<1>3. Called(i, dns.next, status, record)
  <2>1. dns = [dns EXCEPT !.next = dns.next]
    BY <1>2 DEF DnsStates
  <2> QED
    BY <1>1, <2>1 DEF Called
<1> QED
  BY <1>1, <1>2, <1>3, CallbackInv

LEMMA QueryMadeInv == ASSUME DnsInv, Query PROVE DnsInv'
<1> DEFINE i == dns.next
           next == dns.next + 1
           open == dns.open \cup {i}
<1>1. /\ dns \in DnsStates /\ dns.pc = "query" /\ dns.alive /\ dns.pc \in DnsPcs
      /\ i \in Nat /\ next \in Nat /\ next = i + 1 /\ i = dns.next
      /\ dns.open \in SUBSET Nat /\ dns.result \in Seq(QueryResults)
      /\ dns.records \in Int /\ dns.pc \notin {"next", "done"} /\ dns.alive \in BOOLEAN
      /\ dns.opt.types \in Nat /\ i > 0 /\ i <= dns.opt.types
      /\ DOMAIN dns.result = 1 .. dns.opt.types
  BY DnsFacts DEF DnsInv, QueryInv, Query, DnsAt
<1>2. i \in DOMAIN dns.result /\ ~dns.result[i].record
  BY <1>1 DEF DnsInv, QueryInv
<1>3. open \in SUBSET Nat /\ open = dns.open \cup {i}
  BY <1>1
<1>4. \/ dns' = PutQueries(dns, dns.pc, next, open, dns.result, dns.alive, dns.records)
      \/ Called(i, next, "nomem", FALSE)
  <2>1. CASE dns' = [[dns EXCEPT !.next = @ + 1] EXCEPT !.open = @ \cup {i}]
    BY <1>1, <2>1 DEF PutQueries, DnsStates
  <2>2. CASE dns' = Filled([dns EXCEPT !.next = @ + 1], i, "nomem", FALSE)
    BY <2>2 DEF Called
  <2> QED
    BY <2>1, <2>2, Zenon DEF Query
<1> HIDE DEF i, next, open
<1>5. CASE dns' = PutQueries(dns, dns.pc, next, open, dns.result, dns.alive, dns.records)
  <2>1. /\ dns' \in DnsStates /\ ServerInv' /\ ~dns'.late
        /\ dns'.opt = dns.opt /\ dns'.pc = dns.pc /\ dns'.next = next /\ dns'.open = open
        /\ dns'.result = dns.result /\ (dns'.alive <=> dns.alive)
        /\ dns'.records = dns.records
    <3>1. /\ dns.pc \notin {"next", "done"} /\ dns.pc \in DnsPcs /\ dns.records \in Int
          /\ open \in SUBSET Nat /\ dns.result \in Seq(QueryResults) /\ dns.alive \in BOOLEAN
          /\ next \in Nat
      BY <1>1, <1>3
    <3> QED
      BY <1>5, <3>1, QueriesStep
  <2>2. \A j \in open : ~dns.result[j].record /\ j < next
    BY <1>1, <1>2, <1>3 DEF DnsInv, QueryInv
  <2>3. \A j \in DOMAIN dns.result :
          IF j < next THEN j \in open \/ dns.result[j].completed ELSE ~dns.result[j].record
    BY <1>1, <1>2, <1>3 DEF DnsInv, QueryInv
  <2>4. QueryInv'
    BY <1>1, <1>2, <1>3, <2>1, <2>2, <2>3 DEF DnsInv, QueryInv
  <2> QED
    BY <2>1, <2>4 DEF DnsInv
<1>6. CASE Called(i, next, "nomem", FALSE)
  <2>1. "nomem" \in Statuses /\ i < next /\ FALSE \in BOOLEAN
    BY <1>1 DEF Statuses
  <2> QED
    BY <1>1, <1>2, <1>6, <2>1, CallbackInv
<1> QED
  BY <1>4, <1>5, <1>6

LEMMA DnsNextInv == ASSUME DnsInv, DnsStep \/ EventThread \/ UNCHANGED dns PROVE DnsInv'
<1>1. CASE UNCHANGED dns
  BY <1>1 DEF DnsInv, QueryInv, ServerInv, Finished
<1> QED
  BY <1>1, EventThreadInv, LibraryInv, OpenChannelInv, QueryMadeInv, SentInv, ServerEnds,
     NextServerInv DEF DnsStep

LEMMA DnsInitInv == DnsInit => DnsInv
<1> SUFFICES ASSUME NEW options \in DnsOptions, dns = DnsStart(options)
             PROVE  DnsInv
  BY DEF DnsInit
<1> DEFINE R == [i \in 1 .. options.types |-> NoAnswer]
<1>1. options.servers \in Nat \ {0} /\ options.types \in Nat \ {0}
  BY DnsAssumption DEF DnsOptions
<1>2. NoAnswer \in QueryResults /\ ~NoAnswer.record
  BY DEF NoAnswer, QueryResults
<1>3. R \in Seq(QueryResults) /\ DOMAIN R = 1 .. options.types
  BY <1>1, <1>2
<1>4. /\ dns.opt = options /\ dns.pc = "library" /\ dns.server = 1 /\ dns.open = {}
      /\ dns.result = R /\ ~dns.alive /\ dns.records = 0 /\ dns.success
      /\ dns.exit = -1 /\ dns.answered = 0 /\ ~dns.late
  BY DEF DnsStart
<1>5. dns = [opt |-> options, pc |-> "library", server |-> 1, next |-> 1, open |-> {},
             result |-> R, alive |-> FALSE, records |-> 0, success |-> TRUE, exit |-> -1,
             answered |-> 0, late |-> FALSE]
  BY DEF DnsStart
<1> HIDE DEF R
<1>8. dns \in DnsStates
  BY <1>3, <1>5 DEF DnsStates, DnsPcs
<1>6. QueryInv
  BY <1>1, <1>3, <1>4 DEF QueryInv
<1>7. ServerInv
  BY <1>1, <1>4 DEF ServerInv, Finished
<1> QED
  BY <1>6, <1>7, <1>8 DEF DnsInv

LEMMA DnsSafe == DnsInv => CallbacksSafe
<1> SUFFICES ASSUME DnsInv PROVE CallbacksSafe
  OBVIOUS
<1>1. dns.pc \in DnsPcs /\ dns.records \in Int /\ dns.answered \in Nat
      /\ dns.opt.servers \in Nat /\ dns.opt.types \in Nat
  BY DnsFacts DEF DnsInv
<1>2. ~dns.late /\ (dns.open # {} => dns.alive)
      /\ (dns.pc \in {"next", "done"} => dns.records = 0)
  BY DEF DnsInv, QueryInv
<1>3. dns.pc = "print" => \A i \in DOMAIN dns.result : dns.result[i].completed
  BY DEF DnsInv, QueryInv
<1>4. dns.records <= Cardinality(Held(dns.result))
  <2>1. Cardinality(Held(dns.result)) \in Nat
    BY HeldCount
  <2> QED
    BY <1>1, <2>1 DEF DnsInv, QueryInv
<1>5. dns.exit = 0 <=> dns.pc = "done" /\ dns.answered = dns.opt.servers
  BY <1>1 DEF DnsInv, ServerInv
<1> QED
  BY <1>2, <1>3, <1>4, <1>5 DEF CallbacksSafe, Held

LEMMA DnsInvariant == Spec => []DnsInv
<1>1. Init => DnsInv
  <2>1. Init => DnsInit
    BY DnsAssumption DEF Init, DnsInit, DnsOptions
  <2> QED
    BY <2>1, DnsInitInv
<1>2. DnsInv /\ [Next]_vars => DnsInv'
  <2>1. [Next]_vars => DnsStep \/ EventThread \/ UNCHANGED dns
    BY DEF Next, vars, Stls, Sdns, Sttp, Netst, NProbe
  <2> QED
    BY <2>1, DnsNextInv
<1> QED
  BY <1>1, <1>2, DnsInitInv, PTL DEF Spec

\* The event thread never calls back into results that are gone, what is printed is
\* complete, no copy of a record is left behind, and status 0 means that every server
\* has answered something.
THEOREM SdnsCallbacks == Spec => []CallbacksSafe
BY DnsInvariant, DnsSafe, PTL

-----------------------------------------------------------------------------
(* sttp.                                                                   *)

HttpPcs ==
  {"target", "headers", "upload", "size", "perform", "body", "performed", "flush", "done"}

HttpFiles == {"output", "headers", "upload"}

HttpStreams == {"output", "stdout", "headers"}

Outcomes == {"none", "ok", "error", "timeout"}

Aborters == {"none", "write", "headers", "upload"}

FileSets == SUBSET HttpFiles
StreamSets == SUBSET HttpStreams
NameSeqs == Seq(BOOLEAN)

HttpStates ==
  [opt : HttpOptions, pc : HttpPcs, files : FileSets, remote : Nat,
   opened : BOOLEAN, outputError : BOOLEAN, responses : Nat, chunks : Nat, written : Nat,
   result : Outcomes, exit : Int, disposed : NameSeqs, name : Int,
   aborted : Aborters, sent : BOOLEAN, exists : BOOLEAN, lost : StreamSets]

\* A byte of the body's file that is lost is an error of the output, and so is a transfer
\* that write_callback has ended; a transfer a callback has ended has failed.
FaultInv ==
  /\ "output" \in http.lost \/ http.aborted = "write" => http.outputError
  /\ http.aborted # "none" => http.result = "error"

\* The file named before is open, the body is written in its own stage, which ends well
\* only when all of it is, and by the end the file of -Dd has been opened.
StageInv ==
  /\ Named /\ http.pc \notin {"target", "done"} => http.opened
  /\ http.pc \in {"target", "headers", "upload", "size", "perform"} =>
       http.written = 0 /\ http.chunks = 0 /\ http.name = -1
  /\ http.pc \in {"target", "headers", "upload", "size", "perform", "body"} =>
       http.result = "none"
  /\ http.result = "timeout" /\ http.written > 0 => http.opt.timed
  /\ http.pc \in {"performed", "flush"} =>
       /\ http.result # "none"
       /\ http.result = "ok" => http.written = http.chunks
  /\ http.pc = "flush" /\ http.result = "ok" /\ http.opt.target = "remote" =>
       http.opened \/ http.outputError
  /\ http.pc # "done" => http.exit = -1

\* remote_filename is the last name given; until write_callback has the whole body all
\* headers are those of responses; the file is made by the first byte or, if there is
\* none, at the end.
NameInv ==
  /\ LastNamed(http.remote, Len(http.disposed))
  /\ http.responses <= Len(http.disposed)
  /\ http.pc \in {"target", "headers", "upload", "size", "perform"} =>
       Len(http.disposed) = http.responses
  /\ http.pc = "body" /\ http.written < http.chunks => Len(http.disposed) = http.responses
  /\ http.opt.target = "remote" /\ http.written > 0 => http.opened
  /\ http.name # -1 /\ http.chunks = 0 => http.pc \in {"flush", "done"}

HttpInv == http \in HttpStates /\ FaultInv /\ StageInv /\ NameInv /\ HttpDelivers

LEMMA HttpFacts ==
  ASSUME HttpInv
  PROVE  /\ http \in HttpStates /\ http.opt \in HttpOptions /\ http.pc \in HttpPcs
         /\ http.opt.target \in {"stdout", "existing", "file", "remote"}
         /\ http.files \in FileSets /\ http.remote \in Nat /\ http.opened \in BOOLEAN
         /\ http.outputError \in BOOLEAN /\ http.responses \in Nat /\ http.chunks \in Nat
         /\ http.written \in Nat /\ http.result \in Outcomes /\ http.exit \in Int
         /\ http.disposed \in NameSeqs /\ http.name \in Int
         /\ http.aborted \in Aborters
         /\ http.sent \in BOOLEAN /\ http.lost \in StreamSets
<1>1. http \in HttpStates
  BY DEF HttpInv
<1>2. http.opt \in HttpOptions
  BY <1>1 DEF HttpStates
<1>3. http.opt.target \in {"stdout", "existing", "file", "remote"}
  BY <1>2 DEF HttpOptions
<1> QED
  BY <1>1, <1>2, <1>3 DEF HttpStates

\* What a step leaves alone.
KeepsOutput ==
  /\ (http'.opened <=> http.opened) /\ (http'.outputError <=> http.outputError)
  /\ http'.lost = http.lost /\ http'.name = http.name

KeepsBody ==
  http'.chunks = http.chunks /\ http'.written = http.written

KeepsHeaders ==
  /\ http'.disposed = http.disposed /\ http'.remote = http.remote
  /\ http'.responses = http.responses

KeepsResult ==
  http'.result = http.result /\ http'.aborted = http.aborted

KeepsAll == KeepsOutput /\ KeepsBody /\ KeepsHeaders /\ KeepsResult

\* The records the actions make are states.
LEMMA HttpTyped ==
  ASSUME NEW h \in HttpStates
  PROVE  /\ \A to \in HttpPcs :
              [h EXCEPT !.pc = to] \in HttpStates
         /\ \A to \in HttpPcs, files \in FileSets :
              [h EXCEPT !.pc = to, !.files = files] \in HttpStates
         /\ \A to \in HttpPcs, files \in FileSets, z \in Int :
              [h EXCEPT !.pc = to, !.files = files, !.exit = z] \in HttpStates
         /\ \A to \in HttpPcs, files \in FileSets, flag \in BOOLEAN :
              [h EXCEPT !.pc = to, !.files = files, !.opened = flag] \in HttpStates
         /\ \A flag \in BOOLEAN :
              [h EXCEPT !.sent = flag] \in HttpStates
         /\ \A names \in NameSeqs, n \in Nat :
              [h EXCEPT !.disposed = names, !.remote = n] \in HttpStates
         /\ \A n \in Nat :
              [h EXCEPT !.responses = n] \in HttpStates
         /\ \A to \in HttpPcs, n \in Nat :
              [h EXCEPT !.pc = to, !.chunks = n] \in HttpStates
         /\ \A to \in HttpPcs, outcome \in Outcomes :
              [h EXCEPT !.pc = to, !.result = outcome] \in HttpStates
         /\ \A by \in Aborters :
              [h EXCEPT !.aborted = by] \in HttpStates
         /\ \A by \in Aborters, lost \in StreamSets :
              [h EXCEPT !.aborted = by, !.lost = lost] \in HttpStates
         /\ \A flag \in BOOLEAN, z \in Int, files \in FileSets :
              [h EXCEPT !.opened = flag, !.name = z, !.files = files] \in HttpStates
         /\ \A flag \in BOOLEAN :
              [h EXCEPT !.outputError = flag] \in HttpStates
         /\ \A flag \in BOOLEAN, by \in Aborters :
              [h EXCEPT !.outputError = flag, !.aborted = by] \in HttpStates
         /\ \A lost \in StreamSets :
              [h EXCEPT !.lost = lost] \in HttpStates
         /\ \A n \in Nat :
              [h EXCEPT !.written = n] \in HttpStates
         /\ \A flag \in BOOLEAN, lost \in StreamSets :
              [h EXCEPT !.outputError = flag, !.lost = lost] \in HttpStates
  BY ZenonT(60) DEF HttpStates

LEMMA SetupFailsInv ==
  ASSUME HttpInv, TargetFails \/ HeadersFail \/ RequestFails \/ SizeFails
  PROVE  HttpInv'
<1> DEFINE none == {}
           two == 2
           done == "done"
<1>1. /\ http \in HttpStates /\ http.pc \in {"target", "headers", "upload", "size"}
      /\ http' = [http EXCEPT !.pc = done, !.files = none, !.exit = two]
      /\ none \in FileSets /\ none = {} /\ done \in HttpPcs /\ two \in Int /\ two = 2 /\ done = "done"
  BY HttpFacts DEF TargetFails, HeadersFail, RequestFails, SizeFails, HttpAt, SetupEnds, FileSets,
       HttpPcs
<1> HIDE DEF none, two, done
<1>2. http' \in HttpStates
  BY <1>1, HttpTyped
<1>3. /\ http'.opt = http.opt /\ http'.pc = "done"
      /\ http'.exit = 2 /\ http'.files = none /\ KeepsAll
  BY <1>1 DEF HttpStates, KeepsAll, KeepsOutput, KeepsBody, KeepsHeaders, KeepsResult
<1> QED
  BY <1>1, <1>2, <1>3 DEF HttpInv, FaultInv, StageInv, NameInv, HttpDelivers, LastNamed, KeepsAll,
                    KeepsOutput, KeepsBody, KeepsHeaders, KeepsResult

\* A file is opened, or none is needed.
LEMMA SetupGoesOnInv ==
  ASSUME HttpInv, OpenTarget \/ OpenHeaders \/ OpenUpload \/ SizeUpload
  PROVE  HttpInv'
<1>1. /\ http \in HttpStates /\ http.pc \in {"target", "headers", "upload", "size"}
      /\ http.files \in FileSets /\ (http.pc # "target" => (Named => http.opened))
  BY HttpFacts DEF HttpInv, StageInv, OpenTarget, OpenHeaders, OpenUpload, SizeUpload, HttpAt
<1>2. ASSUME http' \in HttpStates, http'.opt = http.opt, http'.exit = http.exit,
             http'.pc \in {"headers", "upload", "size", "perform"}, Named => http'.opened,
             http'.outputError <=> http.outputError, http'.lost = http.lost,
             http'.name = http.name, KeepsBody, KeepsHeaders, KeepsResult
      PROVE  HttpInv'
  BY <1>1, <1>2 DEF HttpInv, FaultInv, StageInv, NameInv, HttpDelivers, LastNamed, Named,
                    KeepsBody, KeepsHeaders, KeepsResult
<1>3. ASSUME NEW to \in {"headers", "upload", "size", "perform"}, Named => http.opened,
             http' = [http EXCEPT !.pc = to]
      PROVE  HttpInv'
  <2>1. http' \in HttpStates
    BY <1>1, <1>3, HttpTyped DEF HttpPcs
  <2>2. /\ http'.opt = http.opt /\ http'.exit = http.exit /\ http'.pc = to
        /\ KeepsOutput /\ KeepsBody /\ KeepsHeaders /\ KeepsResult
    BY <1>1, <1>3 DEF HttpStates, KeepsOutput, KeepsBody, KeepsHeaders, KeepsResult
  <2> QED
    BY <1>2, <1>3, <2>1, <2>2 DEF KeepsOutput
<1>4. ASSUME NEW to \in {"headers", "upload", "size", "perform"}, NEW file \in HttpFiles,
             Named => http.opened, Opens(file, to)
      PROVE  HttpInv'
  <2> DEFINE files == http.files \cup {file}
  <2>1. /\ http' = [http EXCEPT !.pc = to, !.files = files] /\ files \in FileSets
        /\ to \in HttpPcs
    BY <1>1, <1>4 DEF Opens, HttpStates, FileSets, HttpPcs
  <2> HIDE DEF files
  <2>2. http' \in HttpStates
    BY <1>1, <2>1, HttpTyped
  <2>3. /\ http'.opt = http.opt /\ http'.exit = http.exit /\ http'.pc = to
        /\ KeepsOutput /\ KeepsBody /\ KeepsHeaders /\ KeepsResult
    BY <1>1, <2>1 DEF HttpStates, KeepsOutput, KeepsBody, KeepsHeaders, KeepsResult
  <2> QED
    BY <1>2, <1>4, <2>2, <2>3 DEF KeepsOutput
<1>5. CASE OpenTarget /\ Named
  <2> DEFINE files == http.files \cup {"output"}
             yes == TRUE
             to == "headers"
  <2>1. /\ http' = [http EXCEPT !.pc = to, !.files = files, !.opened = yes]
        /\ files \in FileSets /\ to \in HttpPcs /\ to = "headers" /\ yes \in BOOLEAN /\ yes
    BY <1>1, <1>5 DEF OpenTarget, HttpStates, FileSets, HttpFiles, HttpPcs
  <2> HIDE DEF files, yes, to
  <2>2. http' \in HttpStates
    BY <1>1, <2>1, HttpTyped
  <2>3. /\ http'.opt = http.opt /\ http'.exit = http.exit /\ http'.pc = to
        /\ http'.opened = yes
        /\ (http'.outputError <=> http.outputError)
        /\ http'.lost = http.lost /\ http'.name = http.name
        /\ KeepsBody /\ KeepsHeaders /\ KeepsResult
    BY <1>1, <2>1 DEF HttpStates, KeepsBody, KeepsHeaders, KeepsResult
  <2> QED
    BY <1>2, <2>1, <2>2, <2>3
<1> QED
  BY <1>1, <1>3, <1>4, <1>5 DEF OpenTarget, OpenHeaders, OpenUpload, SizeUpload, HttpAt,
                                HttpFiles

\* The headers of a response or of a trailer.
LEMMA HeadersFields ==
  ASSUME HttpInv, NEW names \in BOOLEAN, names => http.opt.target = "remote"
  PROVE  LET h == HeadersOf(http, names) IN
         /\ h \in HttpStates /\ h.opt = http.opt /\ h.pc = http.pc
         /\ (h.opened <=> http.opened) /\ (h.outputError <=> http.outputError)
         /\ h.responses = http.responses /\ h.chunks = http.chunks
         /\ h.written = http.written /\ h.result = http.result /\ h.exit = http.exit
         /\ h.name = http.name /\ h.aborted = http.aborted /\ h.lost = http.lost
         /\ h.disposed = Append(http.disposed, names)
         /\ h.remote = IF names THEN Len(http.disposed) + 1 ELSE http.remote
<1> DEFINE more == Append(http.disposed, names)
           n == IF names THEN Len(http.disposed) + 1 ELSE http.remote
<1>1. /\ http \in HttpStates /\ more \in NameSeqs /\ n \in Nat
      /\ HeadersOf(http, names) = [http EXCEPT !.disposed = more, !.remote = n]
  BY HttpFacts DEF NameSeqs, HeadersOf, HttpStates
<1> HIDE DEF more, n
<1>2. HeadersOf(http, names) \in HttpStates
  <2>1. [http EXCEPT !.disposed = more, !.remote = n] \in HttpStates
    BY <1>1, HttpTyped, ZenonT(30)
  <2> QED
    BY <1>1, <2>1, Zenon
<1>3. LET h == HeadersOf(http, names) IN
      /\ h.opt = http.opt /\ h.pc = http.pc
      /\ (h.opened <=> http.opened) /\ (h.outputError <=> http.outputError)
      /\ h.responses = http.responses /\ h.chunks = http.chunks
      /\ h.written = http.written /\ h.result = http.result /\ h.exit = http.exit
      /\ h.name = http.name /\ h.aborted = http.aborted /\ h.lost = http.lost
      /\ h.disposed = more /\ h.remote = n
  BY <1>1 DEF HttpStates
<1> QED
  BY <1>2, <1>3 DEF more, n

\* The last name given is still that, after one more of the headers.
LEMMA LastNamedAppend ==
  ASSUME HttpInv, NEW names \in BOOLEAN, http'.disposed = Append(http.disposed, names),
         http'.remote = IF names THEN Len(http.disposed) + 1 ELSE http.remote
  PROVE  /\ Len(http'.disposed) = Len(http.disposed) + 1
         /\ LastNamed(http.remote, Len(http.disposed))'
         /\ \A n \in Int, k \in 0 .. Len(http.disposed) :
              LastNamed(n, k) => /\ n \in 0 .. k
                                 /\ n > 0 => http'.disposed[n]
                                 /\ \A i \in n + 1 .. k : ~http'.disposed[i]
<1>1. /\ http.disposed \in Seq(BOOLEAN) /\ http.remote \in Nat
      /\ LastNamed(http.remote, Len(http.disposed))
  BY HttpFacts DEF NameSeqs, HttpInv, NameInv
<1>2. /\ Len(http'.disposed) = Len(http.disposed) + 1
      /\ \A i \in 1 .. Len(http.disposed) : http'.disposed[i] = http.disposed[i]
      /\ http'.disposed[Len(http.disposed) + 1] = names
  BY <1>1
<1>3. \A n \in Int, k \in 0 .. Len(http.disposed) :
        LastNamed(n, k) => /\ n \in 0 .. k
                           /\ n > 0 => http'.disposed[n]
                           /\ \A i \in n + 1 .. k : ~http'.disposed[i]
  BY <1>1, <1>2 DEF LastNamed
<1>4. LastNamed(http.remote, Len(http.disposed))'
  BY <1>1, <1>2 DEF LastNamed
<1> QED
  BY <1>2, <1>3, <1>4

\* A response, and what the transfer does after it.
LEMMA ResponseInv ==
  ASSUME HttpInv, InterimResponse \/ Redirect \/ FinalResponse
  PROVE  HttpInv'
<1>1. /\ http \in HttpStates /\ http.pc = "perform" /\ http.responses \in Nat
      /\ "performed" \in HttpPcs /\ "body" \in HttpPcs /\ "error" \in Outcomes
  BY HttpFacts DEF InterimResponse, Redirect, FinalResponse, HttpAt, HttpPcs, Outcomes
<1>2. PICK names \in BOOLEAN, chunks \in Nat :
        /\ names => http.opt.target = "remote"
        /\ \/ http' = Response(names)
           \/ http' = Returns(Response(names), "error")
           \/ http' = [Response(names) EXCEPT !.pc = "body", !.chunks = chunks]
  <2>1. \A names \in Names : names \in BOOLEAN /\ (names => http.opt.target = "remote")
    BY DEF Names
  <2>2. CASE InterimResponse
    BY <2>1, <2>2 DEF InterimResponse
  <2>3. CASE Redirect
    BY <2>1, <2>3 DEF Redirect
  <2>4. CASE FinalResponse
    <3>1. PICK names \in Names, chunks \in 0 .. MaxChunks :
            http' = [Response(names) EXCEPT !.pc = "body", !.chunks = chunks]
      BY <2>4 DEF FinalResponse
    <3>2. chunks \in Nat
      BY HttpAssumption
    <3> QED
      BY <2>1, <3>1, <3>2
  <2> QED
    BY <2>2, <2>3, <2>4
<1> DEFINE g == HeadersOf(http, names)
           n == http.responses + 1
           h == [g EXCEPT !.responses = n]
<1>3. /\ g \in HttpStates /\ g.opt = http.opt /\ g.pc = http.pc
      /\ (g.opened <=> http.opened) /\ (g.outputError <=> http.outputError)
      /\ g.responses = http.responses /\ g.chunks = http.chunks
      /\ g.written = http.written /\ g.result = http.result /\ g.exit = http.exit
      /\ g.name = http.name /\ g.aborted = http.aborted /\ g.lost = http.lost
      /\ g.disposed = Append(http.disposed, names)
      /\ g.remote = IF names THEN Len(http.disposed) + 1 ELSE http.remote
  BY <1>2, HeadersFields
<1>4. Response(names) = h /\ n \in Nat
  BY <1>1, <1>3 DEF Response
<1> HIDE DEF g, n
<1>5. h \in HttpStates
  BY <1>3, <1>4, HttpTyped, ZenonT(30)
<1>6. /\ h.opt = http.opt /\ h.pc = http.pc
      /\ (h.opened <=> http.opened) /\ (h.outputError <=> http.outputError)
      /\ h.responses = n /\ h.chunks = http.chunks
      /\ h.written = http.written /\ h.result = http.result /\ h.exit = http.exit
      /\ h.name = http.name /\ h.aborted = http.aborted /\ h.lost = http.lost
      /\ h.disposed = g.disposed /\ h.remote = g.remote
  BY <1>3, <1>4 DEF HttpStates
<1> HIDE DEF h
<1>7. ASSUME http' \in HttpStates, http'.opt = http.opt, http'.exit = http.exit, KeepsOutput,
             http'.written = http.written, http'.aborted = http.aborted,
             http'.disposed = g.disposed, http'.remote = g.remote, http'.responses = n,
             \/ http'.pc = "perform" /\ http'.chunks = http.chunks /\ http'.result = http.result
             \/ http'.pc = "performed" /\ http'.chunks = http.chunks /\ http'.result = "error"
             \/ http'.pc = "body" /\ http'.result = http.result
      PROVE  HttpInv'
  <2>1. /\ Len(http'.disposed) = Len(http.disposed) + 1
        /\ LastNamed(http.remote, Len(http.disposed))'
    BY <1>3, <1>7, LastNamedAppend
  <2>2. FaultInv' /\ StageInv'
    BY <1>1, <1>7 DEF HttpInv, FaultInv, StageInv, KeepsOutput, Named
  <2>3. http.name = -1 /\ http.written = 0 /\ http.responses = Len(http.disposed)
    BY <1>1 DEF HttpInv, StageInv, NameInv
  <2>4. NameInv'
    BY <1>1, <1>4, <1>7, <2>1, <2>3 DEF n, NameInv, KeepsOutput
  <2>5. HttpDelivers'
    BY <1>1, <1>7, <2>3 DEF HttpInv, StageInv, HttpDelivers, KeepsOutput
  <2> QED
    BY <1>7, <2>2, <2>4, <2>5 DEF HttpInv
<1>8. CASE http' = h
  BY <1>1, <1>5, <1>6, <1>7, <1>8 DEF KeepsOutput
<1>9. CASE http' = Returns(h, "error")
  <2>1. http' = [h EXCEPT !.pc = "performed", !.result = "error"]
    BY <1>9 DEF Returns
  <2>2. http' \in HttpStates
    BY <1>1, <1>5, <2>1, HttpTyped
  <2>3. /\ http'.opt = h.opt /\ http'.pc = "performed"
        /\ (http'.opened <=> h.opened) /\ (http'.outputError <=> h.outputError)
        /\ http'.responses = h.responses /\ http'.chunks = h.chunks
        /\ http'.written = h.written /\ http'.result = "error" /\ http'.exit = h.exit
        /\ http'.name = h.name /\ http'.aborted = h.aborted /\ http'.lost = h.lost
        /\ http'.disposed = h.disposed /\ http'.remote = h.remote
    BY <1>5, <2>1 DEF HttpStates
  <2> QED
    BY <1>1, <1>6, <1>7, <2>2, <2>3 DEF KeepsOutput
<1>10. CASE http' = [h EXCEPT !.pc = "body", !.chunks = chunks]
  <2>1. http' \in HttpStates
    BY <1>1, <1>2, <1>5, <1>10, HttpTyped
  <2>2. /\ http'.opt = h.opt /\ http'.pc = "body"
        /\ (http'.opened <=> h.opened) /\ (http'.outputError <=> h.outputError)
        /\ http'.responses = h.responses
        /\ http'.written = h.written /\ http'.result = h.result /\ http'.exit = h.exit
        /\ http'.name = h.name /\ http'.aborted = h.aborted /\ http'.lost = h.lost
        /\ http'.disposed = h.disposed /\ http'.remote = h.remote
    BY <1>5, <1>10 DEF HttpStates
  <2> QED
    BY <1>1, <1>6, <1>7, <2>1, <2>2 DEF KeepsOutput
<1> QED
  BY <1>2, <1>4, <1>8, <1>9, <1>10

\* Headers after the body, and headers that cannot be written.
LEMMA TrailerInv ==
  ASSUME HttpInv, Trailer \/ HeaderWriteFails
  PROVE  HttpInv'
<1>1. /\ http \in HttpStates /\ http.pc \in {"perform", "body"} /\ http.lost \in StreamSets
      /\ http.pc = "body" => http.written = http.chunks
      /\ "performed" \in HttpPcs /\ "error" \in Outcomes /\ "headers" \in Aborters
  BY HttpFacts DEF Trailer, HeaderWriteFails, Performing, HttpAt, HttpPcs, Outcomes, Aborters
<1>2. PICK names \in BOOLEAN, lost \in StreamSets :
        /\ names => http.opt.target = "remote"
        /\ "output" \in lost => "output" \in http.lost
        /\ \/ http' = HeadersOf(http, names) /\ http.pc = "body"
           \/ http' = Returns([HeadersOf(http, names) EXCEPT !.aborted = "headers",
                                                             !.lost = lost], "error")
  <2>1. \A names \in Names : names \in BOOLEAN /\ (names => http.opt.target = "remote")
    BY DEF Names
  <2>2. CASE Trailer
    BY <1>1, <2>1, <2>2 DEF Trailer, HttpAt
  <2>3. CASE HeaderWriteFails
    <3>1. PICK names \in Names :
            LET h == HeadersOf(http, names) IN
            http' = Returns([h EXCEPT !.aborted = "headers",
                                      !.lost = IF h.opt.headers = "file" THEN @ \cup {"headers"}
                                               ELSE @], "error")
      BY <2>3 DEF HeaderWriteFails
    <3> DEFINE h == HeadersOf(http, names)
               lost == IF h.opt.headers = "file" THEN h.lost \cup {"headers"} ELSE h.lost
    <3>2. h \in HttpStates /\ h.lost = http.lost
      BY <2>1, <3>1, HeadersFields
    <3>3. lost \in StreamSets /\ ("output" \in lost => "output" \in http.lost)
      BY <1>1, <3>2 DEF StreamSets, HttpStreams
    <3>4. http' = Returns([HeadersOf(http, names) EXCEPT !.aborted = "headers", !.lost = lost],
                          "error")
      BY <3>1, <3>2 DEF HttpStates
    <3> HIDE DEF lost, h
    <3> QED
      BY <2>1, <3>1, <3>3, <3>4
  <2> QED
    BY <2>2, <2>3
<1> DEFINE h == HeadersOf(http, names)
<1>3. /\ h \in HttpStates /\ h.opt = http.opt /\ h.pc = http.pc
      /\ (h.opened <=> http.opened) /\ (h.outputError <=> http.outputError)
      /\ h.responses = http.responses /\ h.chunks = http.chunks
      /\ h.written = http.written /\ h.result = http.result /\ h.exit = http.exit
      /\ h.name = http.name /\ h.aborted = http.aborted /\ h.lost = http.lost
      /\ h.disposed = Append(http.disposed, names)
      /\ h.remote = IF names THEN Len(http.disposed) + 1 ELSE http.remote
  BY <1>2, HeadersFields
<1> HIDE DEF h
<1>4. ASSUME http' \in HttpStates, http'.opt = http.opt, http'.exit = http.exit,
             http'.opened <=> http.opened, http'.outputError <=> http.outputError,
             http'.name = http.name, KeepsBody, http'.responses = http.responses,
             "output" \in http'.lost => "output" \in http.lost,
             http'.disposed = h.disposed, http'.remote = h.remote,
             \/ /\ http.pc = "body" /\ http'.pc = "body"
                /\ http'.result = http.result /\ http'.aborted = http.aborted
             \/ /\ http'.pc = "performed"
                /\ http'.result = "error" /\ http'.aborted = "headers"
      PROVE  HttpInv'
  <2>1. /\ Len(http'.disposed) = Len(http.disposed) + 1
        /\ LastNamed(http.remote, Len(http.disposed))'
        /\ \A n \in Int, k \in 0 .. Len(http.disposed) :
              LastNamed(n, k) => /\ n \in 0 .. k
                                 /\ n > 0 => http'.disposed[n]
                                 /\ \A i \in n + 1 .. k : ~http'.disposed[i]
    BY <1>2, <1>3, <1>4, LastNamedAppend
  <2>2. FaultInv' /\ StageInv'
    BY <1>1, <1>4 DEF HttpInv, FaultInv, StageInv, KeepsBody, Named
  <2>3. /\ http.responses \in Nat /\ http.name \in Int /\ http.disposed \in Seq(BOOLEAN)
        /\ http.responses <= Len(http.disposed) /\ http.written \in Nat /\ http.chunks \in Nat
        /\ http.name # -1 => http.chunks # 0 /\ LastNamed(http.name, http.responses)
    BY <1>1, HttpFacts DEF HttpInv, NameInv, HttpDelivers, NameSeqs
  <2>4. NameInv'
    BY <1>1, <1>4, <2>1, <2>3 DEF HttpInv, NameInv, KeepsBody
  <2>5. http'.name # -1 => LastNamed(http.name, http.responses)'
    <3> SUFFICES ASSUME http.name # -1 PROVE LastNamed(http.name, http.responses)'
      BY <1>4
    <3>1. http.responses \in 0 .. Len(http.disposed) /\ LastNamed(http.name, http.responses)
      BY <2>3
    <3>2. /\ http.name \in 0 .. http.responses
          /\ http.name > 0 => http'.disposed[http.name]
          /\ \A i \in http.name + 1 .. http.responses : ~http'.disposed[i]
      BY <2>1, <2>3, <3>1
    <3> QED
      BY <1>4, <3>2 DEF LastNamed
  <2>6. HttpDelivers'
    BY <1>1, <1>4, <2>3, <2>5 DEF HttpInv, StageInv, HttpDelivers, KeepsBody
  <2> QED
    BY <1>4, <2>2, <2>4, <2>6 DEF HttpInv
<1>5. CASE http' = h /\ http.pc = "body"
  BY <1>1, <1>3, <1>4, <1>5 DEF KeepsBody
<1>6. CASE http' = Returns([h EXCEPT !.aborted = "headers", !.lost = lost], "error")
  <2> DEFINE g == [h EXCEPT !.aborted = "headers", !.lost = lost]
  <2>1. g \in HttpStates
    BY <1>1, <1>2, <1>3, HttpTyped, ZenonT(30)
  <2>2. /\ g.opt = h.opt
        /\ (g.opened <=> h.opened) /\ (g.outputError <=> h.outputError)
        /\ g.responses = h.responses /\ g.chunks = h.chunks
        /\ g.written = h.written /\ g.exit = h.exit
        /\ g.name = h.name /\ g.aborted = "headers" /\ g.lost = lost
        /\ g.disposed = h.disposed /\ g.remote = h.remote
    BY <1>3 DEF HttpStates
  <2>3. http' = [g EXCEPT !.pc = "performed", !.result = "error"]
    BY <1>6 DEF Returns
  <2> HIDE DEF g
  <2>4. http' \in HttpStates
    BY <1>1, <2>1, <2>3, HttpTyped
  <2>5. /\ http'.opt = g.opt /\ http'.pc = "performed"
        /\ (http'.opened <=> g.opened) /\ (http'.outputError <=> g.outputError)
        /\ http'.responses = g.responses /\ http'.chunks = g.chunks
        /\ http'.written = g.written /\ http'.result = "error" /\ http'.exit = g.exit
        /\ http'.name = g.name /\ http'.aborted = g.aborted /\ http'.lost = g.lost
        /\ http'.disposed = g.disposed /\ http'.remote = g.remote
    BY <2>1, <2>3 DEF HttpStates
  <2> QED
    BY <1>2, <1>3, <1>4, <2>2, <2>4, <2>5 DEF KeepsBody
<1> QED
  BY <1>2, <1>5, <1>6 DEF h

\* The transfer goes on without a change to what is looked at, or returns.
LEMMA ReturnsInv ==
  ASSUME HttpInv,
         SendUpload \/ UploadReadFails \/ TransferFails \/ TransferTimesOut \/ BodyEnds
  PROVE  HttpInv'
<1>1. /\ http \in HttpStates /\ http.pc \in {"perform", "body"}
      /\ "performed" \in HttpPcs /\ "upload" \in Aborters
  BY HttpFacts DEF SendUpload, UploadReadFails, TransferFails, TransferTimesOut, BodyEnds,
                   Performing, HttpAt, HttpPcs, Aborters
<1>2. CASE SendUpload
  <2> DEFINE sent == http.opt.upload = "other"
  <2>1. http' = [http EXCEPT !.sent = sent] /\ sent \in BOOLEAN
    BY <1>2 DEF SendUpload
  <2> HIDE DEF sent
  <2>2. http' \in HttpStates
    BY <1>1, <2>1, HttpTyped
  <2>3. /\ http'.opt = http.opt /\ http'.pc = http.pc /\ http'.exit = http.exit
        /\ http'.files = http.files /\ KeepsAll
    BY <1>1, <2>1 DEF HttpStates, KeepsAll, KeepsOutput, KeepsBody, KeepsHeaders, KeepsResult
  <2> QED
    BY <2>2, <2>3 DEF HttpInv, FaultInv, StageInv, NameInv, HttpDelivers, LastNamed, Named,
                      KeepsAll, KeepsOutput, KeepsBody, KeepsHeaders, KeepsResult
<1>3. ASSUME NEW g \in HttpStates, NEW outcome \in {"ok", "error", "timeout"},
             g \in {http, [http EXCEPT !.aborted = "upload"]},
             g # http => outcome = "error",
             outcome = "timeout" => http.opt.timed \/ http.pc = "perform",
             outcome = "ok" => http.pc = "body" /\ http.written = http.chunks,
             http' = Returns(g, outcome)
      PROVE  HttpInv'
  <2>1. /\ g.opt = http.opt /\ g.exit = http.exit
        /\ (g.opened <=> http.opened) /\ (g.outputError <=> http.outputError)
        /\ g.lost = http.lost /\ g.name = http.name
        /\ g.chunks = http.chunks /\ g.written = http.written
        /\ g.disposed = http.disposed /\ g.remote = http.remote
        /\ g.responses = http.responses
        /\ \/ g.aborted = http.aborted
           \/ g.aborted = "upload" /\ outcome = "error"
    BY <1>1, <1>3 DEF HttpStates
  <2>2. /\ http' = [g EXCEPT !.pc = "performed", !.result = outcome]
        /\ outcome \in Outcomes /\ outcome # "none"
    BY <1>3 DEF Returns, Outcomes
  <2>3. http' \in HttpStates
    <3>1. g \in HttpStates /\ "performed" \in HttpPcs /\ outcome \in Outcomes
      BY <1>1, <1>3, <2>2
    <3>2. [g EXCEPT !.pc = "performed", !.result = outcome] \in HttpStates
      BY <3>1, HttpTyped, ZenonT(30)
    <3> QED
      BY <2>2, <3>2
  <2>4. /\ http'.opt = g.opt /\ http'.exit = g.exit /\ http'.pc = "performed"
        /\ http'.result = outcome
        /\ (http'.opened <=> g.opened) /\ (http'.outputError <=> g.outputError)
        /\ http'.lost = g.lost /\ http'.name = g.name
        /\ http'.chunks = g.chunks /\ http'.written = g.written
        /\ http'.disposed = g.disposed /\ http'.remote = g.remote
        /\ http'.responses = g.responses /\ http'.aborted = g.aborted
    BY <1>3, <2>2 DEF HttpStates
  <2>5. http.aborted = "none"
    BY <1>1 DEF HttpInv, FaultInv, StageInv
  <2>6. FaultInv' /\ StageInv'
    BY <1>1, <1>3, <2>1, <2>2, <2>4, <2>5 DEF HttpInv, FaultInv, StageInv, Named
  <2>7. NameInv' /\ HttpDelivers'
    BY <1>1, <1>3, <2>1, <2>2, <2>4 DEF HttpInv, StageInv, NameInv, HttpDelivers, LastNamed
  <2> QED
    BY <2>3, <2>6, <2>7 DEF HttpInv
<1>4. CASE UploadReadFails
  <2> DEFINE g == [http EXCEPT !.aborted = "upload"]
  <2>1. g \in HttpStates
    BY <1>1, HttpTyped, ZenonT(30)
  <2>2. http' = Returns(g, "error")
    BY <1>4 DEF UploadReadFails
  <2> HIDE DEF g
  <2>3. g \in {http, [http EXCEPT !.aborted = "upload"]}
    BY DEF g
  <2> QED
    BY <1>3, <2>1, <2>2, <2>3
<1>5. CASE TransferFails
  BY <1>1, <1>3, <1>5 DEF TransferFails
<1>6. CASE TransferTimesOut
  BY <1>1, <1>3, <1>6 DEF TransferTimesOut, HttpAt
<1>7. CASE BodyEnds
  BY <1>1, <1>3, <1>7 DEF BodyEnds, HttpAt
<1> QED
  BY <1>2, <1>4, <1>5, <1>6, <1>7

\* The file of -Dd is open, or could not be opened.
LEMMA OpenRemoteFields ==
  ASSUME HttpInv, NEW h \in OpenRemote(http)
  PROVE  /\ h \in HttpStates /\ h.opt = http.opt /\ h.pc = http.pc
         /\ (http.opened => h.opened) /\ (http.outputError => h.outputError)
         /\ http.opt.target = "remote" => h.opened \/ h.outputError
         /\ h.chunks = http.chunks /\ h.written = http.written
         /\ h.disposed = http.disposed /\ h.remote = http.remote
         /\ h.responses = http.responses /\ h.result = http.result
         /\ h.aborted = http.aborted /\ h.exit = http.exit /\ h.lost = http.lost
         /\ h.name = http.name \/ (h.name = http.remote /\ ~http.opened)
         /\ h.opened \in BOOLEAN /\ h.outputError \in BOOLEAN
<1>1. http \in HttpStates /\ http.files \in FileSets /\ http.remote \in Int
  BY HttpFacts
<1>2. CASE h = http /\ ~(http.opt.target = "remote" /\ ~http.opened)
  BY <1>1, <1>2, HttpFacts
<1>3. CASE h = [http EXCEPT !.opened = TRUE, !.name = http.remote, !.files = @ \cup {"output"}]
           /\ ~http.opened
  <2> DEFINE files == http.files \cup {"output"}
             yes == TRUE
             n == http.remote
  <2>1. /\ h = [http EXCEPT !.opened = yes, !.name = n, !.files = files]
        /\ files \in FileSets /\ yes \in BOOLEAN /\ yes /\ n \in Int /\ n = http.remote
    BY <1>1, <1>3 DEF HttpStates, FileSets, HttpFiles
  <2> HIDE DEF files, yes, n
  <2>2. h \in HttpStates
    BY <1>1, <2>1, HttpTyped, ZenonT(30)
  <2>3. /\ h.opt = http.opt /\ h.pc = http.pc
        /\ h.opened = yes /\ h.outputError = http.outputError
        /\ h.chunks = http.chunks /\ h.written = http.written
        /\ h.disposed = http.disposed /\ h.remote = http.remote
        /\ h.responses = http.responses /\ h.result = http.result
        /\ h.aborted = http.aborted /\ h.exit = http.exit /\ h.lost = http.lost
        /\ h.name = n
    BY <1>1, <2>1 DEF HttpStates
  <2>4. h.opened \in BOOLEAN /\ h.outputError \in BOOLEAN
    BY <2>2 DEF HttpStates
  <2> QED
    BY <1>3, <2>1, <2>2, <2>3, <2>4
<1>4. CASE h = [http EXCEPT !.outputError = TRUE] /\ ~http.opened
  <2> DEFINE yes == TRUE
  <2>1. h = [http EXCEPT !.outputError = yes] /\ yes \in BOOLEAN /\ yes
    BY <1>4
  <2> HIDE DEF yes
  <2>2. h \in HttpStates
    BY <1>1, <2>1, HttpTyped, ZenonT(30)
  <2>3. /\ h.opt = http.opt /\ h.pc = http.pc
        /\ h.opened = http.opened /\ h.outputError = yes
        /\ h.chunks = http.chunks /\ h.written = http.written
        /\ h.disposed = http.disposed /\ h.remote = http.remote
        /\ h.responses = http.responses /\ h.result = http.result
        /\ h.aborted = http.aborted /\ h.exit = http.exit /\ h.lost = http.lost
        /\ h.name = http.name
    BY <1>1, <2>1 DEF HttpStates
  <2>4. h.opened \in BOOLEAN /\ h.outputError \in BOOLEAN
    BY <2>2 DEF HttpStates
  <2> QED
    BY <1>4, <2>1, <2>2, <2>3, <2>4
<1> QED
  BY <1>2, <1>3, <1>4 DEF OpenRemote

LEMMA WriteChunkInv == ASSUME HttpInv, WriteChunk PROVE HttpInv'
<1>1. /\ http \in HttpStates /\ http.pc = "body" /\ http.written < http.chunks
      /\ http.written \in Nat /\ http.chunks \in Nat /\ http.responses \in Nat
      /\ http.remote \in Nat /\ http.name \in Int
      /\ "performed" \in HttpPcs /\ "error" \in Outcomes /\ "write" \in Aborters
  BY HttpFacts DEF WriteChunk, HttpAt, HttpPcs, Outcomes, Aborters
<1>2. /\ http.exit = -1 /\ (Named => http.opened) /\ http.result = "none"
      /\ http.aborted = "none" /\ ("output" \in http.lost => http.outputError)
      /\ http.responses = Len(http.disposed) /\ LastNamed(http.remote, http.responses)
      /\ http.name # -1 => LastNamed(http.name, http.responses)
  BY <1>1 DEF HttpInv, FaultInv, StageInv, NameInv, HttpDelivers
<1>3. PICK h \in OpenRemote(http) :
        \/ h.outputError /\ http' = Returns(WriteFails(h), "error")
        \/ ~h.outputError /\ http' = [h EXCEPT !.written = @ + 1]
        \/ /\ ~h.outputError
           /\ http' = Returns([WriteFails(h) EXCEPT !.lost = @ \cup {Sink}], "error")
  BY DEF WriteChunk
<1>4. /\ h \in HttpStates /\ h.opt = http.opt /\ h.pc = http.pc
      /\ (http.opened => h.opened) /\ (http.outputError => h.outputError)
      /\ http.opt.target = "remote" => h.opened \/ h.outputError
      /\ h.chunks = http.chunks /\ h.written = http.written
      /\ h.disposed = http.disposed /\ h.remote = http.remote
      /\ h.responses = http.responses /\ h.result = http.result
      /\ h.aborted = http.aborted /\ h.exit = http.exit /\ h.lost = http.lost
      /\ h.name = http.name \/ (h.name = http.remote /\ ~http.opened)
      /\ h.opened \in BOOLEAN /\ h.outputError \in BOOLEAN
  BY OpenRemoteFields
<1>5. h.name # -1 => LastNamed(h.name, http.responses)
  BY <1>2, <1>4
<1>6. ASSUME http' \in HttpStates, http'.opt = http.opt, http'.exit = http.exit,
             http'.opened <=> h.opened, http'.name = h.name, http'.chunks = http.chunks,
             KeepsHeaders,
             \/ /\ http'.pc = "body" /\ ~h.outputError /\ (http'.outputError <=> h.outputError)
                /\ http'.result = http.result /\ http'.aborted = http.aborted
                /\ http'.lost = http.lost /\ http'.written = http.written + 1
             \/ /\ http'.pc = "performed" /\ http'.outputError /\ http'.written = http.written
                /\ http'.result = "error" /\ http'.aborted = "write"
      PROVE  HttpInv'
  <2>1. FaultInv'
    BY <1>2, <1>4, <1>6 DEF FaultInv
  <2>2. StageInv'
    BY <1>1, <1>2, <1>4, <1>6 DEF StageInv, Named
  <2>3. NameInv'
    BY <1>1, <1>2, <1>4, <1>6 DEF HttpInv, NameInv, LastNamed, KeepsHeaders
  <2>4. http'.name # -1 => LastNamed(h.name, http.responses)'
    BY <1>5, <1>6 DEF LastNamed, KeepsHeaders
  <2>5. http'.exit = -1 /\ http'.pc # "done" /\ http'.chunks # 0
    BY <1>1, <1>2, <1>6
  <2>6. http'.name # -1 => LastNamed(http.name, http.responses)'
    BY <1>5, <1>6 DEF LastNamed, KeepsHeaders
  <2>7. HttpDelivers'
    BY <2>5, <2>6 DEF HttpDelivers
  <2> QED
    BY <1>6, <2>1, <2>2, <2>3, <2>7 DEF HttpInv
<1>7. CASE ~h.outputError /\ http' = [h EXCEPT !.written = @ + 1]
  <2> DEFINE n == http.written + 1
  <2>1. http' = [h EXCEPT !.written = n] /\ n \in Nat
    BY <1>1, <1>4, <1>7
  <2> HIDE DEF n
  <2>2. http' \in HttpStates
    BY <1>4, <2>1, HttpTyped
  <2>3. /\ http'.opt = h.opt /\ http'.exit = h.exit /\ http'.pc = h.pc
        /\ (http'.opened <=> h.opened) /\ (http'.outputError <=> h.outputError)
        /\ http'.name = h.name /\ http'.chunks = h.chunks /\ http'.disposed = h.disposed
        /\ http'.remote = h.remote /\ http'.responses = h.responses
        /\ http'.result = h.result /\ http'.aborted = h.aborted /\ http'.lost = h.lost
        /\ http'.written = n
    BY <1>4, <2>1 DEF HttpStates
  <2> QED
    BY <1>1, <1>4, <1>6, <1>7, <2>2, <2>3 DEF n, KeepsHeaders
<1>8. ASSUME NEW g \in HttpStates, http' = Returns(g, "error"), g.opt = h.opt, g.exit = h.exit,
             g.opened <=> h.opened, g.outputError, g.name = h.name, g.chunks = h.chunks,
             g.disposed = h.disposed, g.remote = h.remote, g.responses = h.responses,
             g.aborted = "write", g.written = h.written
      PROVE  HttpInv'
  <2>1. http' = [g EXCEPT !.pc = "performed", !.result = "error"]
    BY <1>8 DEF Returns
  <2>2. http' \in HttpStates
    <3>1. g \in HttpStates /\ "performed" \in HttpPcs /\ "error" \in Outcomes
      BY <1>1, <1>8
    <3>2. [g EXCEPT !.pc = "performed", !.result = "error"] \in HttpStates
      BY <3>1, HttpTyped, ZenonT(30)
    <3> QED
      BY <2>1, <3>2
  <2>3. /\ http'.opt = g.opt /\ http'.exit = g.exit /\ http'.pc = "performed"
        /\ (http'.opened <=> g.opened) /\ (http'.outputError <=> g.outputError)
        /\ http'.name = g.name /\ http'.chunks = g.chunks /\ http'.disposed = g.disposed
        /\ http'.remote = g.remote /\ http'.responses = g.responses
        /\ http'.result = "error" /\ http'.aborted = g.aborted /\ http'.written = g.written
    BY <1>8, <2>1 DEF HttpStates
  <2> QED
    BY <1>1, <1>4, <1>6, <1>8, <2>2, <2>3 DEF KeepsHeaders
<1> DEFINE yes == TRUE
           w == [h EXCEPT !.outputError = yes, !.aborted = "write"]
<1>9. w = WriteFails(h) /\ yes \in BOOLEAN /\ yes
  BY DEF WriteFails
<1> HIDE DEF yes
<1>10. w \in HttpStates
  BY <1>1, <1>4, <1>9, HttpTyped, ZenonT(30)
<1>11. /\ w.opt = h.opt /\ w.exit = h.exit /\ (w.opened <=> h.opened) /\ w.outputError
       /\ w.name = h.name /\ w.chunks = h.chunks /\ w.disposed = h.disposed
       /\ w.remote = h.remote /\ w.responses = h.responses
       /\ w.aborted = "write" /\ w.written = h.written /\ w.lost = h.lost
  BY <1>4, <1>9 DEF HttpStates
<1> HIDE DEF w
<1>12. CASE http' = Returns(WriteFails(h), "error")
  BY <1>8, <1>9, <1>10, <1>11, <1>12
<1>13. CASE http' = Returns([WriteFails(h) EXCEPT !.lost = @ \cup {Sink}], "error")
  <2> DEFINE lost == w.lost \cup {Sink}
             g == [w EXCEPT !.lost = lost]
  <2>1. w.lost \in StreamSets /\ Sink \in HttpStreams
    BY <1>10 DEF HttpStates, Sink, HttpStreams
  <2>2. lost \in StreamSets
    BY <2>1 DEF StreamSets
  <2>3. http' = Returns(g, "error")
    BY <1>9, <1>13
  <2> HIDE DEF lost
  <2>4. g \in HttpStates
    BY <1>10, <2>2, HttpTyped, ZenonT(30)
  <2>5. /\ g.opt = w.opt /\ g.exit = w.exit /\ (g.opened <=> w.opened)
        /\ (g.outputError <=> w.outputError)
        /\ g.name = w.name /\ g.chunks = w.chunks /\ g.disposed = w.disposed
        /\ g.remote = w.remote /\ g.responses = w.responses
        /\ g.aborted = w.aborted /\ g.written = w.written
    BY <1>10 DEF HttpStates
  <2> HIDE DEF g
  <2> QED
    BY <1>8, <1>11, <2>3, <2>4, <2>5
<1> QED
  BY <1>3, <1>7, <1>12, <1>13

LEMMA OpenEmptyInv == ASSUME HttpInv, OpenEmpty PROVE HttpInv'
<1>1. /\ http \in HttpStates /\ http.pc = "performed" /\ http.written \in Nat
      /\ http.chunks \in Nat /\ "flush" \in HttpPcs
  BY HttpFacts DEF OpenEmpty, HttpAt, HttpPcs
<1>2. /\ http.exit = -1 /\ (Named => http.opened) /\ FaultInv
      /\ http.result # "none" /\ (http.result = "ok" => http.written = http.chunks)
      /\ http.opt.target = "remote" /\ http.written > 0 => http.opened
      /\ LastNamed(http.remote, Len(http.disposed)) /\ http.responses <= Len(http.disposed)
      /\ http.name # -1 => http.chunks # 0 /\ LastNamed(http.name, http.responses)
      /\ http.result = "timeout" /\ http.written > 0 => http.opt.timed
  BY <1>1 DEF HttpInv, StageInv, NameInv, HttpDelivers
<1>3. PICK h \in HttpStates :
        /\ http' = [h EXCEPT !.pc = "flush"]
        /\ h.opt = http.opt
        /\ (http.opened => h.opened) /\ (http.outputError => h.outputError)
        /\ http.result = "ok" /\ http.opt.target = "remote" => h.opened \/ h.outputError
        /\ h.chunks = http.chunks /\ h.written = http.written
        /\ h.disposed = http.disposed /\ h.remote = http.remote
        /\ h.responses = http.responses /\ h.result = http.result
        /\ h.aborted = http.aborted /\ h.exit = http.exit /\ h.lost = http.lost
        /\ \/ h.name = http.name
           \/ h.name = http.remote /\ ~http.opened /\ http.result = "ok"
              /\ http.opt.target = "remote"
  <2>1. CASE http.result = "ok"
    <3>1. PICK h \in OpenRemote(http) : http' = [h EXCEPT !.pc = "flush"]
      BY <2>1 DEF OpenEmpty
    <3>2. h = http \/ http.opt.target = "remote"
      BY <3>1 DEF OpenRemote
    <3> QED
      BY <1>1, <2>1, <3>1, <3>2, OpenRemoteFields
  <2>2. CASE http.result # "ok"
    <3>1. http' = [http EXCEPT !.pc = "flush"]
      BY <2>2 DEF OpenEmpty
    <3> QED
      BY <1>1, <2>2, <3>1
  <2> QED
    BY <2>1, <2>2
<1>4. http' \in HttpStates
  BY <1>1, <1>3, HttpTyped
<1>5. /\ http'.opt = h.opt /\ http'.exit = h.exit /\ http'.pc = "flush"
      /\ (http'.opened <=> h.opened) /\ (http'.outputError <=> h.outputError)
      /\ http'.name = h.name /\ http'.chunks = h.chunks /\ http'.disposed = h.disposed
      /\ http'.remote = h.remote /\ http'.responses = h.responses
      /\ http'.result = h.result /\ http'.aborted = h.aborted /\ http'.lost = h.lost
      /\ http'.written = h.written
  BY <1>3 DEF HttpStates
<1>6. FaultInv' /\ StageInv'
  BY <1>2, <1>3, <1>5 DEF FaultInv, StageInv, Named
<1>7. NameInv'
  BY <1>2, <1>3, <1>5 DEF NameInv, LastNamed
<1>8. http'.name # -1 =>
        LastNamed(http.name, IF http.chunks = 0 THEN Len(http.disposed) ELSE http.responses)'
  <2>1. CASE h.name = http.name
    BY <1>2, <1>3, <1>5, <2>1 DEF LastNamed
  <2>2. CASE h.name = http.remote /\ http.chunks = 0
    BY <1>2, <1>3, <1>5, <2>2 DEF LastNamed
  <2> QED
    BY <1>1, <1>2, <1>3, <2>1, <2>2
<1>9. HttpDelivers'
  BY <1>2, <1>3, <1>5, <1>8 DEF HttpDelivers
<1> QED
  BY <1>4, <1>6, <1>7, <1>9 DEF HttpInv

LEMMA FlushInv == ASSUME HttpInv, Flush PROVE HttpInv'
<1>1. /\ http \in HttpStates /\ http.pc = "flush" /\ http.lost \in StreamSets
      /\ http.outputError \in BOOLEAN /\ http.result \in Outcomes /\ http.written \in Nat
      /\ http.opt.target \in {"stdout", "existing", "file", "remote"} /\ "done" \in HttpPcs
  BY HttpFacts DEF Flush, HttpAt, HttpPcs
<1>2. PICK full \in SUBSET Buffered : Closes(full, "output" \in full)
  BY DEF Flush
<1>3. full \in StreamSets
  BY <1>2 DEF Buffered, Sink, StreamSets, HttpStreams
<1> DEFINE error == http.outputError \/ "output" \in full
           lost == http.lost \cup full
           h == [http EXCEPT !.outputError = error, !.lost = lost]
           status == HttpStatus(h)
           none == {}
<1>4. /\ error \in BOOLEAN /\ lost \in StreamSets /\ none \in FileSets /\ none = {}
      /\ "output" \in lost => "output" \in http.lost \/ error
      /\ http.outputError => error
  BY <1>1, <1>3 DEF StreamSets, FileSets
<1>5. http' = [h EXCEPT !.pc = "done", !.files = none, !.exit = status]
  BY <1>1, <1>2 DEF Closes, HttpStates
<1> HIDE DEF error, lost, none
<1>6. h \in HttpStates
  BY <1>1, <1>4, HttpTyped, ZenonT(30)
<1>7. /\ h.opt = http.opt /\ (h.opened <=> http.opened) /\ (h.outputError <=> error)
      /\ h.chunks = http.chunks /\ h.written = http.written
      /\ h.disposed = http.disposed /\ h.remote = http.remote
      /\ h.responses = http.responses /\ h.result = http.result
      /\ h.aborted = http.aborted /\ h.lost = lost /\ h.name = http.name
  BY <1>1, <1>4 DEF HttpStates
<1>8. /\ status \in {0, 2, 3, 28} /\ (status # 2 => ~error)
      /\ status = 28 => http.result = "timeout"
      /\ status = 0 => http.result = "ok"
  <2>1. /\ http.result \in {"none", "ok", "error", "timeout"} /\ http.result # "none"
    BY <1>1 DEF Outcomes, HttpInv, StageInv
  <2> QED
    BY <1>7, <2>1 DEF HttpStatus
<1>9. status \in Int
  BY <1>8
<1> HIDE DEF h, status
<1>10. http' \in HttpStates
  BY <1>1, <1>4, <1>5, <1>6, <1>9, HttpTyped
<1>11. /\ http'.opt = h.opt /\ http'.pc = "done" /\ http'.files = none /\ http'.exit = status
       /\ (http'.opened <=> h.opened) /\ (http'.outputError <=> h.outputError)
       /\ http'.chunks = h.chunks /\ http'.written = h.written
       /\ http'.disposed = h.disposed /\ http'.remote = h.remote
       /\ http'.responses = h.responses /\ http'.result = h.result
       /\ http'.aborted = h.aborted /\ http'.lost = h.lost /\ http'.name = h.name
  BY <1>5, <1>6 DEF HttpStates
<1>12. FaultInv' /\ StageInv' /\ NameInv'
  BY <1>1, <1>4, <1>7, <1>11 DEF HttpInv, FaultInv, StageInv, NameInv, LastNamed
<1>13. HttpDelivers'
  <2>1. /\ http.result = "ok" => http.written = http.chunks /\ http.aborted = "none"
        /\ http.result = "timeout" => /\ http.aborted = "none"
                                      /\ http.written > 0 => http.opt.timed
        /\ ~error => http.aborted # "write" /\ "output" \notin lost
        /\ ~error /\ http.result = "ok" /\ http.opt.target # "stdout" => http.opened
    BY <1>1, <1>4 DEF HttpInv, FaultInv, StageInv, Named
  <2>2. http.name # -1 =>
          LastNamed(http.name, IF http.chunks = 0 THEN Len(http.disposed) ELSE http.responses)
    BY DEF HttpInv, HttpDelivers
  <2>3. http'.name # -1 =>
          LastNamed(http.name, IF http.chunks = 0 THEN Len(http.disposed) ELSE http.responses)'
    BY <1>7, <1>11, <2>2 DEF LastNamed
  <2> QED
    BY <1>4, <1>7, <1>8, <1>11, <2>1, <2>3 DEF HttpDelivers
<1> QED
  BY <1>10, <1>12, <1>13 DEF HttpInv

LEMMA HttpNextInv == ASSUME HttpInv, HttpStep \/ UNCHANGED http PROVE HttpInv'
<1>1. CASE UNCHANGED http
  BY <1>1 DEF HttpInv, FaultInv, StageInv, NameInv, HttpDelivers, LastNamed, Named
<1> QED
  BY <1>1, SetupFailsInv, SetupGoesOnInv, ResponseInv, TrailerInv, ReturnsInv, WriteChunkInv,
     OpenEmptyInv, FlushInv DEF HttpStep, HttpRun, HttpTransfer

LEMMA HttpInitInv == ASSUME NEW o \in HttpOptions, NEW e \in BOOLEAN, http = HttpStart(o, e)
                     PROVE  HttpInv
<1>1. {} \in FileSets /\ {} \in StreamSets /\ <<>> \in NameSeqs
  BY DEF FileSets, StreamSets, NameSeqs
<1>2. http \in HttpStates
  BY <1>1 DEF HttpStart, HttpStates, HttpPcs, Outcomes, Aborters
<1>3. FaultInv /\ StageInv /\ HttpDelivers
  BY DEF HttpStart, FaultInv, StageInv, HttpDelivers
<1>4. NameInv
  BY DEF HttpStart, NameInv, LastNamed
<1> QED
  BY <1>2, <1>3, <1>4 DEF HttpInv

LEMMA HttpInvariant == Spec => []HttpInv
<1>1. Init => HttpInv
  <2>1. [target |-> "stdout", follow |-> FALSE, timed |-> FALSE, headers |-> "none",
         upload |-> "none"] \in HttpOptions
    BY DEF HttpOptions
  <2>2. Init => \E o \in HttpOptions, e \in BOOLEAN : http = HttpStart(o, e)
    <3> SUFFICES ASSUME Init PROVE \E o \in HttpOptions, e \in BOOLEAN : http = HttpStart(o, e)
      OBVIOUS
    <3>1. CASE program = "sttp"
      BY <3>1 DEF Init, HttpInit
    <3>2. CASE program # "sttp"
      BY <2>1, <3>2 DEF Init
    <3> QED
      BY <3>1, <3>2
  <2> QED
    BY <2>2, HttpInitInv
<1>2. HttpInv /\ [Next]_vars => HttpInv'
  <2>1. [Next]_vars => HttpStep \/ UNCHANGED http
    BY DEF Next, vars, Stls, Sdns, Sttp, Netst, NProbe
  <2> QED
    BY <2>1, HttpNextInv
<1> QED
  BY <1>1, <1>2, PTL DEF Spec

\* Status 0 of sttp means that the whole body is in the file it belongs into, under the
\* name it was given last; what is reported as the network's is not that file's fault.
THEOREM SttpDelivers == Spec => []HttpDelivers
<1>1. HttpInv => HttpDelivers
  BY DEF HttpInv
<1> QED
  BY <1>1, HttpInvariant, PTL

-----------------------------------------------------------------------------
(* netst.                                                                  *)

NetPcs == {"request", "receive", "processes", "descriptors", "print", "done"}

SocketStates == [sock : Socks, pid : 0 .. MaxPid, inode : BOOLEAN]

Holders == [Socks -> SUBSET Pids]

NetStates ==
  [opt : NetOptions, pc : NetPcs, request : Nat, delivered : SUBSET Socks,
   list : SUBSET SocketStates, process : 0 .. MaxPid, todo : SUBSET Socks, ok : BOOLEAN,
   printed : SUBSET SocketStates, exit : Int, table : [Socks -> SockTables],
   holders : Holders, lingering : SUBSET Socks, readable : SUBSET Pids,
   ever : Holders, always : Holders, changes : Nat]

\* The history of the holders; what only lingers, nobody has held all the time.
HolderInv ==
  \A s \in Socks :
    /\ net.always[s] \subseteq net.holders[s] /\ net.holders[s] \subseteq net.ever[s]
    /\ s \in net.lingering => net.always[s] = {}

\* The request for the table of s has been answered as far as s.
Dumped(s) == net.table[s] < net.request \/ s \in net.delivered

\* Process p has been looked at for s.
SeenBy(p, s) ==
  \/ p < net.process
  \/ p = net.process /\ (net.pc = "descriptors" => s \notin net.todo)

\* A process in the list has had the socket.  A socket that belongs to one readable
\* process is in the list from the answer to its request on, always with its inode, and
\* with its process from there on where that has been looked at.
ListInv ==
  /\ \A e \in net.list : e.pid # 0 => e.pid \in net.ever[e.sock] \cap net.readable
  /\ \A s \in Socks, p \in Pids : OwnedBy(s, p) =>
       /\ net.ok /\ Dumped(s) => \E e \in net.list : e.sock = s
       /\ \A e \in net.list : e.sock = s => e.inode /\ (SeenBy(p, s) => e.pid = p)

\* The processes are looked at when all is dumped, and what is printed when all are.
PhaseInv ==
  /\ net.pc \in {"request", "receive"} => net.process = 0
  /\ net.pc \in {"processes", "descriptors"} => net.request > 4
  /\ net.pc = "descriptors" => net.process \in net.readable
  /\ net.pc = "print" /\ net.ok => net.request > 4 /\ net.process = MaxPid

NetInv == net \in NetStates /\ HolderInv /\ ListInv /\ PhaseInv /\ SocketsFound

PutHolders(n, holders, lingering, ever, always, changes) ==
  [n EXCEPT !.holders = holders, !.lingering = lingering, !.ever = ever, !.always = always,
            !.changes = changes]

LEMMA PutHoldersFields ==
  ASSUME NEW n \in NetStates, NEW holders \in Holders, NEW lingering \in SUBSET Socks,
         NEW ever \in Holders, NEW always \in Holders, NEW changes \in Nat
  PROVE  LET r == PutHolders(n, holders, lingering, ever, always, changes)
         IN  /\ r \in NetStates
             /\ r.opt = n.opt /\ r.pc = n.pc /\ r.request = n.request
             /\ r.delivered = n.delivered /\ r.list = n.list /\ r.process = n.process
             /\ r.todo = n.todo /\ r.ok = n.ok /\ r.printed = n.printed /\ r.exit = n.exit
             /\ r.table = n.table /\ r.holders = holders /\ r.lingering = lingering
             /\ r.readable = n.readable /\ r.ever = ever /\ r.always = always
  BY DEF PutHolders, NetStates

PutSearch(n, to, request, delivered, list, process, todo, ok) ==
  [n EXCEPT !.pc = to, !.request = request, !.delivered = delivered, !.list = list,
            !.process = process, !.todo = todo, !.ok = ok]

LEMMA PutSearchFields ==
  ASSUME NEW n \in NetStates, NEW to \in NetPcs, NEW request \in Nat,
         NEW delivered \in SUBSET Socks, NEW list \in SUBSET SocketStates,
         NEW process \in 0 .. MaxPid, NEW todo \in SUBSET Socks, NEW ok \in BOOLEAN
  PROVE  LET r == PutSearch(n, to, request, delivered, list, process, todo, ok)
         IN  /\ r \in NetStates
             /\ r.opt = n.opt /\ r.pc = to /\ r.request = request
             /\ r.delivered = delivered /\ r.list = list /\ r.process = process
             /\ r.todo = todo /\ r.ok = ok /\ r.printed = n.printed /\ r.exit = n.exit
             /\ r.table = n.table /\ r.holders = n.holders /\ r.lingering = n.lingering
             /\ r.readable = n.readable /\ r.ever = n.ever /\ r.always = n.always
  BY DEF PutSearch, NetStates

PutPrinted(n, to, options, printed, status) ==
  [n EXCEPT !.pc = to, !.opt = options, !.printed = printed, !.exit = status]

LEMMA PutPrintedFields ==
  ASSUME NEW n \in NetStates, NEW to \in NetPcs, NEW options \in NetOptions,
         NEW printed \in SUBSET SocketStates, NEW status \in Int
  PROVE  LET r == PutPrinted(n, to, options, printed, status)
         IN  /\ r \in NetStates
             /\ r.opt = options /\ r.pc = to /\ r.request = n.request
             /\ r.delivered = n.delivered /\ r.list = n.list /\ r.process = n.process
             /\ r.todo = n.todo /\ r.ok = n.ok /\ r.printed = printed /\ r.exit = status
             /\ r.table = n.table /\ r.holders = n.holders /\ r.lingering = n.lingering
             /\ r.readable = n.readable /\ r.ever = n.ever /\ r.always = n.always
  BY DEF PutPrinted, NetStates

LEMMA NetFacts ==
  ASSUME net \in NetStates
  PROVE  /\ net.opt \in NetOptions /\ net.pc \in NetPcs /\ net.request \in Nat
         /\ net.delivered \in SUBSET Socks /\ net.list \in SUBSET SocketStates
         /\ net.process \in 0 .. MaxPid /\ net.todo \in SUBSET Socks /\ net.ok \in BOOLEAN
         /\ net.printed \in SUBSET SocketStates /\ net.exit \in Int
         /\ net.table \in [Socks -> SockTables] /\ net.holders \in Holders
         /\ net.lingering \in SUBSET Socks /\ net.readable \in SUBSET Pids
         /\ net.ever \in Holders /\ net.always \in Holders /\ net.changes \in Nat
         /\ \A s \in Socks : /\ net.table[s] \in 1 .. 4
                             /\ net.holders[s] \in SUBSET Pids
                             /\ net.ever[s] \in SUBSET Pids
                             /\ net.always[s] \in SUBSET Pids
<1>1. /\ net.table \in [Socks -> SockTables] /\ net.holders \in Holders
      /\ net.ever \in Holders /\ net.always \in Holders
  BY DEF NetStates
<1>2. ASSUME NEW s \in Socks
      PROVE  /\ net.table[s] \in 1 .. 4 /\ net.holders[s] \in SUBSET Pids
             /\ net.ever[s] \in SUBSET Pids /\ net.always[s] \in SUBSET Pids
  BY <1>1, NetstAssumption DEF Holders
<1> QED
  BY <1>1, <1>2 DEF NetStates

\* Whoever has had a socket alone and all the time after a step had it so before.
LEMMA OwnedBefore ==
  ASSUME NetInv, net'.readable = net.readable, NEW s \in Socks, NEW p \in Pids,
         net.ever[s] \subseteq net'.ever[s], net'.always[s] \subseteq net.always[s],
         OwnedBy(s, p)'
  PROVE  OwnedBy(s, p) /\ net.holders[s] = {p} /\ s \notin net.lingering
<1>1. /\ net.always[s] \subseteq net.holders[s] /\ net.holders[s] \subseteq net.ever[s]
      /\ s \in net.lingering => net.always[s] = {}
  BY DEF NetInv, HolderInv
<1>2. net'.ever[s] = {p} /\ net'.always[s] = {p} /\ p \in net'.readable
  BY DEF OwnedBy
<1> QED
  BY <1>1, <1>2 DEF OwnedBy

\* A socket gets other holders.
LEMMA HoldInv ==
  ASSUME NetInv, Changing, NEW s \in Socks, NEW pids \in SUBSET Pids,
         NEW lingering \in SUBSET Socks, lingering \subseteq net.lingering \cup {s},
         s \in lingering \ net.lingering => pids = {},
         net' = [Hold(s, pids) EXCEPT !.lingering = lingering]
  PROVE  NetInv'
<1> DEFINE holders == [net.holders EXCEPT ![s] = pids]
           ever == [net.ever EXCEPT ![s] = net.ever[s] \cup pids]
           always == [net.always EXCEPT ![s] = net.always[s] \cap pids]
           changes == net.changes + 1
<1>1. /\ net \in NetStates /\ net.pc \notin {"print", "done"} /\ HolderInv /\ ListInv /\ PhaseInv
      /\ net.list \in SUBSET SocketStates
  BY NetFacts DEF NetInv, Changing
<1>2. /\ holders \in Holders /\ ever \in Holders /\ always \in Holders /\ changes \in Nat
      /\ holders[s] = pids /\ ever[s] = net.ever[s] \cup pids
      /\ always[s] = net.always[s] \cap pids
      /\ \A t \in Socks \ {s} : /\ holders[t] = net.holders[t] /\ ever[t] = net.ever[t]
                                /\ always[t] = net.always[t]
  BY <1>1, NetFacts DEF Holders
<1>3. net' = PutHolders(net, holders, lingering, ever, always, changes)
  BY <1>1 DEF Hold, PutHolders, NetStates
<1> HIDE DEF holders, ever, always, changes
<1>4. /\ net' \in NetStates
      /\ net'.pc = net.pc /\ net'.request = net.request
      /\ net'.delivered = net.delivered /\ net'.list = net.list /\ net'.process = net.process
      /\ net'.todo = net.todo /\ (net'.ok <=> net.ok)
      /\ net'.table = net.table /\ net'.holders = holders /\ net'.lingering = lingering
      /\ net'.readable = net.readable /\ net'.ever = ever /\ net'.always = always
  <2>1. /\ net \in NetStates /\ holders \in Holders /\ lingering \in SUBSET Socks
        /\ ever \in Holders /\ always \in Holders /\ changes \in Nat
    BY <1>1, <1>2
  <2> DEFINE r == PutHolders(net, holders, lingering, ever, always, changes)
  <2>2. /\ r \in NetStates
        /\ r.opt = net.opt /\ r.pc = net.pc /\ r.request = net.request
        /\ r.delivered = net.delivered /\ r.list = net.list /\ r.process = net.process
        /\ r.todo = net.todo /\ r.ok = net.ok /\ r.printed = net.printed /\ r.exit = net.exit
        /\ r.table = net.table /\ r.holders = holders /\ r.lingering = lingering
        /\ r.readable = net.readable /\ r.ever = ever /\ r.always = always
    BY <2>1, PutHoldersFields, SMTT(30)
  <2> HIDE DEF r
  <2> QED
    BY <1>3, <2>2 DEF r
<1>5. HolderInv'
  <2> SUFFICES ASSUME NEW t \in Socks
               PROVE  /\ always[t] \subseteq holders[t] /\ holders[t] \subseteq ever[t]
                      /\ t \in lingering => always[t] = {}
    BY <1>4 DEF HolderInv
  <2>1. CASE t = s
    BY <1>1, <1>2, <2>1 DEF HolderInv
  <2>2. CASE t # s
    BY <1>1, <1>2, <2>2 DEF HolderInv
  <2> QED
    BY <2>1, <2>2
<1>6. \A t \in Socks : net.ever[t] \subseteq net'.ever[t] /\ net'.always[t] \subseteq net.always[t]
  BY <1>2, <1>4
<1>7. ListInv'
  <2>1. \A e \in net.list : e.pid # 0 => e.pid \in net'.ever[e.sock] \cap net'.readable
    <3>1. \A e \in net.list : e.sock \in Socks
      BY <1>1 DEF SocketStates
    <3> QED
      BY <1>1, <1>4, <1>6, <3>1 DEF ListInv
  <2>2. \A t \in Socks, p \in Pids : OwnedBy(t, p)' => OwnedBy(t, p)
    BY <1>4, <1>6, OwnedBefore
  <2>3. \A t \in Socks, p \in Pids : (Dumped(t)' <=> Dumped(t)) /\ (SeenBy(p, t)' <=> SeenBy(p, t))
    BY <1>4 DEF Dumped, SeenBy
  <2>4. ASSUME NEW t \in Socks, NEW p \in Pids, OwnedBy(t, p)'
        PROVE  /\ net'.ok /\ Dumped(t)' => \E e \in net'.list : e.sock = t
               /\ \A e \in net'.list : e.sock = t => e.inode /\ (SeenBy(p, t)' => e.pid = p)
    BY <1>1, <1>4, <2>2, <2>3, <2>4 DEF ListInv
  <2> QED
    BY <1>4, <2>1, <2>4 DEF ListInv
<1>8. PhaseInv' /\ SocketsFound'
  BY <1>1, <1>4 DEF PhaseInv, SocketsFound
<1> QED
  BY <1>4, <1>5, <1>7, <1>8 DEF NetInv

LEMMA SystemInv == ASSUME NetInv, System PROVE NetInv'
<1>1. Changing /\ net \in NetStates /\ net.lingering \in SUBSET Socks
  BY NetFacts DEF System, Acquire, Release, NetInv
<1>2. ASSUME NEW s \in Socks, NEW pids \in SUBSET Pids, net' = Hold(s, pids)
      PROVE  NetInv'
  <2>1. net' = [Hold(s, pids) EXCEPT !.lingering = net.lingering]
    BY <1>1, <1>2 DEF Hold, NetStates
  <2> QED
    BY <1>1, <2>1, HoldInv
<1>3. CASE Acquire
  BY <1>1, <1>2, <1>3, NetFacts DEF Acquire
<1>4. CASE Release
  <2>1. PICK s \in Socks, p \in Pids :
          \/ net' = Hold(s, net.holders[s] \ {p})
          \/ /\ net.holders[s] = {p}
             /\ net' = [Hold(s, net.holders[s] \ {p}) EXCEPT !.lingering = @ \cup {s}]
    BY <1>1, <1>4, NetFacts DEF Release
  <2> DEFINE pids == net.holders[s] \ {p}
             lingering == net.lingering \cup {s}
  <2>2. pids \in SUBSET Pids /\ lingering \in SUBSET Socks
    BY <1>1, NetFacts
  <2>3. CASE net.holders[s] = {p} /\ net' = [Hold(s, pids) EXCEPT !.lingering = @ \cup {s}]
    <3>1. net' = [Hold(s, pids) EXCEPT !.lingering = lingering] /\ pids = {}
      BY <1>1, <2>3 DEF Hold, NetStates
    <3> HIDE DEF pids
    <3> QED
      BY <1>1, <2>2, <3>1, HoldInv
  <2> QED
    BY <1>2, <2>1, <2>2, <2>3
<1> QED
  BY <1>3, <1>4 DEF System

\* A step of the search.
Searches(to, request, delivered, list, process, todo, ok) ==
  net' = PutSearch(net, to, request, delivered, list, process, todo, ok)

\* What every step of the search leaves as it is.
LEMMA SearchStep ==
  ASSUME NetInv, NEW to \in NetPcs, to # "done", NEW request \in Nat,
         NEW delivered \in SUBSET Socks, NEW list \in SUBSET SocketStates,
         NEW process \in 0 .. MaxPid, NEW todo \in SUBSET Socks, NEW ok \in BOOLEAN,
         Searches(to, request, delivered, list, process, todo, ok)
  PROVE  /\ net' \in NetStates /\ HolderInv' /\ SocketsFound'
         /\ net'.pc = to /\ net'.request = request /\ net'.delivered = delivered
         /\ net'.list = list /\ net'.process = process /\ net'.todo = todo
         /\ (net'.ok <=> ok) /\ net'.table = net.table /\ net'.ever = net.ever
         /\ net'.always = net.always /\ net'.readable = net.readable
<1> DEFINE r == PutSearch(net, to, request, delivered, list, process, todo, ok)
<1>1. net \in NetStates
  BY DEF NetInv
<1>2. /\ r \in NetStates
      /\ r.opt = net.opt /\ r.pc = to /\ r.request = request
      /\ r.delivered = delivered /\ r.list = list /\ r.process = process
      /\ r.todo = todo /\ r.ok = ok /\ r.printed = net.printed /\ r.exit = net.exit
      /\ r.table = net.table /\ r.holders = net.holders /\ r.lingering = net.lingering
      /\ r.readable = net.readable /\ r.ever = net.ever /\ r.always = net.always
  BY <1>1, PutSearchFields, SMTT(30)
<1> HIDE DEF r
<1>3. net' = r
  BY DEF r, Searches
<1>4. HolderInv'
  BY <1>2, <1>3 DEF NetInv, HolderInv
<1>5. SocketsFound'
  BY <1>2, <1>3 DEF SocketsFound
<1> QED
  BY <1>2, <1>3, <1>4, <1>5

\* The same list: what it promises must have been true of the state before.
LEMMA SameList ==
  ASSUME NetInv, net'.list = net.list, net'.ever = net.ever, net'.readable = net.readable,
         \A s \in Socks, p \in Pids :
           OwnedBy(s, p)' =>
             /\ OwnedBy(s, p)
             /\ net'.ok /\ Dumped(s)' => net.ok /\ Dumped(s)
             /\ SeenBy(p, s)' => SeenBy(p, s)
  PROVE  ListInv'
<1>1. ListInv
  BY DEF NetInv
<1>2. \A e \in net'.list : e.pid # 0 => e.pid \in net'.ever[e.sock] \cap net'.readable
  BY <1>1 DEF ListInv
<1>3. ASSUME NEW s \in Socks, NEW p \in Pids, OwnedBy(s, p)'
      PROVE  /\ net'.ok /\ Dumped(s)' => \E e \in net'.list : e.sock = s
             /\ \A e \in net'.list : e.sock = s => e.inode /\ (SeenBy(p, s)' => e.pid = p)
  BY <1>1, <1>3 DEF ListInv
<1> QED
  BY <1>2, <1>3 DEF ListInv

LEMMA NextRequestInv ==
  ASSUME NetInv, net.pc \in {"request", "receive"}, NEW ok \in BOOLEAN,
         ok => Undelivered = {}, net' = NextRequest(ok)
  PROVE  NetInv'
<1> DEFINE to == IF net.request = 4 THEN "processes" ELSE "request"
           request == net.request + 1
           delivered == {}
           both == net.ok /\ ok
<1>1. /\ net \in NetStates /\ to \in NetPcs /\ to # "done" /\ request \in Nat
      /\ delivered \in SUBSET Socks /\ net.list \in SUBSET SocketStates
      /\ net.process \in 0 .. MaxPid /\ net.todo \in SUBSET Socks /\ both \in BOOLEAN
      /\ net.process = 0 /\ net.request \in Nat
  BY NetFacts DEF NetInv, PhaseInv, NetPcs
<1>2. Searches(to, request, delivered, net.list, net.process, net.todo, both)
  <2>1. CASE net.request = 4
    BY <1>1, <2>1 DEF NextRequest, Searches, PutSearch, NetStates
  <2>2. CASE net.request # 4
    BY <1>1, <2>2 DEF NextRequest, Searches, PutSearch, NetStates
  <2> QED
    BY <2>1, <2>2
<1>3. /\ to = IF net.request = 4 THEN "processes" ELSE "request"
      /\ request = net.request + 1 /\ delivered = {} /\ (both <=> net.ok /\ ok)
  OBVIOUS
<1> HIDE DEF to, request, delivered, both
<1>4. /\ net' \in NetStates /\ HolderInv' /\ SocketsFound'
      /\ net'.pc = to /\ net'.request = request /\ net'.delivered = delivered
      /\ net'.list = net.list /\ net'.process = net.process
      /\ (net'.ok <=> both) /\ net'.table = net.table /\ net'.ever = net.ever
      /\ net'.always = net.always /\ net'.readable = net.readable
  <2>1. /\ to \in NetPcs /\ to # "done" /\ request \in Nat /\ delivered \in SUBSET Socks
        /\ net.list \in SUBSET SocketStates /\ net.process \in 0 .. MaxPid
        /\ net.todo \in SUBSET Socks /\ both \in BOOLEAN
    BY <1>1
  <2> QED
    BY <1>2, <2>1, SearchStep
<1>5. ASSUME NEW s \in Socks, NEW p \in Pids, OwnedBy(s, p)'
      PROVE  /\ OwnedBy(s, p)
             /\ net'.ok /\ Dumped(s)' => net.ok /\ Dumped(s)
             /\ SeenBy(p, s)' => SeenBy(p, s)
  <2>1. OwnedBy(s, p) /\ net.holders[s] = {p}
    BY <1>4, <1>5, OwnedBefore
  <2>2. p \in Nat /\ p > 0
    BY NetstAssumption DEF Pids
  <2>3. ~SeenBy(p, s)'
    BY <1>1, <1>4, <2>2 DEF SeenBy
  <2>4. ASSUME net'.ok, Dumped(s)' PROVE net.ok /\ Dumped(s)
    <3>1. net.ok /\ Undelivered = {} /\ net.table[s] < net.request + 1 /\ net.table[s] \in Nat
      BY <1>1, <1>3, <1>4, <2>4, NetFacts DEF Dumped
    <3>2. CASE net.table[s] = net.request
      BY <1>4, <1>5, <2>1, <3>1, <3>2 DEF Undelivered, Dumped
    <3> QED
      BY <1>1, <3>1, <3>2 DEF Dumped
  <2> QED
    BY <2>3, <2>4, <2>1
<1>6. ListInv'
  BY <1>4, <1>5, SameList
<1>7. PhaseInv'
  BY <1>1, <1>3, <1>4 DEF PhaseInv
<1> QED
  BY <1>4, <1>6, <1>7 DEF NetInv

\* What a request finds when it is sent, and the socket that is missing for one.
LEMMA RequestInv == ASSUME NetInv, Request \/ NoNetlink PROVE NetInv'
<1>1. /\ net \in NetStates /\ net.pc = "request" /\ net.process = 0 /\ net.request \in Nat
      /\ net.delivered \in SUBSET Socks /\ net.list \in SUBSET SocketStates
      /\ net.process \in 0 .. MaxPid /\ net.todo \in SUBSET Socks /\ net.ok \in BOOLEAN
  BY NetFacts DEF NetInv, PhaseInv, Request, NoNetlink
<1>2. ASSUME NEW to \in {"receive", "print"}, NEW ok \in BOOLEAN, ok => net.ok /\ to = "receive",
             Searches(to, net.request, net.delivered, net.list, net.process,
                              net.todo, ok)
      PROVE  NetInv'
  <2>1. to \in NetPcs /\ to # "done"
    BY DEF NetPcs
  <2>2. /\ net' \in NetStates /\ HolderInv' /\ SocketsFound'
        /\ net'.pc = to /\ net'.request = net.request /\ net'.delivered = net.delivered
        /\ net'.list = net.list /\ net'.process = net.process
        /\ (net'.ok <=> ok) /\ net'.table = net.table /\ net'.ever = net.ever
        /\ net'.always = net.always /\ net'.readable = net.readable
    <3>1. /\ net.request \in Nat /\ net.delivered \in SUBSET Socks
          /\ net.list \in SUBSET SocketStates /\ net.process \in 0 .. MaxPid
          /\ net.todo \in SUBSET Socks
      BY <1>1
    <3> QED
      BY <1>2, <2>1, <3>1, SearchStep
  <2>3. ASSUME NEW s \in Socks, NEW p \in Pids, OwnedBy(s, p)'
        PROVE  /\ OwnedBy(s, p)
               /\ net'.ok /\ Dumped(s)' => net.ok /\ Dumped(s)
               /\ SeenBy(p, s)' => SeenBy(p, s)
    <3>1. OwnedBy(s, p)
      BY <2>2, <2>3 DEF OwnedBy
    <3>2. /\ net'.ok /\ Dumped(s)' => net.ok /\ Dumped(s)
          /\ SeenBy(p, s)' => SeenBy(p, s)
      BY <1>1, <1>2, <2>2 DEF Dumped, SeenBy
    <3> QED
      BY <3>1, <3>2
  <2>4. ListInv'
    BY <2>2, <2>3, SameList
  <2>5. PhaseInv'
    BY <1>1, <1>2, <2>2 DEF PhaseInv
  <2> QED
    BY <2>2, <2>4, <2>5 DEF NetInv
<1>3. CASE net' = [net EXCEPT !.pc = "receive"]
  <2>1. Searches("receive", net.request, net.delivered, net.list, net.process,
                         net.todo, net.ok)
    BY <1>1, <1>3 DEF Searches, PutSearch, NetStates
  <2> QED
    BY <1>1, <1>2, <2>1
<1>4. CASE net' = [net EXCEPT !.pc = "print", !.ok = FALSE]
  <2> DEFINE no == FALSE
  <2>1. Searches("print", net.request, net.delivered, net.list, net.process,
                         net.todo, no)
    BY <1>1, <1>4 DEF Searches, PutSearch, NetStates
  <2>2. no \in BOOLEAN /\ ~no
    OBVIOUS
  <2> HIDE DEF no
  <2> QED
    BY <1>1, <1>2, <2>1, <2>2
<1>5. CASE net' = NextRequest(FALSE)
  <2> DEFINE no == FALSE
  <2>1. no \in BOOLEAN /\ ~no /\ net' = NextRequest(no)
    BY <1>5
  <2> HIDE DEF no
  <2> QED
    BY <1>1, <2>1, NextRequestInv
<1> QED
  BY <1>3, <1>4, <1>5 DEF Request, NoNetlink

\* The same process and what is still to read of it: it has been looked at for no more.
LEMMA SearchFacts ==
  ASSUME NetInv
  PROVE  /\ net \in NetStates /\ net.pc \in NetPcs /\ net.request \in Nat
         /\ net.delivered \in SUBSET Socks /\ net.list \in SUBSET SocketStates
         /\ net.process \in 0 .. MaxPid /\ net.todo \in SUBSET Socks /\ net.ok \in BOOLEAN
         /\ net.process \in Nat /\ MaxPid \in Nat \ {0}
         /\ \A p \in Pids : p \in 1 .. MaxPid
BY NetFacts, NetstAssumption DEF NetInv, Pids

\* A buffer of a dump is received.
LEMMA ReceiveInv == ASSUME NetInv, Receive PROVE NetInv'
<1>1. PICK batch \in SUBSET Undelivered :
        net' = [net EXCEPT !.delivered = @ \cup batch,
                  !.list = @ \cup {[sock |-> s, pid |-> 0, inode |-> s \notin net.lingering] :
                                     s \in batch}]
  BY DEF Receive
<1> DEFINE new == {[sock |-> s, pid |-> 0, inode |-> s \notin net.lingering] : s \in batch}
           delivered == net.delivered \cup batch
           list == net.list \cup new
<1>2. /\ net \in NetStates /\ net.pc = "receive" /\ net.process = 0
      /\ batch \in SUBSET Socks /\ net.pc \in NetPcs /\ net.pc # "done"
  BY SearchFacts DEF Receive, Undelivered, NetInv, PhaseInv
<1>3. new \in SUBSET SocketStates
  <2>1. 0 \in 0 .. MaxPid
    BY SearchFacts
  <2>2. ASSUME NEW s \in batch
        PROVE  [sock |-> s, pid |-> 0, inode |-> s \notin net.lingering] \in SocketStates
    BY <1>2, <2>1 DEF SocketStates
  <2> QED
    BY <2>2
<1>4. /\ delivered \in SUBSET Socks /\ list \in SUBSET SocketStates
      /\ delivered = net.delivered \cup batch /\ list = net.list \cup new
  BY <1>2, <1>3, SearchFacts
<1>5. Searches(net.pc, net.request, delivered, list, net.process, net.todo, net.ok)
  BY <1>1, <1>2 DEF Searches, PutSearch, NetStates
<1>6. ASSUME NEW e \in new
      PROVE  e.sock \in batch /\ e.pid = 0 /\ (e.inode <=> e.sock \notin net.lingering)
  <2>1. PICK s \in batch : e = [sock |-> s, pid |-> 0, inode |-> s \notin net.lingering]
    OBVIOUS
  <2> QED
    BY <2>1
<1>7. ASSUME NEW s \in batch PROVE \E e \in new : e.sock = s
  <2>1. [sock |-> s, pid |-> 0, inode |-> s \notin net.lingering] \in new
    OBVIOUS
  <2> QED
    BY <2>1
<1> HIDE DEF new, delivered, list
<1>8. /\ net' \in NetStates /\ HolderInv' /\ SocketsFound'
      /\ net'.pc = net.pc /\ net'.request = net.request /\ net'.delivered = delivered
      /\ net'.list = list /\ net'.process = net.process
      /\ (net'.ok <=> net.ok) /\ net'.table = net.table /\ net'.ever = net.ever
      /\ net'.always = net.always /\ net'.readable = net.readable
  <2>1. /\ net.pc \in NetPcs /\ net.pc # "done" /\ net.request \in Nat
        /\ net.process \in 0 .. MaxPid /\ net.todo \in SUBSET Socks /\ net.ok \in BOOLEAN
        /\ delivered \in SUBSET Socks /\ list \in SUBSET SocketStates
    BY <1>2, <1>4, SearchFacts
  <2> QED
    BY <1>5, <2>1, SearchStep
<1>9. \A e \in net'.list : e.pid # 0 => e.pid \in net'.ever[e.sock] \cap net'.readable
  BY <1>4, <1>6, <1>8 DEF NetInv, ListInv
<1>10. ASSUME NEW s \in Socks, NEW p \in Pids, OwnedBy(s, p)'
       PROVE  /\ net'.ok /\ Dumped(s)' => \E e \in net'.list : e.sock = s
              /\ \A e \in net'.list : e.sock = s => e.inode /\ (SeenBy(p, s)' => e.pid = p)
  <2>1. OwnedBy(s, p) /\ s \notin net.lingering
    BY <1>8, <1>10, OwnedBefore
  <2>2. ~SeenBy(p, s)'
    BY <1>2, <1>8, SearchFacts DEF SeenBy
  <2>3. ASSUME net'.ok, Dumped(s)' PROVE \E e \in net'.list : e.sock = s
    <3>1. Dumped(s) \/ s \in batch
      BY <1>4, <1>8, <2>3 DEF Dumped
    <3>2. Dumped(s) => \E e \in net.list : e.sock = s
      BY <1>8, <2>1, <2>3 DEF NetInv, ListInv
    <3> QED
      BY <1>4, <1>7, <1>8, <3>1, <3>2
  <2>4. ASSUME NEW e \in net'.list, e.sock = s PROVE e.inode
    <3>1. CASE e \in net.list
      BY <2>1, <2>4, <3>1 DEF NetInv, ListInv
    <3>2. CASE e \in new
      BY <1>6, <2>1, <2>4, <3>2
    <3> QED
      BY <1>4, <1>8, <3>1, <3>2
  <2> QED
    BY <2>2, <2>3, <2>4
<1>11. ListInv'
  BY <1>9, <1>10 DEF ListInv
<1>12. PhaseInv'
  BY <1>2, <1>8 DEF PhaseInv
<1> QED
  BY <1>8, <1>11, <1>12 DEF NetInv

LEMMA DumpEndsInv == ASSUME NetInv, DumpDone \/ RecvFails PROVE NetInv'
<1> DEFINE yes == TRUE
           no == FALSE
<1>1. /\ net.pc \in {"request", "receive"} /\ yes \in BOOLEAN /\ no \in BOOLEAN /\ ~no
      /\ \/ Undelivered = {} /\ net' = NextRequest(yes)
         \/ net' = NextRequest(no)
  BY DEF DumpDone, RecvFails
<1> HIDE DEF yes, no
<1> QED
  BY <1>1, NextRequestInv

\* The next entry of /proc: nothing of the list changes.
LEMMA NextProcessInv == ASSUME NetInv, NextProcess \/ DescriptorsEnd PROVE NetInv'
<1>1. /\ net \in NetStates /\ net.pc \in {"processes", "descriptors"} /\ net.request > 4
      /\ net.delivered \in SUBSET Socks /\ net.list \in SUBSET SocketStates
      /\ net.request \in Nat /\ net.ok \in BOOLEAN /\ net.todo \in SUBSET Socks
      /\ net.process \in 0 .. MaxPid /\ net.process \in Nat /\ MaxPid \in Nat
      /\ \A p \in Pids : p \in 1 .. MaxPid
  BY SearchFacts DEF NetInv, PhaseInv, NextProcess, DescriptorsEnd
<1>2. ASSUME NEW to \in {"processes", "descriptors", "print"}, NEW process \in 0 .. MaxPid,
             NEW todo \in SUBSET Socks,
             Searches(to, net.request, net.delivered, net.list, process, todo, net.ok),
             to = "descriptors" => process \in net.readable,
             to = "print" => process = MaxPid,
             \A s \in Socks, p \in Pids :
               /\ p \in net.readable
               /\ p < process \/ (p = process /\ (to = "descriptors" => s \notin todo))
               => SeenBy(p, s)
      PROVE  NetInv'
  <2>1. to \in NetPcs /\ to # "done"
    BY DEF NetPcs
  <2>2. /\ net' \in NetStates /\ HolderInv' /\ SocketsFound'
        /\ net'.pc = to /\ net'.request = net.request /\ net'.delivered = net.delivered
        /\ net'.list = net.list /\ net'.process = process /\ net'.todo = todo
        /\ (net'.ok <=> net.ok) /\ net'.table = net.table /\ net'.ever = net.ever
        /\ net'.always = net.always /\ net'.readable = net.readable
    <3>1. /\ net.request \in Nat /\ net.delivered \in SUBSET Socks
          /\ net.list \in SUBSET SocketStates /\ net.ok \in BOOLEAN
      BY <1>1
    <3> QED
      BY <1>2, <2>1, <3>1, SearchStep
  <2>3. ASSUME NEW s \in Socks, NEW p \in Pids, OwnedBy(s, p)'
        PROVE  /\ OwnedBy(s, p)
               /\ net'.ok /\ Dumped(s)' => net.ok /\ Dumped(s)
               /\ SeenBy(p, s)' => SeenBy(p, s)
    <3>1. OwnedBy(s, p) /\ p \in net.readable
      BY <2>2, <2>3 DEF OwnedBy
    <3>2. net'.ok /\ Dumped(s)' => net.ok /\ Dumped(s)
      BY <2>2 DEF Dumped
    <3>3. SeenBy(p, s)' => SeenBy(p, s)
      <4>1. SeenBy(p, s)' =>
              p < process \/ (p = process /\ (to = "descriptors" => s \notin todo))
        BY <2>2 DEF SeenBy
      <4> QED
        BY <1>2, <3>1, <4>1
    <3> QED
      BY <3>1, <3>2, <3>3
  <2>4. ListInv'
    BY <2>2, <2>3, SameList
  <2>5. PhaseInv'
    BY <1>1, <1>2, <2>2 DEF PhaseInv
  <2> QED
    BY <2>2, <2>4, <2>5 DEF NetInv
<1>3. CASE DescriptorsEnd
  <2>1. Searches("processes", net.request, net.delivered, net.list, net.process, net.todo,
                 net.ok)
    BY <1>1, <1>3 DEF DescriptorsEnd, Searches, PutSearch, NetStates
  <2>2. \A s \in Socks, p \in Pids : p < net.process \/ p = net.process => SeenBy(p, s)
    BY <1>3 DEF DescriptorsEnd, SeenBy
  <2> QED
    BY <1>1, <1>2, <2>1, <2>2
<1>4. CASE NextProcess
  <2> DEFINE next == net.process + 1
  <2>1. net.pc = "processes" /\ net.readable \in SUBSET Pids
    BY <1>1, <1>4, NetFacts DEF NextProcess
  <2>2. \A s \in Socks, p \in Pids : p < next => SeenBy(p, s)
    BY <1>1, <2>1 DEF SeenBy
  <2>3. CASE next > MaxPid
    <3>1. net' = [net EXCEPT !.pc = "print"]
      BY <1>1, <1>4, <2>1, <2>3 DEF NextProcess, Pids
    <3>2. Searches("print", net.request, net.delivered, net.list, net.process, net.todo,
                   net.ok)
      BY <1>1, <3>1 DEF Searches, PutSearch, NetStates
    <3>3. net.process = MaxPid
      BY <1>1, <2>3
    <3>4. \A s \in Socks, p \in Pids : p < net.process \/ p = net.process => SeenBy(p, s)
      BY <2>1 DEF SeenBy
    <3> QED
      BY <1>1, <1>2, <3>2, <3>3, <3>4
  <2>4. CASE next \in Pids \ net.readable
    <3>1. net' = [net EXCEPT !.process = next]
      BY <1>1, <1>4, <2>4 DEF NextProcess, AfterUnreadable, Pids
    <3>2. Searches("processes", net.request, net.delivered, net.list, next, net.todo, net.ok)
      BY <1>1, <2>1, <3>1 DEF Searches, PutSearch, NetStates
    <3>3. next \in 0 .. MaxPid /\ next \notin net.readable
      BY <1>1, <2>4
    <3> HIDE DEF next
    <3> QED
      BY <1>1, <1>2, <2>2, <3>2, <3>3
  <2>5. CASE next \in net.readable
    <3>1. net' = [net EXCEPT !.process = next, !.pc = "descriptors", !.todo = Socks]
      BY <1>1, <1>4, <2>1, <2>5 DEF NextProcess, Pids
    <3>2. Searches("descriptors", net.request, net.delivered, net.list, next, Socks, net.ok)
      BY <1>1, <3>1 DEF Searches, PutSearch, NetStates
    <3>3. next \in 0 .. MaxPid /\ next \in net.readable /\ Socks \in SUBSET Socks
      BY <1>1, <2>1, <2>5
    <3> HIDE DEF next
    <3> QED
      BY <1>1, <1>2, <2>2, <3>2, <3>3
  <2> QED
    BY <1>1, <2>3, <2>4, <2>5 DEF Pids
<1> QED
  BY <1>3, <1>4

\* An entry of the list, when the process has its socket among its descriptors.
Found(e, s) ==
  IF e.sock = s /\ e.inode /\ net.process \in net.holders[s]
  THEN [e EXCEPT !.pid = net.process] ELSE e

LEMMA FoundFields ==
  ASSUME NetInv, NEW e \in net.list, NEW s \in Socks
  PROVE  /\ Found(e, s) \in SocketStates
         /\ Found(e, s).sock = e.sock /\ (Found(e, s).inode <=> e.inode)
         /\ IF e.sock = s /\ e.inode /\ net.process \in net.holders[s]
            THEN Found(e, s).pid = net.process ELSE Found(e, s).pid = e.pid
<1>1. e \in SocketStates /\ net.process \in 0 .. MaxPid
  BY SearchFacts
<1>2. CASE e.sock = s /\ e.inode /\ net.process \in net.holders[s]
  BY <1>1, <1>2 DEF Found, SocketStates
<1>3. CASE ~(e.sock = s /\ e.inode /\ net.process \in net.holders[s])
  BY <1>1, <1>3 DEF Found
<1> QED
  BY <1>2, <1>3

LEMMA DescriptorInv == ASSUME NetInv, Descriptor PROVE NetInv'
<1>1. PICK t \in net.todo :
        net' = [net EXCEPT !.todo = @ \ {t}, !.list = {Found(e, t) : e \in @}]
  BY Zenon DEF Descriptor, Found
<1> DEFINE todo == net.todo \ {t}
           list == {Found(e, t) : e \in net.list}
<1>2. /\ net \in NetStates /\ net.pc = "descriptors" /\ net.request > 4
      /\ net.process \in net.readable /\ t \in Socks /\ net.request \in Nat
      /\ net.process \in Nat /\ net.pc \in NetPcs /\ net.pc # "done"
      /\ \A p \in Pids : p \in 1 .. MaxPid
  BY SearchFacts DEF NetInv, PhaseInv, Descriptor
<1>3. /\ todo \in SUBSET Socks /\ list \in SUBSET SocketStates
      /\ todo = net.todo \ {t}
  BY <1>2, SearchFacts, FoundFields
<1>4. Searches(net.pc, net.request, net.delivered, list, net.process, todo, net.ok)
  BY <1>1, <1>2 DEF Searches, PutSearch, NetStates
<1>5. ASSUME NEW f \in list PROVE \E e \in net.list : f = Found(e, t)
  OBVIOUS
<1>6. ASSUME NEW e \in net.list PROVE Found(e, t) \in list
  OBVIOUS
<1> HIDE DEF todo, list
<1>7. /\ net' \in NetStates /\ HolderInv' /\ SocketsFound'
      /\ net'.pc = net.pc /\ net'.request = net.request /\ net'.delivered = net.delivered
      /\ net'.list = list /\ net'.process = net.process /\ net'.todo = todo
      /\ (net'.ok <=> net.ok) /\ net'.table = net.table /\ net'.ever = net.ever
      /\ net'.always = net.always /\ net'.readable = net.readable
  <2>1. /\ net.pc \in NetPcs /\ net.pc # "done" /\ net.request \in Nat
        /\ net.delivered \in SUBSET Socks /\ net.process \in 0 .. MaxPid
        /\ net.ok \in BOOLEAN /\ todo \in SUBSET Socks /\ list \in SUBSET SocketStates
    BY <1>2, <1>3, SearchFacts
  <2> QED
    BY <1>4, <2>1, SearchStep
<1>8. ASSUME NEW f \in list, f.pid # 0 PROVE f.pid \in net.ever[f.sock] \cap net.readable
  <2>1. PICK e \in net.list : f = Found(e, t)
    BY <1>5
  <2>2. e.pid # 0 => e.pid \in net.ever[e.sock] \cap net.readable
    BY DEF NetInv, ListInv
  <2>3. net.holders[t] \subseteq net.ever[t]
    BY <1>2 DEF NetInv, HolderInv
  <2> QED
    BY <1>2, <1>8, <2>1, <2>2, <2>3, FoundFields
<1>9. ASSUME NEW s \in Socks, NEW p \in Pids, OwnedBy(s, p)'
      PROVE  /\ net'.ok /\ Dumped(s)' => \E f \in list : f.sock = s
             /\ \A f \in list : f.sock = s => f.inode /\ (SeenBy(p, s)' => f.pid = p)
  <2>1. OwnedBy(s, p) /\ net.holders[s] = {p}
    BY <1>7, <1>9, OwnedBefore
  <2>2. ASSUME net'.ok, Dumped(s)' PROVE \E f \in list : f.sock = s
    <3>1. PICK e \in net.list : e.sock = s
      BY <1>7, <2>1, <2>2 DEF NetInv, ListInv, Dumped
    <3> QED
      BY <1>2, <1>6, <3>1, FoundFields
  <2>3. ASSUME NEW f \in list, f.sock = s
        PROVE  f.inode /\ (SeenBy(p, s)' => f.pid = p)
    <3>1. PICK e \in net.list : f = Found(e, t)
      BY <1>5
    <3>2. e.sock = s /\ (f.inode <=> e.inode)
      BY <1>2, <2>3, <3>1, FoundFields
    <3>3. e.inode /\ (SeenBy(p, s) => e.pid = p)
      BY <2>1, <3>2 DEF NetInv, ListInv
    <3>4. CASE s = t /\ net.process \in net.holders[t]
      BY <1>2, <2>1, <3>1, <3>2, <3>3, <3>4, FoundFields
    <3>5. CASE ~(s = t /\ net.process \in net.holders[t])
      <4>1. f.pid = e.pid
        BY <1>2, <3>1, <3>2, <3>5, FoundFields
      <4>2. SeenBy(p, s)' => SeenBy(p, s)
        BY <1>2, <1>3, <1>7, <2>1, <3>5 DEF SeenBy
      <4> QED
        BY <3>2, <3>3, <4>1, <4>2
    <3> QED
      BY <3>4, <3>5
  <2> QED
    BY <2>2, <2>3
<1>10. ListInv'
  BY <1>7, <1>8, <1>9 DEF ListInv
<1>11. PhaseInv'
  BY <1>2, <1>7 DEF PhaseInv
<1> QED
  BY <1>7, <1>10, <1>11 DEF NetInv

\* main() prints what it has found.
LEMMA PrintSocketsInv == ASSUME NetInv, PrintSockets PROVE NetInv'
<1>1. PICK o \in NetOptions :
        net' = [net EXCEPT !.pc = "done", !.opt = o,
                  !.printed = {e \in Chosen(o) : o.pidOnly => e.pid # 0},
                  !.exit = IF Chosen(o) = {} THEN 1 ELSE 0]
  BY DEF PrintSockets
<1> DEFINE printed == {e \in Chosen(o) : o.pidOnly => e.pid # 0}
           status == IF Chosen(o) = {} THEN 1 ELSE 0
           r == PutPrinted(net, "done", o, printed, status)
<1>2. /\ net \in NetStates /\ net.pc = "print" /\ HolderInv /\ ListInv /\ PhaseInv
      /\ net.process \in Nat /\ net.request \in Nat
  BY SearchFacts DEF NetInv, PrintSockets
<1>3. /\ printed \in SUBSET SocketStates /\ status \in Int /\ printed \subseteq net.list
      /\ status = 1 => printed = {}
  BY SearchFacts DEF Chosen
<1>4. net' = r
  BY <1>1, <1>2 DEF PutPrinted, NetStates
<1>5. \A e \in net.list :
        /\ o.port # "none" => o.port # "bare"
        /\ o.pid # 0 => e.pid = o.pid
        /\ o.pidOnly => e.pid # 0
        => e \in printed
  BY DEF Chosen, MatchesPort
<1> HIDE DEF printed, status
<1>6. /\ r \in NetStates
      /\ r.opt = o /\ r.pc = "done" /\ r.request = net.request
      /\ r.delivered = net.delivered /\ r.list = net.list /\ r.process = net.process
      /\ r.todo = net.todo /\ r.ok = net.ok /\ r.printed = printed /\ r.exit = status
      /\ r.table = net.table /\ r.holders = net.holders /\ r.lingering = net.lingering
      /\ r.readable = net.readable /\ r.ever = net.ever /\ r.always = net.always
  <2>1. "done" \in NetPcs
    BY DEF NetPcs
  <2> QED
    BY <1>2, <1>3, <2>1, PutPrintedFields, SMTT(30)
<1> HIDE DEF r
<1>7. HolderInv' /\ PhaseInv'
  BY <1>2, <1>4, <1>6 DEF HolderInv, PhaseInv
<1>8. ListInv'
  <2>1. ASSUME NEW s \in Socks, NEW p \in Pids, OwnedBy(s, p)'
        PROVE  /\ OwnedBy(s, p)
               /\ net'.ok /\ Dumped(s)' => net.ok /\ Dumped(s)
               /\ SeenBy(p, s)' => SeenBy(p, s)
    BY <1>2, <1>4, <1>6, <2>1 DEF OwnedBy, Dumped, SeenBy
  <2> QED
    BY <1>4, <1>6, <2>1, SameList
<1>9. \A e \in printed : e.pid # 0 => e.pid \in net.ever[e.sock] \cap net.readable
  BY <1>2, <1>3 DEF ListInv
<1>10. ASSUME net.ok, NEW s \in Socks, NEW p \in Pids, OwnedBy(s, p), o.port # "bare",
              o.pid \in {0, p}
       PROVE  [sock |-> s, pid |-> p, inode |-> TRUE] \in printed
  <2>1. net.request > 4 /\ net.process = MaxPid /\ net.table[s] \in 1 .. 4 /\ p \in 1 .. MaxPid
    BY <1>2, <1>10, SearchFacts, NetFacts DEF PhaseInv
  <2>2. Dumped(s) /\ SeenBy(p, s)
    BY <1>2, <2>1, NetstAssumption DEF Dumped, SeenBy
  <2>3. PICK e \in net.list : e.sock = s
    BY <1>2, <1>10, <2>2 DEF ListInv
  <2>4. e.inode /\ e.pid = p
    BY <1>2, <1>10, <2>2, <2>3 DEF ListInv
  <2>5. e = [sock |-> s, pid |-> p, inode |-> TRUE]
    BY <2>3, <2>4, SearchFacts DEF SocketStates
  <2>6. e \in printed
    BY <1>5, <1>10, <2>1, <2>3, <2>4, NetstAssumption
  <2> QED
    BY <2>5, <2>6
<1>11. SocketsFound'
  BY <1>3, <1>4, <1>6, <1>9, <1>10 DEF SocketsFound, OwnedBy, Asked
<1> QED
  BY <1>4, <1>6, <1>7, <1>8, <1>11 DEF NetInv

LEMMA NetNextInv == ASSUME NetInv, NetStep \/ UNCHANGED net PROVE NetInv'
<1>1. CASE UNCHANGED net
  BY <1>1 DEF NetInv, HolderInv, ListInv, PhaseInv, SocketsFound, OwnedBy, Asked, Dumped, SeenBy
<1> QED
  BY <1>1, SystemInv, RequestInv, ReceiveInv, DumpEndsInv, NextProcessInv, DescriptorInv,
     PrintSocketsInv DEF NetStep, NetRun

LEMMA NetInitInv ==
  ASSUME NEW table \in [Socks -> SockTables], NEW holders \in Holders,
         NEW readable \in SUBSET Pids, net = NetStart(table, holders, readable)
  PROVE  NetInv
<1>1. /\ net.pc = "request" /\ net.request = 1 /\ net.delivered = {} /\ net.list = {}
      /\ net.process = 0 /\ net.table = table /\ net.holders = holders /\ net.lingering = {}
      /\ net.readable = readable /\ net.ever = holders /\ net.always = holders
  BY DEF NetStart
<1>2. net \in NetStates
  <2>1. NoOptions \in NetOptions /\ 0 \in 0 .. MaxPid
    BY NetstAssumption DEF NoOptions, NetOptions
  <2> QED
    BY <2>1 DEF NetStart, NetStates, NetPcs
<1>3. HolderInv /\ PhaseInv /\ SocketsFound
  BY <1>1 DEF HolderInv, PhaseInv, SocketsFound
<1>4. ListInv
  <2>1. ASSUME NEW s \in Socks PROVE ~Dumped(s)
    <3>1. net.table[s] \in 1 .. 4
      BY <1>2, NetFacts
    <3> QED
      BY <1>1, <3>1 DEF Dumped
  <2> QED
    BY <1>1, <2>1 DEF ListInv
<1> QED
  BY <1>2, <1>3, <1>4 DEF NetInv

LEMMA NetInvariant == Spec => []NetInv
<1>1. Init => NetInv
  <2> SUFFICES ASSUME Init PROVE NetInv
    OBVIOUS
  <2>1. CASE program = "netst"
    BY <2>1, NetInitInv DEF Init, NetInit, Holders
  <2>2. CASE program # "netst"
    <3> DEFINE table == [s \in Socks |-> CHOOSE t \in SockTables : TRUE]
               holders == [s \in Socks |-> {}]
    <3>1. table \in [Socks -> SockTables] /\ holders \in Holders
      BY NetstAssumption DEF Holders
    <3>2. net = NetStart(table, holders, {})
      BY <2>2 DEF Init
    <3> HIDE DEF table, holders
    <3> QED
      BY <3>1, <3>2, NetInitInv
  <2> QED
    BY <2>1, <2>2
<1>2. NetInv /\ [Next]_vars => NetInv'
  <2>1. [Next]_vars => NetStep \/ UNCHANGED net
    BY DEF Next, vars, Stls, Sdns, Sttp, Netst, NProbe
  <2> QED
    BY <2>1, NetNextInv
<1> QED
  BY <1>1, <1>2, PTL DEF Spec

\* Whatever happens in the system meanwhile, netst names only processes that have had the
\* socket, and prints every socket that one readable process has held throughout.
THEOREM NetstFinds == Spec => []SocketsFound
<1>1. NetInv => SocketsFound
  BY DEF NetInv
<1> QED
  BY <1>1, NetInvariant, PTL

-----------------------------------------------------------------------------
(* nprobe.                                                                 *)

Fields == {"success", "timed_out", "error"}

ProbeResults == [success : BOOLEAN, timed_out : BOOLEAN, error : BOOLEAN]

\* What a finished attempt must be: one verdict, and a true one.
Sound(s) == s.result \in ProbeResults /\ OneVerdict(s.result) /\ (s.result.success => s.reached)

\* An attempt that is not decided still has its timer, not cancelled, and its operation;
\* one that is decided has exactly one of the three fields set.
Undecided == timer.state # "finished" /\ timer.code = "ok" /\ io.state # "finished"

RunInv ==
  /\ ~completed => result = NoResult /\ Undecided
  /\ completed => \E f \in Fields : /\ result = [NoResult EXCEPT ![f] = TRUE]
                                    /\ f = "success" => reached

\* An operation that came back well did so because of the peer.
IoInv ==
  io.state = "queued" /\ io.code = "ok" /\ io.op \in {"connect", "receive"} => reached

ProbeOk ==
  /\ opt.attempts \in Nat \ {0}
  /\ results \in Seq([result : ProbeResults, reached : BOOLEAN])
  /\ reached \in BOOLEAN /\ completed \in BOOLEAN
  /\ \A i \in DOMAIN results : Sound(results[i])

ProbeInv ==
  /\ ProbeOk
  /\ IoInv
  /\ pc \in {"next", "run", "store", "exit", "done"}
  /\ pc = "run" => RunInv
  /\ pc # "run" => timer.state = "finished" /\ io.state = "finished"
  /\ pc = "store" => Sound([result |-> result, reached |-> reached])
  /\ pc \in {"next", "run", "store"} => Len(results) < opt.attempts
  /\ pc \in {"exit", "done"} => Len(results) = opt.attempts
  /\ pc # "done" => exit = -1
  /\ exit = 0 => \A i \in DOMAIN results : results[i].result.success
  /\ exit # -1 /\ exit # 0 => \E i \in DOMAIN results : ~results[i].result.success

\* What deciding an attempt does to its result.
LEMMA FieldSet ==
  ASSUME NEW f \in Fields
  PROVE  LET r == [NoResult EXCEPT ![f] = TRUE]
         IN  /\ r \in ProbeResults
             /\ r.success <=> f = "success"
             /\ r.timed_out <=> f = "timed_out"
             /\ r.error <=> f = "error"
<1>1. CASE f = "success"
  BY <1>1 DEF NoResult, ProbeResults
<1>2. CASE f = "timed_out"
  BY <1>2 DEF NoResult, ProbeResults
<1>3. CASE f = "error"
  BY <1>3 DEF NoResult, ProbeResults
<1> QED
  BY <1>1, <1>2, <1>3 DEF Fields

LEMMA ProbeInitInv == Init => ProbeInv
<1> SUFFICES ASSUME Init PROVE ProbeInv
  OBVIOUS
<1>1. opt.attempts \in Nat \ {0}
  <2>1. opt \in ProbeOptions
    BY DEF Init, ProbeInit
  <2> QED
    BY <2>1, AttemptsAssumption DEF ProbeOptions
<1>2. timer = Idle /\ io = Idle /\ pc = "next" /\ exit = -1 /\ results = <<>> /\ reached = FALSE
      /\ completed = FALSE
  BY DEF Init, ProbeInit
<1>3. ProbeOk
  <2>1. results \in Seq([result : ProbeResults, reached : BOOLEAN])
    BY <1>2
  <2>2. DOMAIN results = {}
    BY <1>2
  <2> QED
    BY <1>1, <1>2, <2>1, <2>2 DEF ProbeOk
<1>4. Len(results) = 0 /\ timer.state = "finished" /\ io.state = "finished"
  BY <1>2 DEF Idle
<1> QED
  BY <1>1, <1>2, <1>3, <1>4 DEF ProbeInv, IoInv

LEMMA StartInv == ASSUME ProbeInv, TcpStart \/ UdpStart PROVE ProbeInv'
<1>1. pc = "next" /\ UNCHANGED <<opt, results, exit>> /\ completed' = FALSE /\ reached' = FALSE
  BY DEF TcpStart, UdpStart
<1>2. ProbeOk'
  BY <1>1 DEF ProbeInv, ProbeOk, Sound
<1>3. CASE /\ pc' = "run" /\ timer' = Pending("wait") /\ result' = NoResult
           /\ io' \in {Pending("connect"), Pending("send")}
  <2>1. timer'.state = "pending" /\ timer'.code = "ok" /\ io'.state = "pending"
    BY <1>3 DEF Pending
  <2>2. IoInv' /\ RunInv'
    BY <1>1, <1>3, <2>1 DEF IoInv, RunInv, Undecided
  <2> QED
    BY <1>1, <1>2, <1>3, <2>2 DEF ProbeInv
<1>4. CASE pc' = "store" /\ timer' = Idle /\ io' = Idle /\ result' = [NoResult EXCEPT !.error = TRUE]
  <2>1. IoInv' /\ timer'.state = "finished" /\ io'.state = "finished"
    BY <1>4 DEF IoInv, Idle
  <2>2. Sound([result |-> result, reached |-> reached])'
    BY <1>4 DEF Sound, OneVerdict, NoResult, ProbeResults
  <2> QED
    BY <1>1, <1>2, <1>4, <2>1, <2>2 DEF ProbeInv
<1> QED
  BY <1>3, <1>4 DEF TcpStart, UdpStart

LEMMA RunReturnsInv == ASSUME ProbeInv, RunReturns PROVE ProbeInv'
<1>1. pc = "run" /\ completed /\ reached \in BOOLEAN
  BY DEF RunReturns, ProbeInv, ProbeOk, RunInv, Undecided
<1>2. PICK f \in Fields : /\ result = [NoResult EXCEPT ![f] = TRUE]
                          /\ f = "success" => reached
  BY <1>1 DEF ProbeInv, RunInv
<1>3. /\ result \in ProbeResults
      /\ result.success <=> f = "success"
      /\ result.timed_out <=> f = "timed_out"
      /\ result.error <=> f = "error"
  BY <1>2, FieldSet
<1>4. result' = [result EXCEPT !.error = @ \/ result.timed_out] /\ reached' = reached
  BY DEF RunReturns
<1>5. /\ result' \in ProbeResults
      /\ result'.success = result.success /\ result'.timed_out = result.timed_out
      /\ result'.error = (result.error \/ result.timed_out)
  BY <1>3, <1>4 DEF ProbeResults
<1>6. Sound([result |-> result, reached |-> reached])'
  BY <1>1, <1>2, <1>3, <1>4, <1>5 DEF Sound, OneVerdict, Fields
<1>7. ProbeOk' /\ IoInv'
  BY DEF RunReturns, ProbeInv, ProbeOk, IoInv, Sound
<1> QED
  BY <1>1, <1>6, <1>7 DEF RunReturns, ProbeInv

\* What Append does.
LEMMA AppendOne ==
  ASSUME NEW T, NEW r \in Seq(T), NEW s \in T
  PROVE  /\ Append(r, s) \in Seq(T) /\ Len(Append(r, s)) = Len(r) + 1
         /\ \A i \in DOMAIN Append(r, s) :
              \/ i \in DOMAIN r /\ Append(r, s)[i] = r[i]
              \/ Append(r, s)[i] = s
<1> DEFINE q == Append(r, s)
<1>1. /\ DOMAIN q = 1 .. Len(r) + 1 /\ Len(r) \in Nat /\ DOMAIN r = 1 .. Len(r)
      /\ q \in Seq(T) /\ Len(q) = Len(r) + 1
  OBVIOUS
<1>2. q[Len(r) + 1] = s
  OBVIOUS
<1>3. \A i \in 1 .. Len(r) : q[i] = r[i]
  OBVIOUS
<1> HIDE DEF q
<1>4. ASSUME NEW i \in DOMAIN q PROVE (i \in DOMAIN r /\ q[i] = r[i]) \/ q[i] = s
  <2>1. i \in 1 .. Len(r) \/ i = Len(r) + 1
    BY <1>1
  <2> QED
    BY <1>1, <1>2, <1>3, <2>1
<1> QED
  BY <1>1, <1>4 DEF q

LEMMA StoreInv == ASSUME ProbeInv, Store PROVE ProbeInv'
<1> DEFINE s == [result |-> result, reached |-> reached]
           T == [result : ProbeResults, reached : BOOLEAN]
<1>1. /\ pc = "store" /\ Sound(s) /\ results' = Append(results, s)
      /\ UNCHANGED <<opt, timer, io, reached, completed, exit>>
      /\ timer.state = "finished" /\ io.state = "finished"
      /\ pc' = IF Len(results) + 1 = opt.attempts THEN "exit" ELSE "next"
  BY DEF ProbeInv, Store
<1>2. s \in T /\ results \in Seq(T) /\ Len(results) < opt.attempts /\ exit = -1
      /\ opt.attempts \in Nat \ {0} /\ \A i \in DOMAIN results : Sound(results[i])
  BY <1>1 DEF ProbeInv, ProbeOk, Sound
<1> HIDE DEF s, T
<1>3. /\ results' \in Seq(T) /\ Len(results') = Len(results) + 1
      /\ \A i \in DOMAIN results' :
           (i \in DOMAIN results /\ results'[i] = results[i]) \/ results'[i] = s
  <2>1. /\ Append(results, s) \in Seq(T) /\ Len(Append(results, s)) = Len(results) + 1
        /\ \A i \in DOMAIN Append(results, s) :
             \/ i \in DOMAIN results /\ Append(results, s)[i] = results[i]
             \/ Append(results, s)[i] = s
    BY <1>2, AppendOne
  <2>2. results' = Append(results, s)
    BY <1>1
  <2> QED
    BY <2>1, <2>2, Zenon
<1>4. \A i \in DOMAIN results' : Sound(results'[i])
  BY <1>1, <1>2, <1>3
<1>5. ProbeOk' /\ IoInv'
  BY <1>1, <1>3, <1>4 DEF ProbeInv, ProbeOk, IoInv, Sound, T
<1> QED
  BY <1>1, <1>2, <1>3, <1>5 DEF ProbeInv

LEMMA ExitInv == ASSUME ProbeInv, Exit PROVE ProbeInv'
<1>1. ProbeOk' /\ IoInv'
  BY DEF Exit, ProbeInv, ProbeOk, IoInv, Sound
<1> QED
  BY <1>1 DEF Exit, ProbeInv

\* What a handler, the network or the clock leaves alone while an attempt runs.
LEMMA AttemptInv ==
  ASSUME ProbeInv, pc = "run", UNCHANGED <<opt, pc, results, exit>>,
         reached' \in BOOLEAN, completed' \in BOOLEAN, IoInv', RunInv'
  PROVE  ProbeInv'
<1>1. ProbeOk'
  BY DEF ProbeInv, ProbeOk, Sound
<1> QED
  BY <1>1 DEF ProbeInv

LEMMA TimerHandlerInv == ASSUME ProbeInv, TimerHandler PROVE ProbeInv'
<1>1. /\ pc = "run" /\ reached \in BOOLEAN /\ completed \in BOOLEAN
      /\ UNCHANGED <<opt, pc, results, reached, exit>> /\ RunInv /\ IoInv
  BY DEF TimerHandler, attempt, ProbeInv, ProbeOk
<1>2. CASE completed
  <2>1. UNCHANGED <<completed, result, io>>
    BY <1>2 DEF TimerHandler
  <2> QED
    BY <1>1, <1>2, <2>1, AttemptInv DEF RunInv, IoInv
<1>3. CASE ~completed
  <2>1. timer.code = "ok" /\ result = NoResult
    BY <1>1, <1>3 DEF RunInv, Undecided
  <2>2. /\ completed' = TRUE /\ result' = [result EXCEPT !["timed_out"] = TRUE]
        /\ io' = Abort(io)
    BY <1>3, <2>1 DEF TimerHandler
  <2>3. IoInv'
    BY <1>1, <2>2 DEF IoInv, Abort, Queued
  <2>4. RunInv'
    BY <1>1, <2>1, <2>2 DEF RunInv, Fields
  <2> QED
    BY <1>1, <2>2, <2>3, <2>4, AttemptInv
<1> QED
  BY <1>1, <1>2, <1>3

\* The end of a handler of the operation.
LEMMA DecideInv ==
  ASSUME ProbeInv, pc = "run", NEW f \in Fields, Decide(f), io' = Idle,
         UNCHANGED <<opt, pc, results, reached, exit>>, f = "success" => reached
  PROVE  ProbeInv'
<1>1. RunInv /\ reached \in BOOLEAN /\ completed \in BOOLEAN
  BY DEF ProbeInv, ProbeOk
<1>2. IoInv'
  BY DEF IoInv, Idle
<1>3. RunInv' /\ completed' \in BOOLEAN
  BY <1>1 DEF Decide, RunInv
<1> QED
  BY <1>1, <1>2, <1>3, AttemptInv

LEMMA OperationInv ==
  ASSUME ProbeInv, TcpHandler \/ UdpSendHandler \/ UdpReceiveHandler
  PROVE  ProbeInv'
<1>1. /\ pc = "run" /\ io.state = "queued"
      /\ UNCHANGED <<opt, pc, results, reached, exit>>
  BY DEF TcpHandler, UdpSendHandler, UdpReceiveHandler, attempt, ProbeInv
<1>2. reached \in BOOLEAN /\ completed \in BOOLEAN /\ RunInv /\ IoInv
  BY <1>1 DEF ProbeInv, ProbeOk
<1>3. CASE /\ UNCHANGED <<completed, timer, result>>
           /\ io' \in {Pending("connect"), Pending("receive")}
  <2>1. io'.state = "pending"
    BY <1>3 DEF Pending
  <2>2. IoInv' /\ RunInv'
    BY <1>1, <1>2, <1>3, <2>1 DEF IoInv, RunInv, Undecided
  <2> QED
    BY <1>1, <1>2, <1>3, <2>2, AttemptInv
<1>4. CASE \E f \in Fields : Decide(f) /\ io' = Idle /\ (f = "success" => reached)
  BY <1>1, <1>4, DecideInv
<1>5. ASSUME TcpHandler PROVE ProbeInv'
  BY <1>1, <1>2, <1>3, <1>4, <1>5 DEF TcpHandler, IoInv, Fields
<1>6. ASSUME UdpSendHandler PROVE ProbeInv'
  BY <1>3, <1>4, <1>6 DEF UdpSendHandler, Fields
<1>7. ASSUME UdpReceiveHandler PROVE ProbeInv'
  BY <1>1, <1>2, <1>4, <1>7 DEF UdpReceiveHandler, IoInv, Fields
<1> QED
  BY <1>5, <1>6, <1>7

LEMMA NetworkInv == ASSUME ProbeInv, Network \/ TimerExpires PROVE ProbeInv'
<1>1. pc = "run" /\ UNCHANGED <<opt, pc, results, completed, result, exit>>
  BY DEF Network, Complete, TimerExpires, attempt, ProbeInv
<1>2. reached \in BOOLEAN /\ completed \in BOOLEAN /\ RunInv /\ IoInv
  BY <1>1 DEF ProbeInv, ProbeOk
<1>3. ASSUME NEW code, Complete(code) PROVE ProbeInv'
  <2>1. io' = Queued(io.op, code) /\ timer' = timer
        /\ reached' = (reached \/ (code = "ok" /\ io.op \in {"connect", "receive"}))
    BY <1>3 DEF Complete
  <2>2. io'.op = io.op /\ io'.state = "queued" /\ io'.code = code
    BY <2>1 DEF Queued
  <2>3. IoInv' /\ reached' \in BOOLEAN
    BY <1>2, <2>1, <2>2 DEF IoInv
  <2>4. RunInv'
    BY <1>1, <1>2, <2>1, <2>2 DEF RunInv, Undecided
  <2> QED
    BY <1>1, <1>2, <2>3, <2>4, AttemptInv
<1>4. ASSUME TimerExpires PROVE ProbeInv'
  <2>1. UNCHANGED <<reached, io>> /\ timer'.state = "queued" /\ timer'.code = "ok"
    BY <1>4 DEF TimerExpires, attempt, Queued
  <2>2. IoInv' /\ RunInv'
    BY <1>1, <1>2, <2>1 DEF IoInv, RunInv, Undecided
  <2> QED
    BY <1>1, <1>2, <2>1, <2>2, AttemptInv
<1> QED
  BY <1>3, <1>4 DEF Network

LEMMA ProbeNextInv ==
  ASSUME ProbeInv, NProbeStep \/ UNCHANGED probeVars
  PROVE  ProbeInv'
<1>1. ASSUME UNCHANGED probeVars PROVE ProbeInv'
  BY <1>1 DEF probeVars, ProbeInv, ProbeOk, IoInv, RunInv, Undecided, Sound
<1> QED
  BY <1>1, StartInv, RunReturnsInv, StoreInv, ExitInv, TimerHandlerInv, OperationInv,
     NetworkInv DEF NProbeStep, Main, Handler

\* Every attempt of nprobe has one verdict, and a true one, in whichever order its answer
\* and its timeout arrive; and the status follows from the verdicts.
THEOREM NProbeVerdicts == Spec => []VerdictsTrue
<1>1. ProbeInv /\ [Next]_vars => ProbeInv'
  <2>1. [Next]_vars => NProbeStep \/ UNCHANGED probeVars
    BY DEF Next, vars, Stls, Sdns, Sttp, Netst, NProbe
  <2> QED
    BY <2>1, ProbeNextInv
<1>2. ProbeInv => VerdictsTrue
  BY DEF ProbeInv, ProbeOk, Sound, VerdictsTrue
<1> QED
  BY <1>1, <1>2, ProbeInitInv, PTL DEF Spec
=============================================================================
