-------------------------------- MODULE Stls --------------------------------
(***************************************************************************)
(* inetin's stls (stls.cpp): one TLS connection, to report what it is.     *)
(* The addresses of the host are tried one after the other, each with the  *)
(* whole timeout; the handshake that follows has one deadline for all its  *)
(* turns.  OpenSSL and the peer are external: SSL_connect succeeds, fails  *)
(* or wants to wait, and select() ends because the socket is ready, the    *)
(* time is up or a signal came.                                            *)
(***************************************************************************)
EXTENDS Integers

CONSTANTS
  MaxTimeout, MaxAddresses,   \* largest -t, most addresses of the host
  TlsEnd                      \* bound on the clock

ASSUME TlsAssumption ==
  {MaxTimeout, MaxAddresses} \subseteq Nat \ {0} /\ TlsEnd \in Nat

VARIABLE tls   \* the program: see TlsStart

-----------------------------------------------------------------------------
\* --no-verify and -t.
TlsOptions == [verify : BOOLEAN, timeout : 1 .. MaxTimeout]

\* opt, pc, the addresses of the host and the one that is next, open sockets, the
\* steady clock, the handshake's deadline, the end of the wait under way, whether the
\* peer's certificate is good, the exit status; and history: the reason of the end.
TlsStart(opt) ==
  [opt |-> opt, pc |-> "resolve", addresses |-> 0, next |-> 1, sockets |-> 0,
   now |-> 0, deadline |-> 0, limit |-> 0, good |-> TRUE, exit |-> -1,
   reason |-> "none"]

TlsInit == tls \in {TlsStart(opt) : opt \in TlsOptions}

At(pc) == tls.pc = pc

TlsGo(pc) == tls' = [tls EXCEPT !.pc = pc]

\* main() returns; CLOSE_SOCKET where a socket is open.
TlsExit(status, reason) ==
  tls' = [tls EXCEPT !.pc = "done", !.exit = status, !.reason = reason, !.sockets = 0]

\* The context is made and the CA certificates are loaded before the host is resolved.
ContextFails == At("resolve") /\ TlsExit(2, "setup")

ResolveFails == At("resolve") /\ TlsExit(1, "unresolved")

Resolve ==
  /\ At("resolve")
  /\ \E n \in 1 .. MaxAddresses : tls' = [tls EXCEPT !.pc = "address", !.addresses = n]

-----------------------------------------------------------------------------
(* connect_host and connect_socket.                                        *)

NoAddressLeft == At("address") /\ tls.next > tls.addresses /\ TlsExit(1, "unreachable")

\* socket() fails: the next address.
NoSocket ==
  /\ At("address") /\ tls.next <= tls.addresses
  /\ tls' = [tls EXCEPT !.next = @ + 1]

\* Mutant: select() is given no timeout.
StartConnectUntimed ==
  /\ At("address") /\ tls.next <= tls.addresses
  /\ tls' = [tls EXCEPT !.pc = "connecting", !.next = @ + 1, !.sockets = @ + 1,
                        !.limit = TlsEnd + 1]

\* The connection is begun; select() is given the whole timeout.
StartConnect ==
  /\ At("address") /\ tls.next <= tls.addresses
  /\ tls' = [tls EXCEPT !.pc = "connecting", !.next = @ + 1, !.sockets = @ + 1,
                        !.limit = tls.now + tls.opt.timeout]

\* Mutant: the socket of an address that is given up stays open.
GiveUpOpen ==
  tls' = [tls EXCEPT !.pc = "address"]

\* The address is given up.
GiveUp ==
  tls' = [tls EXCEPT !.pc = "address", !.sockets = @ - 1]

\* Refused, at once or when select() reports it, or a call on the socket fails.
Refused == At("connecting") /\ GiveUp

ConnectTimesOut == At("connecting") /\ tls.now >= tls.limit /\ GiveUp

\* select() returns -1: EINTR is not told from other errors.
ConnectInterrupted == At("connecting") /\ GiveUp

Connected == At("connecting") /\ TlsGo("session")

-----------------------------------------------------------------------------
(* The session and tls_handshake.                                          *)

\* SSL_new, SSL_set_fd, the identity, ALPN, SNI.
SessionFails == At("session") /\ TlsExit(2, "setup")

\* The deadline is taken before the first turn.
StartHandshake ==
  /\ At("session")
  /\ \E good \in BOOLEAN :
       tls' = [tls EXCEPT !.pc = "handshake", !.good = good,
                          !.deadline = tls.now + tls.opt.timeout]

\* SSL_connect fails, because the certificate is refused or for another reason.
HandshakeFails == At("handshake") /\ TlsExit(1, "handshake")

\* capture_verify_error leaves OpenSSL's verdict on the certificate as it is, so that a
\* refused one makes the handshake fail.
Accepts(good) == good

\* It succeeds, and the certificate's verdict is looked at once more.
HandshakeSucceeds ==
  /\ At("handshake") /\ (tls.opt.verify => Accepts(tls.good))
  /\ TlsExit(IF tls.opt.verify /\ ~tls.good THEN 1 ELSE 0, "reported")

\* Mutant: each wait of the handshake is given the whole timeout.
WantsMoreAnew ==
  /\ At("handshake")
  /\ tls' = [tls EXCEPT !.pc = "waiting", !.limit = tls.now + tls.opt.timeout]

\* It wants to read or write: select() is given what is left of the timeout.
WantsMore ==
  /\ At("handshake")
  /\ IF tls.now >= tls.deadline THEN TlsExit(1, "timeout")
     ELSE tls' = [tls EXCEPT !.pc = "waiting", !.limit = tls.deadline]

\* Ready, or a signal: the next turn.
Ready == At("waiting") /\ TlsGo("handshake")

WaitTimesOut == At("waiting") /\ tls.now >= tls.limit /\ TlsExit(1, "timeout")

WaitFails == At("waiting") /\ TlsExit(1, "handshake")

\* Time passes in select(), and no further than its timeout.
TlsTick ==
  /\ tls.pc \in {"connecting", "waiting"}
  /\ tls.now < tls.limit /\ tls.now < TlsEnd
  /\ tls' = [tls EXCEPT !.now = @ + 1]

\* What the program does by itself, and what it does because of the peer or a signal.
TlsRun ==
  \/ ContextFails \/ ResolveFails \/ Resolve
  \/ NoAddressLeft \/ NoSocket \/ StartConnect \/ ConnectTimesOut
  \/ SessionFails \/ StartHandshake
  \/ HandshakeFails \/ HandshakeSucceeds \/ WantsMore \/ WaitTimesOut

TlsPeer == Refused \/ ConnectInterrupted \/ Connected \/ Ready \/ WaitFails

-----------------------------------------------------------------------------
(* Properties.                                                             *)

\* A host whose addresses do not answer, or one that answers the handshake a little at
\* a time, holds the program no longer than the timeout for each address and once more
\* for the handshake.
TimeoutHolds ==
  /\ tls.now <= (tls.next - 1) * tls.opt.timeout
                + (IF tls.deadline > 0 THEN tls.opt.timeout ELSE 0)
  /\ tls.reason = "timeout" => tls.now >= tls.deadline

\* One socket at most is open, none when the program is done.  It reports success only
\* of a finished handshake, with a certificate that was verified or not to be verified,
\* and a host as unreachable only after every one of its addresses.
VerdictSound ==
  /\ tls.sockets \in {0, 1}
  /\ tls.sockets = 1 <=> tls.pc \in {"connecting", "session", "handshake", "waiting"}
  /\ tls.exit = 0 => tls.reason = "reported" /\ (tls.opt.verify => tls.good)
  /\ tls.reason = "unreachable" => tls.next > tls.addresses
=============================================================================
