SPECIFICATION Spec
CONSTANTS
  MaxTimeout = 2
  MaxAddresses = 2
  TlsEnd = 8
  MaxServers = 2
  MaxTypes = 2
  MaxHops = 2
  MaxChunks = 2
  Socks = {s1, s2}
  SockTables <- MCSockTables
  MaxPid = 2
  MaxChanges = 2
  MaxAttempts = 3
  MaxEndpoints = 2
INVARIANTS
  TimeoutHolds
  VerdictSound
  CallbacksSafe
  HttpDelivers
  SocketsFound
  VerdictsTrue
PROPERTIES
  ProgramsEnd
  Prompt
