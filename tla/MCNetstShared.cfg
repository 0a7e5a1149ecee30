SPECIFICATION Spec
CONSTANTS
  MaxTimeout = 1
  MaxAddresses = 1
  TlsEnd = 8
  MaxServers = 1
  MaxTypes = 1
  MaxHops = 1
  MaxChunks = 1
  Socks = {s1, s2}
  SockTables <- MCSockTables
  MaxPid = 2
  MaxChanges = 1
  MaxAttempts = 1
  MaxEndpoints = 1
INVARIANTS
  OwnedAreShown
