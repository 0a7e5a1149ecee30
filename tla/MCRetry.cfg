SPECIFICATION FairSpec
CONSTANT MaxAttempts = 3
INVARIANTS
  NoCommandOutlived
  VerdictMatchesAttempts
  TimeoutSweepsGroup
PROPERTIES
  RunEnds
