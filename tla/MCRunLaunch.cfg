SPECIFICATION FairSpec
CONSTANTS
  Programs = {"ok", "fails"}
  MaxFd = 4
INVARIANTS
  TypeOK
  ReportIsTrue
  CleanDescriptors
  ChildReaped
PROPERTY
  ReadEnds
