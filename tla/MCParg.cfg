SPECIFICATION SchedulerSpec
CONSTANTS
  MaxThreads = 3
  MaxBatches = 4
INVARIANTS
  BoundedOvershoot
PROPERTIES
  ImplementsJobRun
  Terminates
  OneLiveWorkerSuffices
