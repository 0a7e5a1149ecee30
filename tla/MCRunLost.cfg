SPECIFICATION Spec
CONSTANTS
  Programs = {"ok", "fails"}
  MaxFd = 4
INVARIANT FailuresReported
