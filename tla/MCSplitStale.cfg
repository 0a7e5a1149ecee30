SPECIFICATION SplitSpec
CONSTANTS
  Jobs <- MCJobs
  MaxCalls = 3
INVARIANT Reassembles
