CONSTANTS
  NProcs = 2
  Pid <- MCPid
  Vmas <- MCVmas
  Incompressible <- MCIncompressible
  SkipSize = 3
  MarkBudget = 2  SweepBatch = 1
  MarkStride = 1  SweepStride = 1
  DecayCycles = 3
  Requests = {0}
  IntervalMin = 1  IntervalMax = 4  AdaptiveMax = 3  Backoff = 2
  MaxCalls = 2
  Env = {"procs", "access", "stop"}
SPECIFICATION FairSpec
CHECK_DEADLOCK FALSE
INVARIANT TypeOK
PROPERTIES PassComplete ColdSwept StopEnds
