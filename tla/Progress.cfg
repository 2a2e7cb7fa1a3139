\* The code's own MaxStageAttempts, one pool slot, and faults that the code
\* recovers from.
CONSTANTS
  a = a
  b = b
  c = c
  d = d
  Stage = {a, b, c}
  DependentOn <- Join
  MaxStageAttempts = 3
  Faults = {"publish", "duplicate"}
  MaxFaults = 1
  WorkerPoolSize = 1
  HandlerPoolSize = 1
  InitBeforePolling = TRUE
  NoResponse = NoResponse
SPECIFICATION FairSpec
INVARIANTS DepsCountsRemaining ExhaustionPropagates
PROPERTIES RunFinalizes ImplementsDag
\* RunFinalizes says more than the absence of deadlock.
CHECK_DEADLOCK FALSE
