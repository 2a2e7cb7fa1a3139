\* The poller dispatches a root while dependency counts are being set.
CONSTANTS
  a = a
  b = b
  c = c
  d = d
  Stage = {a, b, c}
  DependentOn <- Join
  MaxStageAttempts = 2
  Faults = {}
  MaxFaults = 0
  WorkerPoolSize = 2
  HandlerPoolSize = 2
  InitBeforePolling = FALSE
  NoResponse = NoResponse
SPECIFICATION Spec
INVARIANTS DepsCountsRemaining
