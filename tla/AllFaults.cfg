\* Every kind of fault, two per behaviour, on a chain of two stages.
CONSTANTS
  a = a
  b = b
  c = c
  d = d
  Stage = {a, b}
  DependentOn <- Chain
  MaxStageAttempts = 2
  Faults = {"redis", "db", "publish", "publish_timeout", "respond", "duplicate", "crash", "handler_crash"}
  MaxFaults = 2
  WorkerPoolSize = 1
  HandlerPoolSize = 1
  InitBeforePolling = FALSE
  NoResponse = NoResponse
SPECIFICATION Spec
INVARIANTS TypeOK AttemptBudget AttemptsAccounted
\* A fault may leave the run unfinished.
CHECK_DEADLOCK FALSE
