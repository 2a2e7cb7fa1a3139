\* Kafka rejects the request of a stage.
CONSTANTS
  a = a
  b = b
  c = c
  d = d
  Stage = {a, b}
  DependentOn <- Chain
  MaxStageAttempts = 3
  Faults = {"publish"}
  MaxFaults = 1
  WorkerPoolSize = 2
  HandlerPoolSize = 2
  InitBeforePolling = TRUE
  NoResponse = NoResponse
SPECIFICATION Spec
INVARIANTS AttemptLimit
\* A fault may leave the run unfinished.
CHECK_DEADLOCK FALSE
