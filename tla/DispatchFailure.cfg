\* The definition of a stage cannot be read when it is dispatched.
CONSTANTS
  a = a
  b = b
  c = c
  d = d
  Stage = {a, b}
  DependentOn <- Chain
  MaxStageAttempts = 2
  Faults = {"db"}
  MaxFaults = 1
  WorkerPoolSize = 2
  HandlerPoolSize = 2
  InitBeforePolling = TRUE
  NoResponse = NoResponse
SPECIFICATION Spec
INVARIANTS ExhaustionPropagates
\* A fault may leave the run unfinished.
CHECK_DEADLOCK FALSE
