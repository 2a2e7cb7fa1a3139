\* A parent with two children under every fault but a database error and an
\* ambiguous publish: where every stage has one parent, the run's counters
\* agree with its statuses.
CONSTANTS
  a = a
  b = b
  c = c
  d = d
  Stage = {a, b, c}
  DependentOn <- Fork
  MaxStageAttempts = 2
  Faults = {"redis", "publish", "respond", "duplicate", "crash", "handler_crash"}
  MaxFaults = 2
  WorkerPoolSize = 2
  HandlerPoolSize = 2
  InitBeforePolling = FALSE
  NoResponse = NoResponse
SPECIFICATION Spec
INVARIANTS CountedOnce FinalizedAllTerminal OneOutcomePerStage
SYMMETRY SwapLeaves
\* A fault may leave the run unfinished.
CHECK_DEADLOCK FALSE
