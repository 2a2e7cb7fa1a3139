\* A stage with two parents under every fault but an ambiguous publish, two
\* faults per behaviour.
CONSTANTS
  a = a
  b = b
  c = c
  d = d
  Stage = {a, b, c}
  DependentOn <- Join
  MaxStageAttempts = 2
  Faults = {"redis", "db", "publish", "respond", "duplicate", "crash", "handler_crash"}
  MaxFaults = 2
  WorkerPoolSize = 2
  HandlerPoolSize = 2
  InitBeforePolling = FALSE
  NoResponse = NoResponse
SPECIFICATION Spec
INVARIANTS OneAttemptAtATime StartsAfterParents SkipJustified KeysTellFate
PROPERTIES TerminalStable
SYMMETRY SwapRoots
\* A fault may leave the run unfinished.
CHECK_DEADLOCK FALSE
