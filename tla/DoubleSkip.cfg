\* Two parents of one stage fail for good while a fourth stage runs.
CONSTANTS
  a = a
  b = b
  c = c
  d = d
  Stage = {a, b, c, d}
  DependentOn <- JoinPlus
  MaxStageAttempts = 2
  Faults = {}
  MaxFaults = 0
  WorkerPoolSize = 2
  HandlerPoolSize = 2
  InitBeforePolling = TRUE
  NoResponse = NoResponse
SPECIFICATION Spec
INVARIANTS FinalizedAllTerminal
