\* Graceful stops only: no fault and no crash.
CONSTANTS
  a = a
  b = b
  Workflow = {a, b}
  NoWorkflow = NoWorkflow
  Slot = {s1, s2}
  Client = {c1}
  Named <- PlainIds
  Faults = {}
  MaxFaults = 0
  MaxCrashes = 0
  MaxStops = 1
SPECIFICATION Spec
INVARIANT StopsWithIdlePool
