\* The id of b is that of a, a colon and more; nothing fails.
CONSTANTS
  a = a
  b = b
  Workflow = {a, b}
  NoWorkflow = NoWorkflow
  Slot = {s1}
  Client = {c1}
  Named <- ColonId
  Faults = {}
  MaxFaults = 0
  MaxCrashes = 0
  MaxStops = 0
SPECIFICATION FairSpec
PROPERTY AcceptedRunsAgain
