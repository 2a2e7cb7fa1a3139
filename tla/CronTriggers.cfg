\* Ids without a colon, two requests at a time, and up to one fault (of a store
\* or of the mail server), one crash and one graceful stop in a behaviour.
CONSTANTS
  a = a
  b = b
  Workflow = {a, b}
  NoWorkflow = NoWorkflow
  Slot = {s1}
  Client = {c1,c2}
  Named <- PlainIds
  Faults = {"redis", "db", "mail"}
  MaxFaults = 1
  MaxCrashes = 1
  MaxStops = 1
SPECIFICATION FairSpec
INVARIANTS TypeOK OneDriver LossBounded HalfCreatedExplained
PROPERTIES AcceptedRunsAgain StopEnds
\* A mail that hangs may keep a shutdown, and so everything, from going on.
CHECK_DEADLOCK FALSE
