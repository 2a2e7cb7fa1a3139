\* Every dependency graph over three ids, cyclic or not, with every mix of
\* weights.
CONSTANTS
  a = a
  b = b
  c = c
  StageId = {a, b, c}
  SubmittedWeight <- Weights
  PriorityScale = 3
SPECIFICATION Spec
INVARIANTS TypeOK AcceptedCanRun LoopIsReal HeavierFirst ReadyCovered RecursionBounded
