SPECIFICATION Spec
CONSTANTS
  f = f
  p = p
  g = g
  Dataset <- FunctionalOnly
  TypeOf <- TypesFunctional
  SplitOf <- SplitsFunctional
  Shared = {}
  Evaluator = {e1}
  Author = {a1}
  Scores <- PassOrFail
  MaxRuns = 1
  MaxCases = 2
  MaxFaults = 0
  Candidate = {c1}
PROPERTY LockedCasesFrozen
CHECK_DEADLOCK FALSE
