SPECIFICATION Spec
CONSTANTS
  f = f
  p = p
  g = g
  Dataset <- FunctionalOnly
  TypeOf <- TypesFunctional
  SplitOf <- SplitsFunctional
  Shared = {}
  Evaluator = {e1, e2}
  Author = {a1}
  Scores <- PassOrFail
  MaxRuns = 2
  MaxCases = 1
  MaxFaults = 0
  Candidate = {c1}
INVARIANT PassedMeansPassing
CHECK_DEADLOCK FALSE
