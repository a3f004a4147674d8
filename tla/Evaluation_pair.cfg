SPECIFICATION Spec
CONSTANTS
  f = f
  p = p
  g = g
  Dataset = {f, p, g}
  TypeOf <- Types
  SplitOf <- Splits
  Shared = {}
  Evaluator = {e1, e2}
  Author = {a1}
  Scores <- PassOrFail
  MaxRuns = 3
  MaxCases = 1
  MaxFaults = 1
  Candidate = {c1}
SYMMETRY Symmetry
INVARIANTS RunsOnLockedData PassedHadEvidence OwnFailureCounts
CHECK_DEADLOCK FALSE
