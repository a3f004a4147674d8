SPECIFICATION FairSpec
CONSTANTS
  s1 = s1
  v1 = v1
  f = f
  Candidate = {v1}
  Dataset = {f}
  TypeOf <- MCTypeOf
  SplitOf <- MCSplitOf
  Shared = {}
  Evaluator = {e1}
  Author = {a1}
  Scores <- MCScores
  MaxRuns = 2
  MaxCases = 1
  MaxFaults = 1
  Skill = {s1}
  SkillOf <- MCSkillOf
  Caller = {c1, c2}
  NoOne = NoOne
  NoRelease = NoRelease
  MaxCalls = 3
  Reasons = {"none", "text"}
INVARIANTS EarnedProduction PassedMeansPassing DecisionMatchesStatus RunsEndClosed
PROPERTY EveryEvaluationEnds
CHECK_DEADLOCK FALSE
