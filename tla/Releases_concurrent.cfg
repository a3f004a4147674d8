SPECIFICATION Spec
CONSTANTS
  s1 = s1
  s2 = s2
  v1 = v1
  v2 = v2
  Skill <- TwoSkills
  Version <- TwoVersions
  SkillOf <- TwoVersionsOf
  Caller = {c1, c2}
  NoOne = NoOne
  NoRelease = NoRelease
  MaxCalls = 3
INVARIANTS OneProductionRelease IndexNeverRefuses ReleasesAccountable DeadlocksNeedOneVersion
PROPERTIES PromotedOnMerit HistoryGrows ImplementsLedger
CHECK_DEADLOCK FALSE
