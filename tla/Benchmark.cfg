SPECIFICATION FairSpec
CONSTANTS
  r1 = r1
  r2 = r2
  k1 = k1
  k2 = k2
  Run <- MCRun
  Case <- MCCase
  CasesOf <- MCCasesOf
  Checked = {k1, k2}
  Gradable = {k1}
  Judgments <- MCJudgments
  Unjudged = Unjudged
  MaxFaults = 1
INVARIANTS RolesIsolated EvidenceIsOwn SummaryIsItsRows
PROPERTIES ImplementsComparison EveryRunEnds
CHECK_DEADLOCK FALSE
