SPECIFICATION FairSpec
CONSTANTS
  Worker = {w1}
  Request = {r1}
  Key = {k1, empty}
  EmptyKey = empty
  NoKey = nokey
  Faults = {"crash", "stop", "call"}
  MaxJobs = 3
  MaxFaults = 2
INVARIANTS EndedByLastAttempt LogsMatchOutcome RegisteredAtMostOnce
PROPERTY EveryJobEnds
CHECK_DEADLOCK FALSE
