SPECIFICATION FairSpec
CONSTANTS
  v1 = v1
  v2 = v2
  Version = {v1, v2}
  Jobs <- MCJobs
  MaxAttempts = 2
  MaxStops = 2
  MaxChanges = 2
INVARIANTS OwnWorkOnly NeverSubstituted LogsBeforeReport
PROPERTIES EveryAttemptReports
CHECK_DEADLOCK FALSE
