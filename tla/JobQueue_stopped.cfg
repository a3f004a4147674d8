SPECIFICATION Spec
CONSTANTS
  Worker = {w1}
  Request = {r1}
  Key = {k1, empty}
  EmptyKey = empty
  NoKey = nokey
  Faults = {"stop"}
  MaxJobs = 1
  MaxFaults = 1
INVARIANT NoAbandonedJob
CHECK_DEADLOCK FALSE
