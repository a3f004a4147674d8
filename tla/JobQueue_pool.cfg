SPECIFICATION Spec
CONSTANTS
  Worker = {w1, w2}
  Request = {r1, r2}
  Key = {k1}
  EmptyKey = empty
  NoKey = nokey
  Faults = {"crash", "late"}
  MaxJobs = 2
  MaxFaults = 1
SYMMETRY Symmetry
INVARIANTS OneHolderPerAttempt OutputWasRegistered OneAnswerPerKey NoWastedAttempt LostEventsAreFaults
PROPERTY ImplementsBoard
CHECK_DEADLOCK FALSE
