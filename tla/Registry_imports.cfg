SPECIFICATION Spec
CONSTANTS
  Request = {r1, r2, r3}
  Slug = {a, b}
  NoSlug = noslug
  Numbers <- OperatorNumbers
  MaxFaults = 2
SYMMETRY Symmetry
INVARIANTS DerivedIsNewer CompleteWhenDone OnlyFaultsTakeNumbers
PROPERTY ImplementsFamily
CHECK_DEADLOCK FALSE
