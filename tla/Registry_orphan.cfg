SPECIFICATION Spec
CONSTANTS
  Request = {r1, r2}
  Slug = {a}
  NoSlug = noslug
  Numbers <- OperatorNumbers
  MaxFaults = 1
SYMMETRY Symmetry
INVARIANTS NextNumberFree
CHECK_DEADLOCK FALSE
