SPECIFICATION MediaSpec
CONSTANTS
  r1 = r1
  r2 = r2
  Requests = {r1, r2}
  MaxVersion = 3
  MaxAttempts = 2
  None = None
SYMMETRY Symmetry
INVARIANTS
  Replaceable
CHECK_DEADLOCK FALSE
