SPECIFICATION Spec
CONSTANTS
  w1 = w1
  w2 = w2
  Workers = {w1, w2}
  Sweepers = {s1}
  Unregistered = {}
  Clients = {c1}
  MaxAttempts = 2
  Faults = {}
  MaxFaults = 0
  MaxManual = 1
  NoOne = NoOne
SYMMETRY Symmetry
INVARIANTS
  QueuedIsDelivered
CHECK_DEADLOCK FALSE
