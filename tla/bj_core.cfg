SPECIFICATION Spec
CONSTANTS
  w1 = w1
  w2 = w2
  Workers = {w1, w2}
  Sweepers = {s1}
  Unregistered = {s1}
  Clients = {c1, c2}
  MaxAttempts = 2
  Faults = {"crash", "db", "stall", "addLost"}
  MaxFaults = 1
  MaxManual = 1
  NoOne = NoOne
SYMMETRY Symmetry
INVARIANTS
  ResultOfLatestAttempt
  CancelBoundsAttempts
PROPERTIES
  LifecycleSpec
CHECK_DEADLOCK FALSE
