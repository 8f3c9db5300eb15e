SPECIFICATION FairSpec
CONSTANTS
  w1 = w1
  w2 = w2
  Workers = {w1, w2}
  Sweepers = {s1}
  Unregistered = {}
  Clients = {c1}
  MaxAttempts = 2
  Faults = {"crash", "db", "stall", "addLost", "addApplied"}
  MaxFaults = 1
  MaxManual = 0
  NoOne = NoOne
PROPERTIES
  AttemptEnds
  JobSettles
CHECK_DEADLOCK FALSE
