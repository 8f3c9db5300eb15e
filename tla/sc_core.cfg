SPECIFICATION FairSpec
CONSTANTS
  Schedules = {"a", "b"}
  Orphans = {"b"}
  Ticks = {1, 2}
  Clients = {1}
  Crons = {"minutely", "other"}
  Occurs <- MCOccurs
  BatchSize = 2
  MaxTime = 3
  MaxSkew = 1
  MaxEdits = 1
  MaxFaults = 1
INVARIANTS
  NextAfterLast
  OneJobPerOccurrence
  ErrorCostsOne
PROPERTIES
  DueIsClaimed
CHECK_DEADLOCK FALSE
