SPECIFICATION FairSpec
CONSTANTS
  r1 = r1
  r2 = r2
  Relays = {r1, r2}
  Consumers = {1, 2}
  Invalid = {2}
  Faults = {"crash", "db", "slow", "skew", "addLost", "addApplied"}
  MaxFaults = 3
  NoOne = NoOne
INVARIANTS
  DispatchedReachesAll
  FailedDispatchIsRetried
PROPERTIES
  EventuallyDispatched
CHECK_DEADLOCK FALSE
