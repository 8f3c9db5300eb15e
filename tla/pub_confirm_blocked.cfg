SPECIFICATION Spec
CONSTANTS
  Handlers = {"h1"}
  Clients = {"c"}
  NoOne = "nobody"
  MaxTries = 2
  Faults = {"crash", "db", "timeout", "add"}
  MaxFaults = 0
  MaxRequests = 2
  MaxFires = 1
INVARIANTS
  ConfirmedCanRetry
CHECK_DEADLOCK FALSE
