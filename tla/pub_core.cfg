SPECIFICATION FairSpec
CONSTANTS
  Handlers = {"h1", "h2"}
  Clients = {"c"}
  NoOne = "nobody"
  MaxTries = 2
  Faults = {"crash", "db", "timeout", "add"}
  MaxFaults = 1
  MaxRequests = 1
  MaxFires = 1
INVARIANTS
  SinglePost
  PublishingIsOwned
PROPERTIES
  OnlyLateUndoCancel
  AttemptSettles
CHECK_DEADLOCK FALSE
