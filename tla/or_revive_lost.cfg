SPECIFICATION Spec
CONSTANTS
  r1 = r1
  r2 = r2
  Relays = {r1}
  Consumers = {1}
  Invalid = {}
  Faults = {"addLost"}
  MaxFaults = 1
  NoOne = NoOne
INVARIANTS
  RevivedIsDelivered
CHECK_DEADLOCK FALSE
