CONSTANTS
  HasToken = FALSE
  MaxFaults = 2
  MaxWire = 1
  Capacity = 2
  MaxMessages = 2
  MaxNow = 1
SPECIFICATION Spec
CHECK_DEADLOCK FALSE
INVARIANT
  QuickReconnect
