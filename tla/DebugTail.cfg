CONSTANTS
  HasToken = TRUE
  MaxFaults = 2
  MaxWire = 2
  Capacity = 2
  MaxMessages = 5
  MaxNow = 2
SPECIFICATION Spec
CHECK_DEADLOCK FALSE
INVARIANTS
  StateIsHonest
  SnapshotIsTail
  RecordedInOrder
PROPERTIES
  Reconnects
  Stops
