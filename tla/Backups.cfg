CONSTANTS
  p1 = p1
  p2 = p2
  r1 = r1
  Procs = {p1, p2}
  Readers = {r1}
  Keep = 2
  MaxNow = 3
  MaxSaves = 3
  MaxBacks = 1
  MaxFaults = 1
SPECIFICATION Spec
CHECK_DEADLOCK FALSE
SYMMETRY Identical
INVARIANTS
  PruneKeepsNewest
  BackupOutlivesWrite
  RetentionIsBounded
  GoneMeansOvertaken
