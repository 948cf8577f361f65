CONSTANTS
  r1 = r1
  w1 = w1
  w2 = w2
  s1 = s1
  Calls = {r1, w1, s1}
  Reads = {r1}
  Self = {s1}
  Guarded = {w1, s1}
  Nobody = Nobody
SPECIFICATION Spec
CHECK_DEADLOCK FALSE
INVARIANTS
  TokenIsConserved
  NotStartedIsTrue
PROPERTIES
  KeepsPromise
  EveryCallIsAnswered
