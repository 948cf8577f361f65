\* The clock runs to three: a key is cached for one, a fetch takes up to one,
\* a bucket is idle after one.
\* A bucket holds one token and takes three ticks to fill, longer than it takes
\* to be forgotten: what is forgotten need not have been full.
CONSTANTS
  Requests = {r1, r2, r3}
  Clients = {c1, c2}
  Kids = {"k1", "k2"}
  Published = {"k1"}
  Visits <- MCVisits
  Settings <- MCSettings
  None = None
  KeyTTL = 1
  FetchMax = 1
  MaxFaults = 1
  Token = 3
  Burst = 3
  Refill = 1
  LimiterTTL = 1
  EvictEvery = 1
  Pause = 1
  MaxNow = 3
SPECIFICATION Spec
SYMMETRY Perms
CHECK_DEADLOCK FALSE
PROPERTIES
  WithdrawnKeyExpires
  PublishedKeyIsFound
  RateHolds
