CONSTANTS
  Keys = {k1, k2, k3}
  Values = {v1, v2}
  TTLs = {0, 1, 4}
  Capacity = 2
  Sliding = TRUE
  Resolution = 2
  MaxSpare = 1
  Buckets = {b1, b2, b3, b4}
  Limits = {0, 1, 2}
  MaxClock = 3
  MaxDuration = 6
SPECIFICATION Spec
INVARIANTS TypeOK LruMatchesEntries IndexMatchesEntries NothingOverdueRemains
PROPERTIES EveryRemovalCounted ExpirationsAreReal EvictsLeastRecentlyUsed ImplementsStore
