INIT Init
NEXT Next
CONSTANTS
  k1 = k1
  k2 = k2
  Callers = {c1, c2, c3}
  Keys = {k1, k2}
  NumSegments = 1
  SegOf <- OneSegment
  Capacity <- OneEntry
  Ops = {"get", "getOrSet", "getOrLoad", "set", "getAndDelete", "delete", "clear"}
  Batches = {{k1, k2}}
  Expirations = {0}
  TTL = 2
  Jitter = 0
  Sliding = TRUE
  LoaderOutcomes = {"found", "missing"}
  Cancelable = {}
  MaxDuration = 4
  MaxClock = 2
  NoCall = NoCall
  NoKey = NoKey
SYMMETRY Alike
INVARIANTS TypeOK NoStaleEntry FreshResult LoadNeverOverwrites EveryLookupCountedOnce
PROPERTY UsesStore
