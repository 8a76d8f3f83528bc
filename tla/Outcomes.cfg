SPECIFICATION Spec
CONSTANTS
  k1 = k1
  k2 = k2
  Callers = {c1, c2, c3}
  Keys = {k1}
  NumSegments = 1
  SegOf <- OneSegment
  Capacity <- OneEntry
  Ops = {"get", "getOrSet", "getOrLoad", "set", "delete"}
  Batches = {{k1}}
  Expirations = {0}
  TTL <- NoExpiration
  Jitter = 0
  Sliding = FALSE
  LoaderOutcomes = {"found", "missing", "error", "panic", "goexit", "noLoader"}
  Cancelable = {c1}
  MaxDuration = 4
  MaxClock = 0
  NoCall = NoCall
  NoKey = NoKey
PROPERTIES EveryCallReturns ImplementsSingleflight
INVARIANT FirstValueWins
