SPECIFICATION Spec
CONSTANTS
  k1 = k1
  k2 = k2
  Callers = {c1, c2}
  Keys = {k1}
  NumSegments = 1
  SegOf <- OneSegment
  Capacity <- OneEntry
  Ops = {"getOrLoad"}
  Batches = {}
  Expirations = {0}
  TTL = 1
  Jitter = 0
  Sliding = FALSE
  LoaderOutcomes = {"found"}
  Cancelable = {}
  MaxDuration = 4
  MaxClock = 1
  NoCall = NoCall
  NoKey = NoKey
INVARIANT NeverReturnsExpired
