SPECIFICATION Spec
CONSTANTS
  k1 = k1
  k2 = k2
  Callers = {c1, c2, c3}
  Keys = {k1, k2}
  NumSegments = 2
  SegOf <- TwoSegments
  Capacity <- OneEntry
  Ops = {"getOrLoad", "set", "delete", "clear"}
  Batches = {{k1}, {k1, k2}}
  Expirations = {0}
  TTL <- NoExpiration
  Jitter = 0
  Sliding = FALSE
  LoaderOutcomes = {"found"}
  Cancelable = {}
  MaxDuration = 4
  MaxClock = 0
  NoCall = NoCall
  NoKey = NoKey
INVARIANT BarrierInv
PROPERTIES ImplementsBarrier RemovedTogether EveryCallReturns
