CONSTANTS
  Callers = {c1, c2}
  i1 = i1
  i2 = i2
  i3 = i3
  i4 = i4
  Items = {i1, i2, i3, i4}
  NumSegments = 3
  SegOf <- TwoInTheFirst
  BatchSize = 1
  EntryBudget = 2
  Operations = {"start", "stop", "deleteExpired"}
  NoCaller = NoCaller
SPECIFICATION Spec
INVARIANTS TypeOK OneWorker StopsHaveAReceiver
PROPERTIES DrainsWhatWasDue SleepsOnlyWhenDrained EveryCallEnds NoSegmentStarves
