CONSTANTS
  Callers = {c1}
  i1 = i1
  i2 = i2
  i3 = i3
  i4 = i4
  Items = {i1, i2, i3, i4}
  NumSegments = 2
  SegOf <- TwoInEach
  BatchSize = 1
  EntryBudget = 2
  Operations = {"start"}
  NoCaller = NoCaller
SPECIFICATION Spec
PROPERTY NoPermanentFirstMover
