SPECIFICATION Spec
CONSTANTS
  a1 = a1
  a2 = a2
  b = b
  unnamed = unnamed
  Users = {u1, u2}
  Sources = {a1, a2, b, unnamed}
  NameOf <- Names
  AttributeSets <- ClashingAttributes
  NoUser = NoUser
  NoSource = NoSource
INVARIANTS CallbacksAreRegistered SeriesDistinct
PROPERTY EveryCallReturns
