SPECIFICATION Spec
CONSTANTS
  Goroutine = {g1, g2}
  Object = {o1, o2, o3}
  Handle = {h1, h2, h3}
  Id = {i1}
  Null = Null
  Careless = {}
  MaxArguments = 1
  MaxTotal = 7
  MaxPins = 2
  MaxLost = 1
  MaxShared = 2
INVARIANTS HandlesLive RefsLive RequestLive FreedOnce HandlersRegistered
PROPERTIES OwnershipKept
CHECK_DEADLOCK FALSE
SYMMETRY MCSymmetry
CONSTRAINT MCBound
