CONSTANTS
  r1 = r1
  r2 = r2
  r3 = r3
  k1 = k1
  l1 = l1
  None = None
  Request <- MCTwo
  Jobs <- MCFanOut
  MaxWork = 2
  MaxActive = 2
  MaxQueuedRequests = 0
  MaxInFlight = 1
  MaxQueuedScores = 3
  Key <- MCKey
  Lease <- MCLease
  HintEntries = 1
SPECIFICATION Spec
SYMMETRY Symmetry
INVARIANTS NothingLeftBehind ScoredExactlyOnce
PROPERTIES UsesPrimer
