CONSTANTS
  r1 = r1
  r2 = r2
  r3 = r3
  k1 = k1
  l1 = l1
  None = None
  Request <- MCTwo
  Jobs <- MCMixed
  MaxWork = 2
  MaxActive = 1
  MaxQueuedRequests = 1
  MaxInFlight = 1
  MaxQueuedScores = 0
  Key <- MCKey
  Lease <- MCLease
  HintEntries = 1
SPECIFICATION FairSpec
PROPERTIES EveryRequestEnds CloseCompletes
