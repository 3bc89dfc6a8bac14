CONSTANTS
  r1 = r1
  r2 = r2
  p1 = p1
  p2 = p2
  Request <- MCRequest
  Lane <- MCLane
  Probe <- MCProbe
  MaxInFlight = 2
SPECIFICATION FairSpec
INVARIANTS ReadyMeansServing NothingLeftOpen
PROPERTIES ClientOutlivesUsers LifeEnds
