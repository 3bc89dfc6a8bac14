CONSTANTS
  t1 = t1
  t2 = t2
  t3 = t3
  k1 = k1
  k2 = k2
  l1 = l1
  l2 = l2
  l3 = l3
  None = None
  Task <- MCTask
  Key <- MCKey
  Lease <- MCLease
  HintEntries = 1
SPECIFICATION FairSpec
INVARIANTS LeasesBalanced NoLostWakeup SingleLeader
PROPERTIES RefinesPrimingBarrier EveryFollowerGetsOn
