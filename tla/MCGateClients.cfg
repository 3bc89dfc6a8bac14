CONSTANTS
  t1 = t1
  t2 = t2
  t3 = t3
  t4 = t4
  Task <- MCTask
  Capacity = 2
  MaxQueued = 2
SPECIFICATION FairSpec
INVARIANTS SlotAccounting WorkConserving
PROPERTIES FifoGrants RefinesSlotPool EveryWaitEnds
