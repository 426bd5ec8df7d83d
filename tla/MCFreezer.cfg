SPECIFICATION FairSpec
CONSTANTS
  s1 = s1
  s2 = s2
  s3 = s3
  k1 = k1
  NoTask = NoTask
  Slots <- MCSlots
  Threads <- MCThreads
  MaxRequests = 2
INVARIANTS
  FrozenMeansStopped
  NoneLeftFrozen
  HelpersGated
PROPERTIES
  FridgeIsLeft
