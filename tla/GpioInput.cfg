SPECIFICATION FairSpec
CONSTANTS
  Keys = {k1, k2}
INVARIANTS
  LinesInOrder
  LockInOrder
PROPERTIES
  KeySettles
