SPECIFICATION Spec
CONSTANTS
  p1 = p1
  p2 = p2
  h1 = h1
  MaxClientCount = 1
  PoolOvs = {p1, p2}
  HeapOvs = {h1}
  MaxAcceptQueue = 3
  MaxSendCount = 3
  MaxAlias = 2
CHECK_DEADLOCK FALSE
INVARIANTS
  OnlyPoolObjectsReturned
