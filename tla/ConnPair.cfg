SPECIFICATION Spec
CONSTANTS
  p1 = p1
  p2 = p2
  h1 = h1
  MaxClientCount = 2
  PoolOvs = {p1, p2}
  HeapOvs = {h1}
  MaxAcceptQueue = 2
  MaxSendCount = 3
  MaxAlias = 2
SYMMETRY Symmetry
CONSTRAINT PairOrAlone
CHECK_DEADLOCK FALSE
INVARIANTS
  TypeOK
  SlotAccounted
  RecvsPerSocket
  OverlappedOwned
  SendAccounting
PROPERTIES
  LiveSessionKept
