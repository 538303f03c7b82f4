SPECIFICATION FairSpec
CONSTANTS
  ann = ann
  bob = bob
  cat = cat
  s1 = s1
  s2 = s2
  zero = zero
  one = one
  t1 = t1
  None = None
  Users = {ann, bob, cat}
  Servers = {s1, s2}
  Conns = {zero, one}
  FirstConn = zero
  Threads = {t1}
  At <- OneThread
  Speakers = {ann}
  Listeners = {bob, cat}
  MaxNotices = 1
  MaxMoves = 2
  MaxFaults = 1
CHECK_DEADLOCK FALSE
INVARIANTS
  TypeOK
  OnceWhereFound
PROPERTIES
  FoundAreServed
