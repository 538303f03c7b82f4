SPECIFICATION FairSpec
CONSTANTS
  t1 = t1
  t2 = t2
  t3 = t3
  alice = alice
  bob = bob
  k1 = k1
  k2 = k2
  None = None
  Threads = {t1, t2, t3}
  Users = {alice, bob}
  Links = {k1, k2}
  Requests <- MCRequests
  MaxLost = 1
CHECK_DEADLOCK FALSE
INVARIANTS
  TypeOK
  LinkOwned
  PermitHasLink
  Mutual
  SuccessMeansApplied
  PermitForEachLink
PROPERTIES
  SomeCallGetsOn
