SPECIFICATION Spec
CONSTANTS
  ann = ann
  bob = bob
  c1 = c1
  t1 = t1
  t2 = t2
  r1 = r1
  r2 = r2
  w1 = w1
  None = None
  Users = {ann, bob}
  Conns = {c1}
  Tokens = {t1, t2}
  Owner <- OneEach
  Garbage = {None, ann, bob}
  RedisThreads = {r1, r2}
  Workers = {w1}
  MaxWaiting = 1
  MaxFaults = 1
  MaxOwed = 1
SYMMETRY Symmetry
CONSTRAINT Narrow
CHECK_DEADLOCK FALSE
INVARIANTS
  TypeOK
  TokenSpentPerThread
  WelcomedIsWho
  ToldIsTrue
  BareIsTransient
PROPERTIES
  RegisteredStays
