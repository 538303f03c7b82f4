SPECIFICATION Spec
CONSTANTS
  w1 = w1
  w2 = w2
  r1 = r1
  r2 = r2
  login = login
  other = other
  None = None
  Workers = {w1, w2}
  RedisThreads = {r1, r2}
  Packets = {login, other}
  Registered = {login}
  Size <- Uneven
  MAX_RECV_SIZE = 3
  bufferSize = 5
  MaxPending = 3
CHECK_DEADLOCK FALSE
INVARIANTS
  TypeOK
  EnoughBytes
PROPERTIES
  ImplementsPacketQueue
