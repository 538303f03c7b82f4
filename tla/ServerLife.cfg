SPECIFICATION FairSpec
CONSTANTS
  w1 = w1
  w2 = w2
  a1 = a1
  Wakeup = Wakeup
  Workers = {w1, w2}
  Accepters = {a1}
  maxClientCount = 4
  Skipped = 1
  MaxCompletions = 3
CHECK_DEADLOCK FALSE
INVARIANTS
  FindsUsers
  ClosedAfterThreads
PROPERTIES
  ServerEndReturns
