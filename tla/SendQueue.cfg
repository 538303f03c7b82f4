SPECIFICATION FairSpec
CONSTANTS
  s1 = s1
  s2 = s2
  w1 = w1
  w2 = w2
  Senders = {s1, s2}
  Workers = {w1, w2}
  MaxMsgs = 5
  MaxFailed = 2
CHECK_DEADLOCK FALSE
INVARIANTS
  TypeOK
  EachOnce
  CounterExact
  LoneMessageNeverStuck
PROPERTIES
  StuckForGood
  SentFailedOrStuck
