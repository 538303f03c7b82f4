SPECIFICATION FairSpec
CONSTANTS
  s1 = s1
  s2 = s2
  w1 = w1
  w2 = w2
  Senders = {s1, s2}
  Workers = {w1, w2}
  MaxMsgs = 3
  MaxFailed = 0
CHECK_DEADLOCK FALSE
PROPERTIES
  EveryPushedIsSent
