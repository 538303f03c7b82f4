SPECIFICATION HBFairSpec
CONSTANTS
  IntervalSec = 5
  TtlSec = 15
  MaxDelay = 1
  MaxFails = 1
  MaxLate = 2
CHECK_DEADLOCK FALSE
INVARIANTS
  StaysListed
  StopIsBounded
PROPERTIES
  GoneForGood
