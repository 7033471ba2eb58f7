SPECIFICATION FairSpec
CONSTANTS
  s1 = s1
  s2 = s2
  Subscriber <- MCSubscriber
  Window = 2
  MaxSent = 1
PROPERTY FailedJoinEndsTest
CHECK_DEADLOCK FALSE
