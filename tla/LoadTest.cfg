SPECIFICATION FairSpec
CONSTANTS
  s1 = s1
  s2 = s2
  Subscriber <- MCSubscriber
  Window = 2
  MaxSent = 3
INVARIANTS
  TypeOK
  LossesExplained
  GapsAreDrops
  LoadInv
PROPERTY StartedTestEnds
CHECK_DEADLOCK FALSE
