SPECIFICATION FairSpec
CONSTANTS
  s1 = s1
  s2 = s2
  s3 = s3
  shared = shared
  suffixed = suffixed
  Server <- MCServer
  Slot = {shared, suffixed}
  SlotName <- MCSlotName
  MaxFaults = 2
INVARIANTS
  SetupInv
  SlotComesLast
  ReadyMeansComplete
PROPERTIES
  NothingOlderEndsSetup
  SetupSucceeds
CHECK_DEADLOCK FALSE
