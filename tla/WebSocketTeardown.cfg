SPECIFICATION Spec
CONSTANTS
  alice = alice
  bob = bob
  doc1 = doc1
  doc2 = doc2
  NoRoom = NoRoom
  ClientId <- MCClientId
  DocumentId <- TwoDocuments
  RoomsCapacity = 2
  ClientCapacity = 1
  MaxFrames <- TwoAndOne
  MaxInvalidations = 0
INVARIANTS
  TypeOK
  MembershipInv
  JoinedIsMember
  CleanDisconnectLeavesRoom
  NoEmptyRooms
  OnlyMembersHear
PROPERTIES
  ImplementsMembership
CHECK_DEADLOCK FALSE
