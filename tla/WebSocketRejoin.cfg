SPECIFICATION Spec
CONSTANTS
  alice = alice
  bob = bob
  doc1 = doc1
  doc2 = doc2
  NoRoom = NoRoom
  ClientId <- MCClientId
  DocumentId <- TwoDocuments
  RoomsCapacity = 2
  ClientCapacity = 2
  MaxFrames <- TwoAndOne
  MaxInvalidations = 0
INVARIANTS
  RoomsAreIsolated
CHECK_DEADLOCK FALSE
