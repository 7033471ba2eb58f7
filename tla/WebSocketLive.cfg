SPECIFICATION FairSpec
CONSTANTS
  alice = alice
  bob = bob
  doc1 = doc1
  doc2 = doc2
  NoRoom = NoRoom
  ClientId <- MCClientId
  DocumentId <- OneDocument
  RoomsCapacity = 1
  ClientCapacity = 1
  MaxFrames <- OneAndOne
  MaxInvalidations = 1
PROPERTIES
  SessionTornDown
  BroadcastSweeps
CHECK_DEADLOCK FALSE
