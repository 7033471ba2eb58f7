SPECIFICATION SystemSpec
CONSTANTS
  alice = alice
  bob = bob
  doc1 = doc1
  doc2 = doc2
  NoRoom = NoRoom
  OtherText = OtherText
  Null = Null
  Unchanged = Unchanged
  ClientId <- OneClient
  DocumentId <- TwoDocuments
  RoomsCapacity = 2
  ClientCapacity = 2
  MaxFrames <- OneFrame
  MaxInvalidations = 2
  Transactions <- Inserts
  MaxTransactions = 2
  MaxFaults = 1
INVARIANTS
  CommitOrder
  PeersHearCommits
PROPERTIES
  ImplementsNotifications
  ImplementsReader
CHECK_DEADLOCK FALSE
