SPECIFICATION CalmSystem
CONSTANTS
  alice = alice
  bob = bob
  doc1 = doc1
  doc2 = doc2
  NoRoom = NoRoom
  OtherText = OtherText
  Null = Null
  Unchanged = Unchanged
  ClientId <- MCClientId
  DocumentId <- OneDocument
  RoomsCapacity = 2
  ClientCapacity = 2
  MaxFrames <- TwoAndOne
  MaxInvalidations = 3
  Transactions <- Inserts
  MaxTransactions = 1
  MaxFaults = 1
INVARIANTS
  SenderOrder
  RoomsAgreeOnOrder
  LossesAreCounted
  PeersHearCommits
  CommitsReachPeers
CHECK_DEADLOCK FALSE
