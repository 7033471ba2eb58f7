SPECIFICATION RestartedSpec
CONSTANTS
  doc1 = doc1
  doc2 = doc2
  DocumentId <- MCDocumentId
  OtherText = OtherText
  Null = Null
  Unchanged = Unchanged
  Code <- MCCode
  Oid <- MCOid
  Transactions <- MidTransaction
  RoomsCapacity = 1
  MaxTransactions = 1
  MaxFaults = 0
PROPERTY RestartRecovers
CHECK_DEADLOCK FALSE
