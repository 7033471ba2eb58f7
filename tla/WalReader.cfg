SPECIFICATION RestartedSpec
CONSTANTS
  doc1 = doc1
  doc2 = doc2
  DocumentId <- MCDocumentId
  OtherText = OtherText
  Null = Null
  Unchanged = Unchanged
  Code <- MCCode
  Oid <- MCOid
  Transactions <- RowsAndSchema
  RoomsCapacity = 1
  MaxTransactions = 2
  MaxFaults = 2
INVARIANTS
  TypeOK
  ReaderInv
  InvalidationsAreExact
  OncePerCommit
  NoSilentLoss
  PayloadsAreDecoded
PROPERTIES
  EveryCommitReported
  ImplementsInvalidator
CHECK_DEADLOCK FALSE
