SPECIFICATION Spec
CONSTANTS
  sub1 = sub1
  sub2 = sub2
  byDocument = byDocument
  row1 = row1
  row2 = row2
  SubscriptionId <- MCSubscriptionId
  QueryHint <- MCQueryHint
INVARIANTS
  IndexesAgree
  NoEmptyEntries
PROPERTY ImplementsMap
