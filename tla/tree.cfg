SPECIFICATION Spec
CONSTANTS
  KeyBits = 3
  MaxNodes = 7
  Orders <- TreeOrders
  Times = {2, 3}
INVARIANTS
  TypeOK
  NodesShared
  EveryLeafFound
  ExpiriesCached
  IterationSorted
  GivesUpTheRightOne
  InsertFits
  MatchHitsItsOrders
PROPERTIES
  ImplementsOrderSet
\* an order is inserted once, and the trees then come to rest
CHECK_DEADLOCK FALSE
