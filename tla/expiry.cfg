SPECIFICATION Spec
CONSTANTS
  Users = {u1, u2}
  BaseLotSize = 100
  QuoteLotSize = 100
  MakerFee = 5000
  TakerFee = 10000
  FeesScaleFactor = 1000000
  MaxI64 = 5000
  MaxOpenOrders = 3
  MaxNodes = 4
  NoOracle = NoOracle
  NoPeg = NoPeg
  MaxNumEvents = 2
  NoEvent = NoEvent
  DropExpiredOrderLimit = 1
  Orders <- ExpiryOrders
  TakeOrders <- Nobody
  RemainingSets <- AnyoneOrNoOne
  Referrers = {FALSE}
  Deposits <- Nobody
  Batches <- Nobody
  CancelLimits = {1}
  EditSizes = {2}
  Oracles = {NoOracle}
  Wallets <- Rich
  PassedFor <- Anyone
  MaxOrders = 3
  MaxTime = 3
  MarginDivisor = 2
  PenaltyDelay = 0
  MayExpire = TRUE
  MayClose = FALSE
INVARIANTS
  LeafHasSlot
  TotalsCover
PROPERTIES
  FairEviction
  FillsAreFair
  NothingLost
\* no orders are given out after MaxOrders, and the market then comes to rest
CHECK_DEADLOCK FALSE
