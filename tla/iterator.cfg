SPECIFICATION Spec
CONSTANTS
  Users = {u1, u2}
  BaseLotSize = 100
  QuoteLotSize = 100
  MakerFee = 5000
  TakerFee = 10000
  FeesScaleFactor = 1000000
  MaxI64 = 5000
  MaxOpenOrders = 3
  MaxNodes = 6
  NoOracle = NoOracle
  NoPeg = NoPeg
  MaxNumEvents = 2
  NoEvent = NoEvent
  DropExpiredOrderLimit = 5
  Orders <- SkipOrders
  TakeOrders <- Nobody
  RemainingSets <- Alone
  Referrers = {FALSE}
  Deposits <- Nobody
  Batches <- Nobody
  CancelLimits = {}
  EditSizes = {}
  Oracles <- OracleValues
  Wallets <- Rich
  PassedFor <- Own
  MaxOrders = 3
  MaxTime = 1
  MarginDivisor = 100
  PenaltyDelay = 60
  MayExpire = FALSE
  MayClose = FALSE
INVARIANTS
  NoneSkipped
\* no orders are given out after MaxOrders, and the market then comes to rest
CHECK_DEADLOCK FALSE
