SPECIFICATION Spec
CONSTANTS
  a1 = a1
  a2 = a2
  ma = ma
  mb = mb
  Attempts = {a1, a2}
  Markets = {ma, mb}
  NoMarket = NoMarket
  MarketOf <- TheMarkets
  Validity = 1
  MaxAccounts = 2
  MaxCounter = 2
INVARIANTS
  TypeOK
  IndexerExact
  OneAccountPerMarket
  OrdersInTheirMarket
PROPERTIES
  ReportIsFinal
  EveryScriptEnds
\* when every script has ended and nothing is left to close, nothing happens
CHECK_DEADLOCK FALSE
