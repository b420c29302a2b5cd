SPECIFICATION Spec
CONSTANTS
  Mode = "canary"
  TradingEnabled = TRUE
  ClientIds = {o1, o2}
  NoClient = NoClient
  o1 = o1
  o2 = o2
  o3 = o3
  t1 = t1
  t2 = t2
  m1 = m1
  MarketOf <- SameMarket
  SizeOf <- OneAndTwoShares
  CanaryMaxShares = 2
  HeartbeatTimeout = 1
  TradeIds = {t1, t2}
  VenueIdLimit = 2
  MaxTime = 0
  MaxCrashes = 0
  OperatorActs = FALSE
  ChannelLimit = 3
  TransportFaults = FALSE
  ChannelFaults = FALSE
  TradeFirst = TRUE
CHECK_DEADLOCK FALSE
SYMMETRY SymmetricTrades
INVARIANTS FillsCountOnce ChannelNeverRaises
