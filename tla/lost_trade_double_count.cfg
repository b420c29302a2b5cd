SPECIFICATION Spec
CONSTANTS
  Mode = "canary"
  TradingEnabled = TRUE
  ClientIds = {o1}
  NoClient = NoClient
  o1 = o1
  o2 = o2
  o3 = o3
  t1 = t1
  t2 = t2
  m1 = m1
  MarketOf <- SameMarket
  SizeOf <- TwoShares
  CanaryMaxShares = 2
  HeartbeatTimeout = 1
  TradeIds = {t1}
  VenueIdLimit = 1
  MaxTime = 0
  MaxCrashes = 0
  OperatorActs = TRUE
  ChannelLimit = 2
  TransportFaults = FALSE
  ChannelFaults = TRUE
  TradeFirst = TRUE
CHECK_DEADLOCK FALSE
INVARIANT MatchedNeverAhead
