SPECIFICATION Spec
CONSTANTS
  Mode = "canary"
  TradingEnabled = TRUE
  ClientIds = {o1, o2, o3}
  NoClient = NoClient
  o1 = o1
  o2 = o2
  o3 = o3
  t1 = t1
  t2 = t2
  m1 = m1
  MarketOf <- SameMarket
  SizeOf <- OneShare
  CanaryMaxShares = 2
  HeartbeatTimeout = 1
  TradeIds = {}
  VenueIdLimit = 2
  MaxTime = 0
  MaxCrashes = 1
  OperatorActs = TRUE
  ChannelLimit = 1
  TransportFaults = TRUE
  ChannelFaults = FALSE
  TradeFirst = TRUE
CHECK_DEADLOCK FALSE
SYMMETRY Symmetric
INVARIANTS MemoryIsDurable VenueOrdersAccounted
PROPERTIES KillSwitchHolds DoubtStopsMarketUnlessLifted
