SPECIFICATION Spec
CONSTANTS
  Order = {o1, o2}
  NoOrder = NoOrder
  Amounts = {1, 2}
  Odds = {1, 2}
  Types = {"LIMIT", "MARKET_ON_CLOSE"}
  Kinds = {"CANCEL", "REPLACE"}
  MaxOrderExposure = 3
  MaxSelection = 3
  MaxTrades = 2
  MaxLive = 2
  MinBet = 2
  MinPayout = 3
  MinLiability = 2
  TornReads = TRUE
  MaxSuspensions = 1
INVARIANTS TypeOK LimitKept ReadIsCautious ExposureIsWorstCase
CHECK_DEADLOCK FALSE
