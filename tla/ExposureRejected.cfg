SPECIFICATION Spec
CONSTANTS
  Order = {o1, o2}
  NoOrder = NoOrder
  Amounts = {2}
  Odds = {1, 2}
  Types = {"LIMIT"}
  Kinds = {"CANCEL"}
  MaxOrderExposure = 3
  MaxSelection = 3
  MaxTrades = 2
  MaxLive = 2
  MinBet = 2
  MinPayout = 3
  MinLiability = 2
  TornReads = FALSE
  MaxSuspensions = 1
INVARIANT SelectionLimit
CHECK_DEADLOCK FALSE
