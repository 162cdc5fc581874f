SPECIFICATION FairSpec
CONSTANTS
  o1 = o1
  o2 = o2
  Order = {o1, o2}
  Price = {2, 3}
  Ladders <- OneLadder
  Statuses = {"OPEN", "SUSPENDED", "CLOSED"}
  Terms <- LapseTerms
  Size = 2
  MaxVolume = 1
  MaxVersion = 3
  MaxElapsed = 1
  MaxRequests = 1
  Delay <- Delays
  Kinds = {"CANCEL", "REPLACE"}
  Reductions = {0}
  Removals = TRUE
  BspMarket = FALSE
  Prices = {0}
  BestPriceExecution = TRUE
  MinLiability = 1
INVARIANTS
  OnePackage
  LiveWatched
  LapsedWhenSuspended
PROPERTIES
  Answered
  TradeLeaves
CHECK_DEADLOCK FALSE
