SPECIFICATION Spec
CONSTANTS
  o1 = o1
  o2 = o2
  Order = {o1}
  Price = {2, 3}
  Ladders <- AllLadders
  Statuses = {"OPEN", "SUSPENDED"}
  Terms <- AllTerms
  Size = 2
  MaxVolume = 2
  MaxVersion = 2
  MaxElapsed = 1
  MaxRequests = 1
  Delay <- Delays
  Kinds = {"CANCEL", "UPDATE"}
  Reductions = {0, 1}
  Removals = FALSE
  BspMarket = TRUE
  Prices = {0, 2, 3}
  BestPriceExecution = FALSE
  MinLiability = 1
INVARIANTS
  TypeOK
  SizeConserved
  NeverJumpsQueue
  LiabilityBounded
