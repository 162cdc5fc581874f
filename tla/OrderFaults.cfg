SPECIFICATION Spec
CONSTANTS
  o1 = o1
  o2 = o2
  o3 = o3
  t1 = t1
  t2 = t2
  p1 = p1
  p2 = p2
  Order = {o1, o2}
  Trade = {t1, t2}
  Package = {p1}
  NoOrder = NoOrder
  NoTrade = NoTrade
  Size = 1
  MaxBets = 2
  MaxBatch = 2
  MaxRequests = 2
  MaxEvents = 1
  MaxRestarts = 0
  MaxRetries = 1
  MaxLiveTrades = 2
  MultiOrderTrades = TRUE
  AsyncPlace = FALSE
  Kinds = {"CANCEL", "UPDATE"}
  Reductions = {0}
  Faults = {"lost_reply", "failure", "unreported", "timeout"}
INVARIANTS
  PendingHasRequest
PROPERTIES
  ImplementsLedgerSafely
