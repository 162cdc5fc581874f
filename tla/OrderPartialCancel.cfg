SPECIFICATION Spec
CONSTANTS
  o1 = o1
  o2 = o2
  o3 = o3
  t1 = t1
  t2 = t2
  p1 = p1
  p2 = p2
  Order = {o1, o2}
  Trade = {t1, t2}
  Package = {p1, p2}
  NoOrder = NoOrder
  NoTrade = NoTrade
  Size = 2
  MaxBets = 2
  MaxBatch = 1
  MaxRequests = 2
  MaxEvents = 1
  MaxRestarts = 0
  MaxRetries = 1
  MaxLiveTrades = 1
  MultiOrderTrades = FALSE
  AsyncPlace = FALSE
  Kinds = {"CANCEL"}
  Reductions = {0, 1}
  Faults = {}
INVARIANTS
  CompleteIsDone
