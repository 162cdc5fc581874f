SPECIFICATION FairSpec
CONSTANTS
  Package = {p1, p2, p3}
  Session = {s1, s2, s3}
  NoSession = NoSession
  Worker = {w1}
  MaxWorkers = 1
  MaxRetries = 1
  MaxWork = 1
  EndRaises = TRUE
INVARIANTS TypeOK SessionExclusive OrdersLogged LogoutHolds
PROPERTY ExitCompletes
CHECK_DEADLOCK FALSE
