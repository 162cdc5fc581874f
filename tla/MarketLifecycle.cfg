SPECIFICATION FairSpec
CONSTANTS
  m1 = m1
  m2 = m2
  Market = {m1, m2}
  MaxObjects <- Objects
  MaxQueue = 1
  MaxReopens <- One
  MaxSnaps <- One
  MaxBets <- Two
  MaxFaults = 1
  PageSize = 1
INVARIANTS
  TypeOK
  NothingLost
PROPERTIES
  FollowsExchange
  BetsCleared
CHECK_DEADLOCK FALSE
