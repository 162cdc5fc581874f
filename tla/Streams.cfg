SPECIFICATION FairSpec
CONSTANTS
  a = a
  b = b
  c = c
  books = books
  special = special
  raw = raw
  Added <- OrderAdded
  Filter = {books, special, raw}
  FilterOf <- Filters
  Serves <- Subclasses
  Snaps = {books, special}
  Raw = {raw}
  MaxUpdates <- Updates
  MaxDrops = 2
  MaxQueue = 1
INVARIANTS TypeOK Delivered
PROPERTY CatchUp
