SPECIFICATION FairSpec
CONSTANTS
  r1 = r1
  r2 = r2
  o1 = o1
  o2 = o2
  p1 = p1
  NoOne = NoOne
  Products = {p1}
  Prices = {1, 2}
  Clients = {r1, o1}
  Requests = {r1}
  Ops = {o1}
  Quantities = {1}
  MaxStock = 1
  Stocks = {0, 1}
  Int32Max = 3
CHECK_DEADLOCK FALSE
INVARIANTS
  DriftHasACause
  NoNegativeStock
  FlagTracksStock
  LocksAreOwned
PROPERTIES
  EveryRequestEnds
  EveryHandlerEnds
  CircularWaitEnds
  LocksComeFree
