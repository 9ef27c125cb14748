SPECIFICATION Spec
CONSTANTS
  o1 = o1
  o2 = o2
  o3 = o3
  p1 = p1
  NoOne = NoOne
  Products = {p1}
  Prices = {1, 2}
  Stocks = {1}
  Int32Max = 3
  Clients = {o1, o2, o3}
  Ops = {o1, o2, o3}
CHECK_DEADLOCK FALSE
SYMMETRY OpSymmetry
INVARIANTS
  TypeOK
  StockIsInCatalog
  DisagreementHasACause
PROPERTIES
  HalfDeletedForEver
  RevivedByAStraggler
  ImplementsLedger
