SPECIFICATION Spec
CONSTANTS
  r1 = r1
  r2 = r2
  r3 = r3
  p1 = p1
  NoOne = NoOne
  Products = {p1}
  Prices = {1}
  Clients = {r1, r2, r3}
  Requests = {r1, r2, r3}
  Quantities = {1, 2, 4}
  MaxStock = 2
  Int32Max = 3
CHECK_DEADLOCK FALSE
SYMMETRY RequestSymmetry
INVARIANTS
  TypeOK
  PlacedIsRegistered
  AnswerMatchesBooks
  RefusalIsFinal
  NoNegativeStock
  FlagTracksStock
  NoUnitVanishes
  StockBalances
PROPERTY
  ImplementsLedger
