SPECIFICATION Spec
CONSTANTS
  r1 = r1
  r2 = r2
  r3 = r3
  p1 = p1
  NoOne = NoOne
  Products = {p1}
  Prices = {1}
  Clients = {r1, r2}
  Requests = {r1, r2}
  Quantities = {1}
  MaxStock = 1
  Int32Max = 3
CHECK_DEADLOCK FALSE
SYMMETRY RequestSymmetry
INVARIANT BooksAgree
