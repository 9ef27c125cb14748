SPECIFICATION Spec
CONSTANTS
  o1 = o1
  o2 = o2
  Orders = {o1, o2}
  Totals = {2, 3, 4}
  Byte = 3
  MaxRows = 4
  MaxSends = 2
PROPERTY InvoicePersisted
