SPECIFICATION Spec
CONSTANTS
  Payments = {p1, p2}
  Invoices = {i1, i2}
  NoPayment = NoPayment
  Requests = {r1}
  Paid = {3}
  Totals = {2}
  Percent = 50
  MaxEntries = 3
  MaxMatches = 3
  SharedUndo = FALSE
SYMMETRY Symmetry
CHECK_DEADLOCK FALSE
INVARIANTS NeverOverpaid MoneyBooked
