SPECIFICATION Spec
CONSTANTS
  stock = stock
  shelf = shelf
  partner = partner
  loss = loss
  Internal = {stock, shelf}
  Outside = {partner, loss}
  Loss = loss
  Putaway <- TwoShelves
  Transfers = 2
  Orders <- OneEachWay
  Stocked <- OneOnHand
  Scraps <- OneFromStock
  Counts <- OneFromStock
  Requests = {r1, r2}
  MaxMoves = 3
  MaxFails = 1
  Orderly = TRUE
SYMMETRY Symmetry
CHECK_DEADLOCK FALSE
INVARIANTS StockLedger NeverNegative ReservedIsWanted EachUnitOnce
