SPECIFICATION WarehouseSpec
CONSTANTS
  b1 = b1
  b2 = b2
  i1 = i1
  i2 = i2
  a1 = a1
  Bin = {b1, b2}
  Invoice = {i1, i2}
  Adjustment = {a1}
  Lines <- TwoOrders
  Opening <- TwoEach
  Negative = {}
  Reorder = 1
  Amount = {1}
  Clerk = {w1, w2}
  OneDesk = TRUE
  Repair = FALSE
  Nobody = Nobody
  Change <- FourChanges
  Days = 4
  Start = 3
  MaxPrice = 9
  Method = "average"
  Quantity = {1, 2, 3}
  Cost = {2, 3, 5}
  Standard = 3
  MaxMoves = 4
  Customer = {"c1", "c2"}
  NewYear = 2
  LastDay = 2
  MaxPosted = 2
  MaxEntries = 3
INVARIANTS StockTypeOK LevelIsTheLog WholeDocument KnownAndPriced StatementsTie
PROPERTIES EndsAndPastStands DocumentsAreAtomic
CHECK_DEADLOCK FALSE
