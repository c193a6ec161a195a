SPECIFICATION DeskSpec
CONSTANTS
  i1 = i1
  i2 = i2
  p1 = p1
  p2 = p2
  Invoice = {i1, i2}
  Payment = {p1, p2}
  Gateway = {}
  Editor = {}
  Cashier = {c1, c2}
  Sweeper = {}
  Mortal = {c1, c2}
  OneDesk = TRUE
  LedgerDesk = FALSE
  LineTotal <- Two
  Amount <- OneOrTwo
  LastDay = 0
  MaxBatch = 2
  MaxNumber = 2
  Nobody = Nobody
SYMMETRY DocumentSymmetry
INVARIANTS TypeOK StatusFollowsMoney ReceiptsAddUp CorrectionsTakeTheRest
PROPERTIES SettledIsFinal
