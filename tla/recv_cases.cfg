SPECIFICATION CaseSpec
CONSTANTS
  i1 = i1
  i2 = i2
  p1 = p1
  p2 = p2
  p3 = p3
  w1 = w1
  w2 = w2
  w3 = w3
  Invoice = {i1, i2}
  Payment = {p1, p2, p3}
  Gateway = {p3}
  Editor = {w2, w3}
  Cashier = {w1, w2}
  Sweeper = {w3}
  Mortal = {w1, w2}
  OneDesk = TRUE
  LedgerDesk = TRUE
  LineTotal = {1, 2}
  Amount = {1, 2}
  LastDay = 1
  MaxBatch = 2
  MaxNumber = 2
  f1 = f1
  File = {f1}
  Users <- PageUsers
  Loses = FALSE
  MaxCalls = 2
  MaxDocs = 2
  MaxForms = 2
  Rule = {7}
  Offset = {0, 1}
  Channel = {"email"}
  Collector = {"c1"}
  MaxExpiries = 2
  Nobody = Nobody
INVARIANTS InvoicesAreAsked
PROPERTIES FlagConverges RequestsEnd
CHECK_DEADLOCK FALSE
