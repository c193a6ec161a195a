SPECIFICATION DocumentsSpec
CONSTANTS
  t1 = t1
  t2 = t2
  e1 = e1
  e2 = e2
  Nobody = Nobody
  Bill = {b1, b2}
  Claim = {c1}
  Early = {b2}
  Clerk = {w1, w2}
  OneDesk = TRUE
  LineTotal = {0, 2}
  Withheld = {0, 1}
  Amount = {1, 2}
  NoDoc = NoDoc
  Txn = {t1, t2}
  Line = {l1}
  TxnAmount <- BankAmounts
  LineAmount <- LedgerAmounts
  Reviewer = {w1}
  Robot = {r1}
  Gap = {0, 1}
  Entry = {e1, e2}
  Date <- Dates
  Task <- OneTask
  User = {u1, u2}
  Desk = {w1, w2}
  Hours = {1}
  Key = {k1, k2}
  Guarded = {k2}
  MaxSent = 3
  Faults = {}
INVARIANTS DocumentsTypeOK PaidOutOnce ObligationIsTheBill MatchedIsExplained DoneOnce
PROPERTIES BatchesEnd
CHECK_DEADLOCK FALSE
