SPECIFICATION Spec
CONSTANTS
  p1 = p1  p2 = p2  y1 = y1  y2 = y2  a1 = a1  a2 = a2  w1 = w1  w2 = w2
  Worker = {w1, w2}
  Nobody = Nobody
  OpsOf <- Corrections
  Period = {p1, p2}
  Scope = {y1, y2}
  ScopeOf <- TwoYears
  Account = {a1, a2}
  DebitNormal = {a1}
  Id = {1,2,3}
  DocKey = {1,2}
  ClientKey = {}
  Template <- TwoWays
INVARIANTS ReversedIffMirrored BalanceTies
PROPERTY TerminalIsFinal
CHECK_DEADLOCK FALSE
