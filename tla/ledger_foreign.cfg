SPECIFICATION AmountsSpec
INVARIANTS TrialBalanceFoots
CHECK_DEADLOCK FALSE
