SPECIFICATION Spec
CONSTANTS
  Portfolios <- MCPortfolios
  CashMax = 3
  Managed = {0, 1}
  MaxLogs = 2
CHECK_DEADLOCK FALSE
INVARIANTS
  ReadyWordsCurrent
