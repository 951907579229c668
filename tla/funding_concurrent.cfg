SPECIFICATION Spec
CONSTANTS
  d1 = d1
  d2 = d2
  p1 = p1
  p2 = p2
  None = None
  Deposits <- TwoDeposits
  Procs <- TwoProcs
  CrashBound = 1
  Callers <- Everything
  Faults <- AllFaults
SYMMETRY Symmetry
CHECK_DEADLOCK FALSE
INVARIANTS PrizeVerified VaultIsBacked
PROPERTIES MoneyMoves
