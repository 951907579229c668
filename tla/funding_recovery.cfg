SPECIFICATION FairSpec
CONSTANTS
  d1 = d1
  d2 = d2
  p1 = p1
  p2 = p2
  None = None
  Deposits <- TwoDeposits
  Procs <- OneProc
  CrashBound = 2
  Callers <- Everything
  Faults <- CrashAndRise
CHECK_DEADLOCK FALSE
INVARIANTS AnnouncedIsFunded ChargeIsPaged
PROPERTIES NoChargeLost
