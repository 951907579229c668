SPECIFICATION Spec
CONSTANTS
  w1 = w1
  p1 = p1
  p2 = p2
  None = None
  Winners <- OneWinner
  MilestoneWinners <- OneWinner
  Procs <- OneProc
  MaxPayoutAttempts = 1
  AttemptBound = 2
  CrashBound = 0
  Callers <- NoOverride
  Faults <- SequentialFaults
CHECK_DEADLOCK FALSE
PROPERTIES ReportsAreFinal VaultFollowsContract
