SPECIFICATION Spec
CONSTANTS
  w1 = w1
  p1 = p1
  p2 = p2
  None = None
  Winners <- OneWinner
  MilestoneWinners <- OneWinner
  Procs <- OneProc
  MaxPayoutAttempts = 1
  AttemptBound = 1
  CrashBound = 0
  Callers <- Disputed
  Faults <- NoFaults
CHECK_DEADLOCK FALSE
INVARIANTS RefundExcludesMilestone
