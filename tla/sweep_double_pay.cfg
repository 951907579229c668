SPECIFICATION Spec
CONSTANTS
  w1 = w1
  p1 = p1
  p2 = p2
  None = None
  Winners <- OneWinner
  MilestoneWinners <- NoWinners
  Procs <- TwoProcs
  MaxPayoutAttempts = 2
  AttemptBound = 2
  CrashBound = 0
  Callers <- Sweeping
  Faults <- NoFaults
SYMMETRY WorkerSymmetry
CHECK_DEADLOCK FALSE
INVARIANTS NoSecondLiveTransfer
