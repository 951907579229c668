SPECIFICATION Spec
CONSTANTS
  w1 = w1
  p1 = p1
  p2 = p2
  None = None
  Winners <- OneWinner
  MilestoneWinners <- OneWinner
  Procs <- TwoProcs
  MaxPayoutAttempts = 2
  AttemptBound = 2
  CrashBound = 1
  Callers <- Workers
  Faults <- WorkerFaults
SYMMETRY WorkerSymmetry
CHECK_DEADLOCK FALSE
INVARIANTS NoSecondLiveTransfer OneOwner
PROPERTY PromiseKept
