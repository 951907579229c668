SPECIFICATION FairSpec
CONSTANTS
  w1 = w1
  p1 = p1
  p2 = p2
  None = None
  Winners <- OneWinner
  MilestoneWinners <- NoWinners
  Procs <- TwoProcs
  MaxPayoutAttempts = 1
  AttemptBound = 2
  CrashBound = 1
  Callers <- Automatic
  Faults <- LossFaults
CHECK_DEADLOCK FALSE
PROPERTIES PayoutsClose VaultUnlocks
