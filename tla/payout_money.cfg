SPECIFICATION BooksSpec
CONSTANTS
  w1 = w1
  p1 = p1
  p2 = p2
  None = None
  Winners <- OneWinner
  MilestoneWinners <- OneWinner
  Procs <- TwoProcs
  MaxPayoutAttempts = 1
  AttemptBound = 1
  CrashBound = 1
  Callers <- Unassisted
  Faults <- Losses
SYMMETRY WorkerSymmetry
CHECK_DEADLOCK FALSE
INVARIANTS PaidIsReal VaultFailsClosed
PROPERTIES MoneyMoves
