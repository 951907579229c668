SPECIFICATION FairSpec
CONSTANTS
  w1 = w1
  w2 = w2
  p1 = p1
  p2 = p2
  None = None
  Winners <- TwoWinners
  MilestoneWinners <- OneWinner
  Workers <- OneProc
  Amount <- UnitAmount
  Pool <- ThreeUnits
  FaultBound = 1
CHECK_DEADLOCK FALSE
INVARIANTS ChainIsBacked LedgerIsHonest OneInstantRecorded
PROPERTIES ChainCatchesUp
