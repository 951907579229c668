SPECIFICATION FairSpec
CONSTANTS
  Panels <- MCPanels
  Weights <- MCWeights
  Sheets <- MCSheets
  ChangeBound = 2
  Projects = {s1, s2}
  Members = {m1}
  Outcomes = {"IN_PRODUCTION", "ABANDONED"}
  BatchSize = 1
  DeathBound = 1
  Admins = {a1, a2}
  OrgAdmins = {o1}
  NoOne = NoOne
  Events = {e1, e2}
  Rows = {1}
  TrustAdmins = {t1}
  Deltas = {50}
  AdjustBound = 1
  CronDeaths = 1
  Winners = {w1, w2}
  Profiles = {w1}
  Jury = {j1}
  Partners = {u1}
INVARIANTS
  ConfirmedOnce
  FinedOnce
  StandingsAreFair
PROPERTIES
  CheckinsClose
  ReleaseIsPaid
  WinnersAreCredited
CHECK_DEADLOCK FALSE
