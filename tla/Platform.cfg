SPECIFICATION MCSpec
CONSTANTS
  Ids = {i1, i2}
  Wishes <- MCWishes
  Evaluations = {e1, e2}
  Observations <- MCObservations
  MaxTime = 2
  StaleAfter = 1
  News <- MCNews
  MaxNews = 4
  MaxDuplicates = 1
  EscalationThreshold = 4
  Requests = {r1, r2}
  Budgets = {0, 1, 2}
  LedgerFails = TRUE
  Bootstraps = {b1, b2, b3}
SYMMETRY MCSymmetry
INVARIANTS
  PlatformTypeOK
  ReportsJustified
  NoNewsSuppressed
  UsageTellsAnswers
  OneRegistry
PROPERTIES
  DisabledSticks
CHECK_DEADLOCK FALSE
