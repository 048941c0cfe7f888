SPECIFICATION MCSpec
CONSTANTS
  Levels = {"VISION", "JUNIOR", "SENIOR"}
  Workflows <- MCWorkflows
  Evidence <- MCEvidence
  Overrides = {"NONE"}
  Cycles = {c1, c2}
  MaxEntries = 10
  MaxCycles = 6
  Recorders = {w1, w2}
  Decided <- MCDecided
  Operations <- MCOperations
  Regions = {"eu", "us"}
  MaxIssued = 3
  MaxRestarts = 1
  OagGraphs <- MCOagGraphs
  Asks <- MCAsks
  SaidInstants = {0}
  MaxNow = 2
SYMMETRY MCSymmetry
INVARIANTS
  GovernanceTypeOK
  ConstitutionalNotForgotten
  TrendInOrderOfIssue
  VerifiedIsOneAccount
  DataStaysGoverned
  ProofsBacked
CONSTRAINT FewKinds
CHECK_DEADLOCK FALSE
