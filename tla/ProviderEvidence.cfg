SPECIFICATION MCSpec
CONSTANTS
  Interventions = {"RETRY", "STOP"}
  Contexts = {k1, k2}
  Diagnoses = {d1, d2}
  None = None
  MaxRuns = 2
  MaxRows = 2
  Alterable = TRUE
SYMMETRY FactSymmetry
INVARIANTS
  TypeOK
  CompletedWasPerformed
  AuditFaithful
  StagesAgree
CHECK_DEADLOCK FALSE
