SPECIFICATION MCSpec
CONSTANTS
  Calls = {c1, c2}
  sign = sign
  wrap = wrap
  Contexts = {sign, wrap}
  Integrations <- MCIntegrations
  None = None
  OtherCode = OtherCode
SYMMETRY CallSymmetry
INVARIANTS
  IncompleteNeverRetried
  ResponseFits
  SilenceExplained
CHECK_DEADLOCK FALSE
