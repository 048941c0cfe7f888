SPECIFICATION Spec
CONSTANTS
  NoValue = NoValue
  None = None
  Requests = {r1, r2}
  Cases <- MCCases
CHECK_DEADLOCK FALSE
INVARIANT ObservationOnly
