SPECIFICATION Spec
CONSTANTS
  NoValue = NoValue
  None = None
  Requests = {r1, r2}
  Cases <- MCCases
INVARIANTS
  TypeOK
  ActedWithinAuthority
  PolicyHasOrigin
PROPERTIES
  EveryRequestAnswered
CHECK_DEADLOCK FALSE
