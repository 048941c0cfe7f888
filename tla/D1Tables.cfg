SPECIFICATION MCSpec
CONSTANTS
  Callers = {c1, c2}
  acme = acme
  beta = beta
  alice = alice
  bob = bob
  Inputs <- MCInputs
  FdcIds = {1, 2, 3, 4, 5}
  Companies = {acme, beta}
  Keys = {1, 2, 3, 4}
  Signers = {alice, bob}
  Unsigned = Unsigned
  NoFdc = NoFdc
  BudgetRequests = {r1, r2}
  Basic = {trial}
  Paying = {senior}
  MaxCost = 2
  Cap = 2
  Contributions = {1}
  Months = 2
  Mortal = TRUE
  MaxWrites = 4
SYMMETRY MCSymmetry
INVARIANTS
  LinkIntegrity
  ForkExplained
  OverdraftBounded
  TrailCovers
PROPERTIES
  RefinesRegister
