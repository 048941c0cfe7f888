SPECIFICATION Spec
CONSTANTS
  Callers = {c1, c2}
  acme = acme
  beta = beta
  alice = alice
  bob = bob
  Inputs <- MCInputs
  FdcIds = {1, 2, 3, 4, 5}
  Companies = {acme, beta}
  Keys = {1, 2, 3, 4}
  Signers = {alice, bob}
  Unsigned = Unsigned
  NoFdc = NoFdc
SYMMETRY CallerSymmetry
INVARIANT HashBindsTerms
