SPECIFICATION Spec
CONSTANTS
  Binders = {b1}
  payloadA = payloadA
  payloadB = payloadB
  textA = textA
  textB = textB
  acmeExecution = acmeExecution
  betaExecution = betaExecution
  nobodys = nobodys
  betaAtLarge = betaAtLarge
  acme = acme
  beta = beta
  Payloads = {payloadA, payloadB}
  Texts = {textA, textB}
  Text <- MCText
  Scopes = {acmeExecution, betaExecution, nobodys, betaAtLarge}
  Tenantless = {nobodys}
  Companyless = {betaAtLarge}
  p9u = p9u
  Metadata = {p9u}
  Source = p9u
  Tenants = {acme, beta}
  NoTenant = NoTenant
  TenantOf <- MCTenantOf
  Facts <- MCFacts
  MaxBegun = 3
  MaxEdits = 0
SYMMETRY BinderSymmetry
INVARIANT ContinuationBinds
