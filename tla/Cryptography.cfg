SPECIFICATION MCSpec
CONSTANTS
  Binders = {b1, b2}
  payloadA = payloadA
  payloadB = payloadB
  textA = textA
  textB = textB
  acmeExecution = acmeExecution
  betaExecution = betaExecution
  nobodys = nobodys
  betaAtLarge = betaAtLarge
  acme = acme
  beta = beta
  Payloads = {payloadA, payloadB}
  Texts = {textA, textB}
  Text <- MCText
  Scopes = {acmeExecution, betaExecution, nobodys, betaAtLarge}
  Tenantless = {nobodys}
  Companyless = {betaAtLarge}
  p9u = p9u
  Metadata = {p9u}
  Source = p9u
  Tenants = {acme, beta}
  NoTenant = NoTenant
  TenantOf <- MCTenantOf
  Facts <- MCFacts
  MaxBegun = 3
  MaxEdits = 1
  None = None
  keyA = keyA
  keyB = keyB
  persistedA = persistedA
  persistedB = persistedB
  recordA = recordA
  recordB = recordB
  fork = fork
  provider = provider
  otherProvider = otherProvider
  opA = opA
  opB = opB
  ctxA = ctxA
  ctxB = ctxB
  now = now
  later = later
  Runtimes <- MCRuntimes
  Observations <- MCObservations
  Presented <- MCPresented
  Slots = {s1, s2}
  AttestationIds = {a1}
  MaxAttestationEdits = 1
  Calls = {call}
  Resources = {keyA}
  CallRequests <- MCCallRequests
  Keys = {k1}
  Cases = {c1, c2}
  Questions <- MCQuestions
  RotationInputs <- MCRotationInputs
  Encryptions <- MCEncryptions
  MaxVersion = 3
  MaxKeyEdits = 1
SYMMETRY MCSymmetry
INVARIANTS
  CryptographyTypeOK
  BoundOnGenuine
  AdmittedAsBound
  FailureNotMasked
  CompletedCallWasPerformed
  VerifiedTellsDecision
  OnlyAsGoverned
PROPERTIES
  RevivedOnlyByStale
CHECK_DEADLOCK FALSE
