SPECIFICATION MCSpec
CONSTANTS
  Callers = {c1, c2}
  payloadA = payloadA
  payloadB = payloadB
  textA = textA
  textB = textB
  acme = acme
  beta = beta
  Payloads = {payloadA, payloadB}
  Texts = {textA, textB}
  Text <- MCText
  Scopes = {acme, beta}
  Metadata = {strategic}
  MaxIssued = 3
  MaxEdits = 2
  MaxAltered = 3
SYMMETRY MCSymmetry
INVARIANTS
  TamperEvident
  HonestLogVerifies
