------------------------ MODULE CryptographyProofs ------------------------
(***************************************************************************)
(* Theorems about the cryptography around the provider runtime. First the  *)
(* rows of gates all of that code is made of. Then the governance of keys: *)
(* what its decisions, evidence and audits have to do with each other      *)
(* (P9C, P9D), when a rotation completes (P9E to P9G), and when a payload  *)
(* counts as encrypted. Then what P9U binds stands on issued records, what *)
(* P9W admits is what was bound, and a provider's answer reaches the hook  *)
(* as it was. At the end all are put together.                             *)
(***************************************************************************)
EXTENDS Cryptography, SequenceTheorems, FiniteSetTheorems, WellFoundedInduction, TLAPS

(* Every set of numbers has a least one.                                   *)
LEMMA Least ==
  ASSUME NEW T \in SUBSET Nat, T # {}
  PROVE  \E x \in T : \A y \in T : x <= y
<1> DEFINE R == OpToRel(<, Nat)
<1>1. IsWellFoundedOn(R, Nat)
  BY NatLessThanWellFounded
<1>2. \A x, y \in Nat : <<y, x>> \in R <=> y < x
  BY DEF OpToRel
<1> HIDE DEF R
<1>3. PICK x \in T : \A y \in T : ~ (<<y, x>> \in R)
  BY <1>1, WFMin
<1>4. \A y \in T : x <= y
  <2> TAKE y \in T
  <2>1. x \in Nat /\ y \in Nat
    OBVIOUS
  <2>2. ~(<<y, x>> \in R)
    BY <1>3
  <2>3. ~(y < x)
    BY <1>2, <2>1, <2>2, Zenon
  <2> QED
    BY <2>1, <2>3
<1> QED
  BY <1>4

(* What a row of gates says is the reason of the first that is closed.     *)
LEMMA FirstReason ==
  ASSUME NEW gates, DOMAIN gates \subseteq Nat, NEW otherwise, ~AllOpen(gates)
  PROVE  \E n \in DOMAIN gates :
           /\ ~gates[n][1] /\ \A k \in Closed(gates) : n <= k
           /\ ReasonOr(gates, otherwise) = gates[n][2]
<1>1. PICK m \in Closed(gates) : \A k \in Closed(gates) : m <= k
  BY Least DEF AllOpen, Closed
<1> DEFINE n == CHOOSE i \in Closed(gates) : \A k \in Closed(gates) : i <= k
<1>2. n \in Closed(gates) /\ \A k \in Closed(gates) : n <= k
  BY <1>1
<1> QED
  BY <1>2 DEF ReasonOr, FirstClosed, Closed

(* A row of two gates is open when both are, and gives one of its reasons. *)
LEMMA TwoGates ==
  ASSUME NEW a \in BOOLEAN, NEW b \in BOOLEAN, NEW x, NEW y, NEW o
  PROVE  LET gates == << <<a, x>>, <<b, y>> >>
         IN  /\ AllOpen(gates) <=> a /\ b
             /\ ReasonOr(gates, o) \in {x, y, o}
<1> DEFINE gates == << <<a, x>>, <<b, y>> >>
<1>1. AllOpen(gates) <=> a /\ b
  BY DEF AllOpen, Closed
<1>2. CASE AllOpen(gates)
  BY <1>1, <1>2 DEF ReasonOr
<1>3. CASE ~AllOpen(gates)
  <2>1. DOMAIN gates = {1, 2} /\ gates[1][2] = x /\ gates[2][2] = y
    OBVIOUS
  <2>2. PICK n \in DOMAIN gates : ReasonOr(gates, o) = gates[n][2]
    BY <1>3, <2>1, FirstReason
  <2> QED
    BY <1>1, <2>1, <2>2
<1> QED
  BY <1>2, <1>3
----------------------------------------------------------------------------
(* The decision is one of the three, and an operation that is allowed is   *)
(* allowed in the status it was asked for.                                 *)
LifecycleAllows(operation, s) ==
  KEY_LIFECYCLE_POLICIES[operation] = {} \/ s \in KEY_LIFECYCLE_POLICIES[operation]

KeyQuestion ==
  [operation : KeyGovernanceOperation, authorityRole : KeyGovernanceRole,
   lifecycleStatus : KeyLifecycleStatus, approvalProvided : BOOLEAN]

(* A decision on a key operation has the fields of its type.               *)
LEMMA DecisionTyped ==
  ASSUME NEW r \in KeyQuestion
  PROVE  /\ evaluateKeyGovernanceRequest(r) \in KeyGovernanceDecision
         /\ evaluateKeyGovernanceRequest(r).operation = r.operation
         /\ evaluateKeyGovernanceRequest(r).status = "ALLOWED" =>
              LifecycleAllows(r.operation, r.lifecycleStatus)
<1> DEFINE a == authorityValidated(r)
           l == lifecycleValidated(r)
           gates == << <<a, "AUTHORITY_INVALID">>, <<l, "LIFECYCLE_INVALID">> >>
           d == evaluateKeyGovernanceRequest(r)
<1>1. a \in BOOLEAN /\ l \in BOOLEAN
  BY DEF authorityValidated, lifecycleValidated
<1>2. l = LifecycleAllows(r.operation, r.lifecycleStatus)
  BY DEF lifecycleValidated, LifecycleAllows
<1>3. d = [status |-> IF ~AllOpen(gates) THEN "DENIED"
                      ELSE IF r.approvalProvided THEN "ALLOWED" ELSE "APPROVAL_REQUIRED",
           operation |-> r.operation, authorityValidated |-> a,
           lifecycleValidated |-> AllOpen(gates),
           approvalValidated |-> AllOpen(gates) /\ r.approvalProvided,
           denialReason |-> ReasonOr(gates, None)]
  BY DEF evaluateKeyGovernanceRequest
<1> HIDE DEF a, l, d
<1>4. /\ AllOpen(gates) <=> a /\ l
      /\ ReasonOr(gates, None) \in {"AUTHORITY_INVALID", "LIFECYCLE_INVALID", None}
  BY <1>1, TwoGates
<1> HIDE DEF gates
<1>5. AllOpen(gates) \in BOOLEAN
  BY DEF AllOpen
<1>6. r.operation \in KeyGovernanceOperation /\ r.approvalProvided \in BOOLEAN
  BY DEF KeyQuestion
<1>7. d \in KeyGovernanceDecision
  BY <1>1, <1>3, <1>4, <1>5, <1>6 DEF KeyGovernanceDecision
<1>8. d.operation = r.operation
  BY <1>3
<1>9. d.status = "ALLOWED" => l
  BY <1>1, <1>3, <1>4, <1>5
<1> QED
  BY <1>2, <1>7, <1>8, <1>9 DEF d

----------------------------------------------------------------------------
(* Type correctness of the keeping of keys.                                *)

(* What is asked of a key is a question of its type.                       *)
LEMMA AskedInShape ==
  ASSUME KeyTypeOK, NEW k \in Keys, NEW q \in Questions
  PROVE  [operation |-> q.operation, authorityRole |-> q.authorityRole,
          lifecycleStatus |-> status[k], approvalProvided |-> q.approvalProvided] \in KeyQuestion
BY QuestionsAssumption DEF KeyTypeOK, KeyQuestion

(* So have the evidence and the ledger record made of a decision.          *)
LEMMA EvidenceTyped ==
  ASSUME NEW c \in Cases, NEW d \in KeyGovernanceDecision
  PROVE  /\ createKeyGovernanceEvidence(c, d, residualRiskOwner(d.operation))
              \in KeyGovernanceEvidence
         /\ createKeyGovernanceLedgerRecord(
              c, createKeyGovernanceEvidence(c, d, residualRiskOwner(d.operation)))
              \in KeyGovernanceLedgerRecord
<1> DEFINE owner == residualRiskOwner(d.operation)
           e == createKeyGovernanceEvidence(c, d, owner)
<1>1. owner \in {"AUTHORITY_OWNER", "APPROVAL_AUTHORITY"}
  BY DEF residualRiskOwner
<1> HIDE DEF owner
<1>2. e \in KeyGovernanceEvidence
  BY <1>1 DEF createKeyGovernanceEvidence, KeyGovernanceDecision, KeyGovernanceEvidence
<1> HIDE DEF e
<1>3. createKeyGovernanceLedgerRecord(c, e) \in KeyGovernanceLedgerRecord
  BY <1>2 DEF createKeyGovernanceLedgerRecord, KeyGovernanceEvidence, KeyGovernanceLedgerRecord
<1> QED
  BY <1>2, <1>3 DEF e, owner

(* The types hold when nothing has been asked.                             *)
LEMMA InitKeyTypeOK == KeyInit => KeyTypeOK
BY KeyBoundsAssumption DEF KeyInit, KeyTypeOK, KeyLifecycleStatus

(* Ask, named by what it computes.                                         *)
LEMMA Asked ==
  ASSUME KeyTypeOK, NEW c \in Cases, NEW k \in Keys, NEW q \in Questions, Ask(c, k, q)
  PROVE  \E d \in KeyGovernanceDecision :
           /\ case[c] = None
           /\ d.status = "ALLOWED" => LifecycleAllows(d.operation, status[k])
           /\ case' = [case EXCEPT ![c] = [key |-> k, version |-> version[k], decision |-> d]]
           /\ LET proof == createKeyGovernanceEvidence(c, d, residualRiskOwner(d.operation))
              IN  /\ evidence' = [evidence EXCEPT ![c] = proof]
                  /\ record' = [record EXCEPT ![c] = createKeyGovernanceLedgerRecord(c, proof)]
<1> DEFINE r == [operation |-> q.operation, authorityRole |-> q.authorityRole,
                 lifecycleStatus |-> status[k], approvalProvided |-> q.approvalProvided]
           d == evaluateKeyGovernanceRequest(r)
<1>1. r \in KeyQuestion
  BY AskedInShape
<1>2. r.operation = q.operation /\ r.lifecycleStatus = status[k]
  OBVIOUS
<1>3. /\ case[c] = None
      /\ case' = [case EXCEPT ![c] = [key |-> k, version |-> version[k], decision |-> d]]
      /\ LET proof == createKeyGovernanceEvidence(c, d, residualRiskOwner(q.operation))
         IN  /\ evidence' = [evidence EXCEPT ![c] = proof]
             /\ record' = [record EXCEPT ![c] = createKeyGovernanceLedgerRecord(c, proof)]
  BY DEF Ask
<1> HIDE DEF r
<1>4. /\ d \in KeyGovernanceDecision /\ d.operation = q.operation
      /\ d.status = "ALLOWED" => LifecycleAllows(q.operation, status[k])
  BY <1>1, <1>2, DecisionTyped
<1> HIDE DEF d
<1> QED
  BY <1>3, <1>4

(* Every step of the governance of keys keeps the types.                   *)
LEMMA NextKeyTypeOK == KeyTypeOK /\ [KeyNext]_keyVars => KeyTypeOK'
<1> SUFFICES ASSUME KeyTypeOK, [KeyNext]_keyVars
             PROVE  KeyTypeOK'
  OBVIOUS
<1> USE KeyBoundsAssumption, KeyNoneAssumption
<1>1. ASSUME NEW c \in Cases, NEW k \in Keys, NEW q \in Questions, Ask(c, k, q)
      PROVE  KeyTypeOK'
  <2>1. PICK d \in KeyGovernanceDecision :
          /\ case[c] = None
          /\ case' = [case EXCEPT ![c] = [key |-> k, version |-> version[k], decision |-> d]]
          /\ LET proof == createKeyGovernanceEvidence(c, d, residualRiskOwner(d.operation))
             IN  /\ evidence' = [evidence EXCEPT ![c] = proof]
                 /\ record' = [record EXCEPT ![c] = createKeyGovernanceLedgerRecord(c, proof)]
    BY <1>1, Asked
  <2>2. [key |-> k, version |-> version[k], decision |-> d] \in KeyCase
    BY DEF KeyTypeOK, KeyCase
  <2>3. case' \in [Cases -> KeyCase \union {None}]
    BY <2>1, <2>2 DEF KeyTypeOK
  <2>4. /\ evidence' \in [Cases -> KeyGovernanceEvidence \union {None}]
        /\ record' \in [Cases -> KeyGovernanceLedgerRecord \union {None}]
    BY <2>1, EvidenceTyped DEF KeyTypeOK
  <2>5. UNCHANGED <<status, version, audits, applied, rotation, keyEdits>>
    BY <1>1 DEF Ask
  <2>6. case'[c] # None /\ \A d2 \in Cases \ {c} : case'[d2] = case[d2]
    BY <2>1, <2>2 DEF KeyTypeOK
  <2> QED
    BY <2>3, <2>4, <2>5, <2>6 DEF KeyTypeOK
<1>2. ASSUME NEW c \in Cases, Apply(c)
      PROVE  KeyTypeOK'
  <2> DEFINE k == case[c].key
  <2>1. case[c] \in KeyCase /\ k \in Keys
    BY <1>2 DEF Apply, KeyTypeOK, KeyCase
  <2>2. StatusAfter(case[c].decision.operation, status[k]) \in KeyLifecycleStatus
    BY <2>1 DEF StatusAfter, KeyLifecycleStatus, KeyTypeOK
  <2>3. /\ version[k] < MaxVersion
        /\ status' = [status EXCEPT ![k] = StatusAfter(case[c].decision.operation, status[k])]
        /\ version' = [version EXCEPT ![k] = version[k] + 1]
        /\ applied' = applied \union {c} /\ case[c] # None
        /\ UNCHANGED <<case, evidence, record, audits, rotation, keyEdits>>
    BY <1>2 DEF Apply
  <2> HIDE DEF k
  <2>4. status' \in [Keys -> KeyLifecycleStatus]
    BY <2>1, <2>2, <2>3 DEF KeyTypeOK
  <2>5. version' \in [Keys -> 0..MaxVersion]
    BY <2>1, <2>3 DEF KeyTypeOK
  <2> QED
    BY <2>3, <2>4, <2>5 DEF KeyTypeOK
<1>3. ASSUME NEW c \in Cases, AlterRecord(c)
      PROVE  KeyTypeOK'
  <2>1. record[c] \in KeyGovernanceLedgerRecord
    BY <1>3 DEF AlterRecord, KeyTypeOK
  <2>2. /\ [record[c] EXCEPT !.status = "ALLOWED"] \in KeyGovernanceLedgerRecord
        /\ \A o \in {q.operation : q \in Questions} :
             [record[c] EXCEPT !.operation = o] \in KeyGovernanceLedgerRecord
        /\ \A d \in Cases : [record[c] EXCEPT !.evidenceId = d] \in KeyGovernanceLedgerRecord
    BY <2>1, QuestionsAssumption DEF KeyGovernanceLedgerRecord
  <2>3. PICK r \in KeyGovernanceLedgerRecord \union {None} : record' = [record EXCEPT ![c] = r]
    <3>1. CASE record' = [record EXCEPT ![c] = None]
      BY <3>1
    <3>2. CASE record' = [record EXCEPT ![c].status = "ALLOWED"]
      BY <2>2, <3>2
    <3>3. CASE \E o \in {q.operation : q \in Questions} :
                 record' = [record EXCEPT ![c].operation = o]
      BY <2>2, <3>3
    <3>4. CASE \E d \in Cases : record' = [record EXCEPT ![c].evidenceId = d]
      BY <2>2, <3>4
    <3> QED
      BY <1>3, <3>1, <3>2, <3>3, <3>4 DEF AlterRecord
  <2>4. record' \in [Cases -> KeyGovernanceLedgerRecord \union {None}]
    BY <2>3 DEF KeyTypeOK
  <2> QED
    BY <1>3, <2>4 DEF AlterRecord, KeyTypeOK
<1>4. ASSUME NEW c \in Cases, AlterEvidence(c)
      PROVE  KeyTypeOK'
  <2>1. evidence[c] \in KeyGovernanceEvidence
    BY <1>4 DEF AlterEvidence, KeyTypeOK
  <2>2. /\ [evidence[c] EXCEPT !.status = "ALLOWED"] \in KeyGovernanceEvidence
        /\ \A d \in Cases : [evidence[c] EXCEPT !.evidenceId = d] \in KeyGovernanceEvidence
    BY <2>1 DEF KeyGovernanceEvidence
  <2>3. evidence' \in [Cases -> KeyGovernanceEvidence \union {None}]
    BY <1>4, <2>1, <2>2 DEF AlterEvidence, KeyTypeOK
  <2> QED
    BY <1>4, <2>3 DEF AlterEvidence, KeyTypeOK
<1>5. ASSUME NEW c \in Cases, NEW d \in Cases, Audit(c, d)
      PROVE  KeyTypeOK'
  <2>1. buildAuditResult(evidence[c], record[d]).violations = {}
    BY <1>5 DEF Audit, buildAuditResult
  <2> QED
    BY <1>5, <2>1 DEF Audit, KeyTypeOK
<1>6. ASSUME NEW k \in Keys, NEW input \in RotationInputs, Rotate(k, input)
      PROVE  KeyTypeOK'
  <2>1. /\ version[k] < MaxVersion
        /\ \/ /\ status' = [status EXCEPT ![k] = "ACTIVE"]
              /\ version' = [version EXCEPT ![k] = version[k] + 1]
           \/ UNCHANGED <<status, version>>
        /\ UNCHANGED <<case, evidence, record, audits, applied, keyEdits>>
        /\ DOMAIN rotation' = DOMAIN rotation
    BY <1>6 DEF Rotate
  <2>2. status' \in [Keys -> KeyLifecycleStatus] /\ version' \in [Keys -> 0..MaxVersion]
    BY <2>1 DEF KeyTypeOK, KeyLifecycleStatus
  <2> QED
    BY <2>1, <2>2 DEF KeyTypeOK
<1>7. CASE UNCHANGED keyVars
  BY <1>7 DEF keyVars, KeyTypeOK
<1> QED
  BY <1>1, <1>2, <1>3, <1>4, <1>5, <1>6, <1>7 DEF KeyNext

(* Keys, cases, evidence and records keep their shape.                     *)
THEOREM KeysTyped == KeySpec => []KeyTypeOK
BY InitKeyTypeOK, NextKeyTypeOK, PTL DEF KeySpec

----------------------------------------------------------------------------
(* What a case was decided on is the key's status at its version: as long  *)
(* as the version is the same, the status still allows the operation.      *)
FreshAllowed ==
  \A c \in Cases : case[c] # None =>
    LET k == case[c].key
    IN  /\ case[c].version <= version[k]
        /\ case[c].version = version[k] /\ case[c].decision.status = "ALLOWED" =>
             LifecycleAllows(case[c].decision.operation, status[k])

(* What moves a key counts.                                                *)
LEMMA MovedCounts ==
  ASSUME KeyTypeOK, [KeyNext]_keyVars, NEW k \in Keys
  PROVE  /\ version'[k] >= version[k]
         /\ version'[k] = version[k] => status'[k] = status[k]
<1> USE DEF KeyTypeOK
<1>1. ASSUME NEW c \in Cases, Apply(c)
      PROVE  /\ version'[k] >= version[k]
             /\ version'[k] = version[k] => status'[k] = status[k]
  <2>1. PICK j \in Keys : /\ version' = [version EXCEPT ![j] = version[j] + 1]
                          /\ \E s : status' = [status EXCEPT ![j] = s]
    BY <1>1 DEF Apply, KeyCase
  <2> QED
    BY <2>1, KeyBoundsAssumption
<1>2. ASSUME NEW j \in Keys, NEW input \in RotationInputs, Rotate(j, input)
      PROVE  /\ version'[k] >= version[k]
             /\ version'[k] = version[k] => status'[k] = status[k]
  <2>1. \/ /\ version' = [version EXCEPT ![j] = version[j] + 1]
           /\ \E s : status' = [status EXCEPT ![j] = s]
        \/ UNCHANGED <<status, version>>
    BY <1>2 DEF Rotate
  <2> QED
    BY <2>1, KeyBoundsAssumption
<1>3. CASE UNCHANGED <<status, version>>
  BY <1>3, KeyBoundsAssumption
<1> QED
  BY <1>1, <1>2, <1>3 DEF KeyNext, keyVars, Ask, AlterRecord, AlterEvidence, Audit

(* What is decided stays decided.                                          *)
LEMMA CaseKept ==
  ASSUME KeyTypeOK, [KeyNext]_keyVars, NEW c \in Cases, case[c] # None
  PROVE  case'[c] = case[c]
<1>1. ASSUME NEW d \in Cases, NEW k \in Keys, NEW q \in Questions, Ask(d, k, q)
      PROVE  case'[c] = case[c]
  BY <1>1 DEF Ask, KeyTypeOK
<1> QED
  BY <1>1 DEF KeyNext, keyVars, Apply, AlterRecord, AlterEvidence, Audit, Rotate

(* A decision on the present version of a key stands on its lifecycle.     *)
LEMMA NextFreshAllowed ==
  KeyTypeOK /\ FreshAllowed /\ [KeyNext]_keyVars => FreshAllowed'
<1> SUFFICES ASSUME KeyTypeOK, FreshAllowed, [KeyNext]_keyVars, NEW c \in Cases,
                    case'[c] # None
             PROVE  LET k == case'[c].key
                    IN  /\ case'[c].version <= version'[k]
                        /\ case'[c].version = version'[k]
                             /\ case'[c].decision.status = "ALLOWED" =>
                             LifecycleAllows(case'[c].decision.operation, status'[k])
  BY DEF FreshAllowed, LifecycleAllows
<1> DEFINE k == case'[c].key
<1>1. CASE case[c] # None
  <2>1. case'[c] = case[c] /\ case[c] \in KeyCase
    BY <1>1, CaseKept DEF KeyTypeOK
  <2>2. k \in Keys /\ case'[c].version \in 0..MaxVersion
    BY <2>1 DEF KeyCase
  <2>3. /\ case'[c].version <= version[k]
        /\ case'[c].version = version[k] /\ case'[c].decision.status = "ALLOWED" =>
             LifecycleAllows(case'[c].decision.operation, status[k])
    BY <1>1, <2>1 DEF FreshAllowed
  <2>4. /\ version'[k] >= version[k] /\ version[k] \in Int /\ version'[k] \in Int
        /\ version'[k] = version[k] => status'[k] = status[k]
    BY <2>2, MovedCounts, NextKeyTypeOK, KeyBoundsAssumption DEF KeyTypeOK
  <2> HIDE DEF k
  <2>5. case'[c].version \in Int
    BY <2>2, KeyBoundsAssumption
  <2>6. case'[c].version <= version'[k]
    BY <2>3, <2>4, <2>5
  <2>7. ASSUME case'[c].version = version'[k], case'[c].decision.status = "ALLOWED"
        PROVE  LifecycleAllows(case'[c].decision.operation, status'[k])
    <3>1. version'[k] = version[k]
      BY <2>3, <2>4, <2>5, <2>7
    <3> QED
      BY <2>3, <2>4, <2>7, <3>1
  <2> QED
    BY <2>6, <2>7 DEF k
<1>2. CASE case[c] = None
  <2>1. PICK j \in Keys, q \in Questions : Ask(c, j, q)
    <3>1. PICK d \in Cases, j \in Keys, q \in Questions : Ask(d, j, q)
      BY <1>2 DEF KeyNext, keyVars, Apply, AlterRecord, AlterEvidence, Audit, Rotate
    <3>2. d = c
      BY <1>2, <3>1 DEF Ask, KeyTypeOK
    <3> QED
      BY <3>1, <3>2
  <2>2. PICK d \in KeyGovernanceDecision :
          /\ d.status = "ALLOWED" => LifecycleAllows(d.operation, status[j])
          /\ case' = [case EXCEPT ![c] = [key |-> j, version |-> version[j], decision |-> d]]
    BY <2>1, Asked
  <2>3. case'[c] = [key |-> j, version |-> version[j], decision |-> d]
    BY <2>2 DEF KeyTypeOK
  <2>4. UNCHANGED <<status, version>> /\ version[j] \in 0..MaxVersion
    BY <2>1 DEF Ask, KeyTypeOK
  <2> QED
    BY <2>2, <2>3, <2>4, KeyBoundsAssumption
<1> QED
  BY <1>1, <1>2

(* Nothing but creation is allowed of a revoked key.                       *)
LEMMA RevokedAllowsCreation ==
  ASSUME NEW o \in KeyGovernanceOperation, LifecycleAllows(o, "REVOKED")
  PROVE  o = "CREATE_KEY"
BY DEF KeyGovernanceOperation, KEY_AUTHORITY_POLICIES, LifecycleAllows, KEY_LIFECYCLE_POLICIES

(* A revoked key moves only by a decision that is older than its           *)
(* revocation.                                                             *)
LEMMA NextRevived ==
  ASSUME KeyTypeOK, FreshAllowed, [KeyNext]_keyVars, NEW k \in Keys,
         status[k] = "REVOKED", status'[k] # "REVOKED"
  PROVE  \E c \in applied' \ applied :
           /\ case[c].key = k
           /\ case[c].decision.operation = "CREATE_KEY" \/ case[c].version < version[k]
<1>1. ASSUME NEW j \in Keys, NEW input \in RotationInputs, Rotate(j, input)
      PROVE  FALSE
  BY <1>1 DEF Rotate, KeyTypeOK
<1>2. PICK c \in Cases : Apply(c)
  BY <1>1 DEF KeyNext, keyVars, Ask, AlterRecord, AlterEvidence, Audit
<1>3. case[c] \in KeyCase /\ case[c] # None /\ case[c].decision.status = "ALLOWED"
  BY <1>2 DEF Apply, KeyTypeOK
<1>4. case[c].key = k
  BY <1>2, <1>3 DEF Apply, KeyTypeOK, KeyCase
<1>5. c \in applied' \ applied
  BY <1>2 DEF Apply
<1>6. CASE case[c].version = version[k]
  <2>1. LifecycleAllows(case[c].decision.operation, "REVOKED")
    BY <1>3, <1>4, <1>6 DEF FreshAllowed
  <2> QED
    BY <1>3, <1>4, <1>5, <2>1, RevokedAllowsCreation DEF KeyCase, KeyGovernanceDecision
<1>7. CASE case[c].version # version[k]
  BY <1>3, <1>4, <1>5, <1>7, KeyBoundsAssumption DEF FreshAllowed, KeyTypeOK, KeyCase
<1> QED
  BY <1>6, <1>7

(* However requests, operations and rotations of a key interleave: a       *)
(* revoked key comes back only by a creation, or by a decision older than  *)
(* the revocation.                                                         *)
THEOREM RevocationStands == KeySpec => RevivedOnlyByStale
<1>1. KeyInit => KeyTypeOK /\ FreshAllowed
  BY InitKeyTypeOK DEF KeyInit, FreshAllowed
<1>2. KeyTypeOK /\ FreshAllowed /\ [KeyNext]_keyVars => (KeyTypeOK /\ FreshAllowed)'
  BY NextKeyTypeOK, NextFreshAllowed
<1>3. KeyTypeOK /\ FreshAllowed /\ [KeyNext]_keyVars =>
        [\A k \in Keys : status[k] = "REVOKED" /\ status'[k] # "REVOKED" =>
           \E c \in applied' \ applied :
             /\ case[c].key = k
             /\ case[c].decision.operation = "CREATE_KEY" \/ case[c].version < version[k]]_keyVars
  BY NextRevived
<1> QED
  BY <1>1, <1>2, <1>3, PTL DEF KeySpec, RevivedOnlyByStale

----------------------------------------------------------------------------
(* As long as one thing at most was altered, the evidence or the records   *)
(* are all as they were made.                                              *)

ProofOf(c)  == createKeyGovernanceEvidence(
                 c, case[c].decision, residualRiskOwner(case[c].decision.operation))
RecordOf(c) == createKeyGovernanceLedgerRecord(c, ProofOf(c))

EvidenceAsMade == \A c \in Cases : evidence[c] # None => case[c] # None /\ evidence[c] = ProofOf(c)
RecordsAsMade  == \A c \in Cases : record[c] # None => case[c] # None /\ record[c] = RecordOf(c)

OneSideAsMade ==
  /\ keyEdits = 0 => EvidenceAsMade /\ RecordsAsMade
  /\ keyEdits = 1 => EvidenceAsMade \/ RecordsAsMade

AuditsTell ==
  \A x \in audits :
    /\ x.evidenceId \in Cases /\ case[x.evidenceId] # None
    /\ \A f \in {"operation", "status", "denialReason"} :
         x.record[f] = case[x.evidenceId].decision[f]

(* Evidence changes only when it is made, or altered.                      *)
LEMMA NextEvidenceAsMade ==
  ASSUME KeyTypeOK, [KeyNext]_keyVars, EvidenceAsMade, evidence' = evidence \/ case' # case
  PROVE  EvidenceAsMade'
<1> SUFFICES ASSUME NEW c \in Cases, evidence'[c] # None
             PROVE  case'[c] # None /\ evidence'[c] = ProofOf(c)'
  BY DEF EvidenceAsMade
<1>1. CASE evidence'[c] = evidence[c]
  <2>1. case[c] # None /\ evidence[c] = ProofOf(c)
    BY <1>1 DEF EvidenceAsMade
  <2>2. case'[c] = case[c]
    BY <2>1, CaseKept
  <2> QED
    BY <1>1, <2>1, <2>2 DEF ProofOf
<1>2. CASE evidence'[c] # evidence[c]
  <2>1. PICK k \in Keys, q \in Questions : Ask(c, k, q)
    <3>1. PICK d \in Cases, k \in Keys, q \in Questions : Ask(d, k, q)
      BY <1>2 DEF KeyNext, keyVars, Apply, AlterRecord, AlterEvidence, Audit, Rotate
    <3>2. d = c
      BY <1>2, <3>1 DEF Ask, KeyTypeOK
    <3> QED
      BY <3>1, <3>2
  <2>2. PICK d \in KeyGovernanceDecision :
          /\ case' = [case EXCEPT ![c] = [key |-> k, version |-> version[k], decision |-> d]]
          /\ evidence' = [evidence EXCEPT
                            ![c] = createKeyGovernanceEvidence(c, d, residualRiskOwner(d.operation))]
    BY <2>1, Asked
  <2>3. /\ case'[c] = [key |-> k, version |-> version[k], decision |-> d]
        /\ evidence'[c] = createKeyGovernanceEvidence(c, d, residualRiskOwner(d.operation))
    BY <2>2 DEF KeyTypeOK
  <2>4. case'[c] # None
    BY <2>3, KeyNoneAssumption DEF KeyTypeOK, KeyCase
  <2> QED
    BY <2>3, <2>4 DEF ProofOf
<1> QED
  BY <1>1, <1>2

(* So do the ledger records.                                               *)
LEMMA NextRecordsAsMade ==
  ASSUME KeyTypeOK, [KeyNext]_keyVars, RecordsAsMade, record' = record \/ case' # case
  PROVE  RecordsAsMade'
<1> SUFFICES ASSUME NEW c \in Cases, record'[c] # None
             PROVE  case'[c] # None /\ record'[c] = RecordOf(c)'
  BY DEF RecordsAsMade
<1>1. CASE record'[c] = record[c]
  <2>1. case[c] # None /\ record[c] = RecordOf(c)
    BY <1>1 DEF RecordsAsMade
  <2>2. case'[c] = case[c]
    BY <2>1, CaseKept
  <2> QED
    BY <1>1, <2>1, <2>2 DEF RecordOf, ProofOf
<1>2. CASE record'[c] # record[c]
  <2>1. PICK k \in Keys, q \in Questions : Ask(c, k, q)
    <3>1. PICK d \in Cases, k \in Keys, q \in Questions : Ask(d, k, q)
      BY <1>2 DEF KeyNext, keyVars, Apply, AlterRecord, AlterEvidence, Audit, Rotate
    <3>2. d = c
      BY <1>2, <3>1 DEF Ask, KeyTypeOK
    <3> QED
      BY <3>1, <3>2
  <2>2. PICK d \in KeyGovernanceDecision :
          /\ case' = [case EXCEPT ![c] = [key |-> k, version |-> version[k], decision |-> d]]
          /\ record' = [record EXCEPT
                          ![c] = createKeyGovernanceLedgerRecord(c,
                            createKeyGovernanceEvidence(c, d, residualRiskOwner(d.operation)))]
    BY <2>1, Asked
  <2>3. /\ case'[c] = [key |-> k, version |-> version[k], decision |-> d]
        /\ record'[c] = createKeyGovernanceLedgerRecord(c,
             createKeyGovernanceEvidence(c, d, residualRiskOwner(d.operation)))
    BY <2>2 DEF KeyTypeOK
  <2>4. case'[c] # None
    BY <2>3, KeyNoneAssumption DEF KeyTypeOK, KeyCase
  <2> QED
    BY <2>3, <2>4 DEF RecordOf, ProofOf
<1> QED
  BY <1>1, <1>2

(* With one alteration at most, evidence or record is as it was made.      *)
LEMMA NextOneSideAsMade ==
  KeyTypeOK /\ OneSideAsMade /\ [KeyNext]_keyVars => OneSideAsMade'
<1> SUFFICES ASSUME KeyTypeOK, OneSideAsMade, [KeyNext]_keyVars
             PROVE  OneSideAsMade'
  OBVIOUS
<1>1. keyEdits \in Nat
  BY KeyBoundsAssumption DEF KeyTypeOK
<1>2. CASE \E c \in Cases : AlterRecord(c)
  <2>1. keyEdits' = keyEdits + 1 /\ evidence' = evidence
    BY <1>2 DEF AlterRecord
  <2> QED
    BY <1>1, <2>1, NextEvidenceAsMade DEF OneSideAsMade
<1>3. CASE \E c \in Cases : AlterEvidence(c)
  <2>1. keyEdits' = keyEdits + 1 /\ record' = record
    BY <1>3 DEF AlterEvidence
  <2> QED
    BY <1>1, <2>1, NextRecordsAsMade DEF OneSideAsMade
<1>4. CASE \E c \in Cases, k \in Keys, q \in Questions : Ask(c, k, q)
  <2>1. keyEdits' = keyEdits /\ case' # case
    <3>1. PICK c \in Cases, k \in Keys, q \in Questions : Ask(c, k, q)
      BY <1>4
    <3>2. PICK d \in KeyGovernanceDecision :
            /\ case[c] = None
            /\ case' = [case EXCEPT ![c] = [key |-> k, version |-> version[k], decision |-> d]]
      BY <3>1, Asked
    <3>3. [key |-> k, version |-> version[k], decision |-> d] # None
      BY KeyNoneAssumption DEF KeyTypeOK, KeyCase
    <3> QED
      BY <3>1, <3>2, <3>3 DEF Ask, KeyTypeOK
  <2> QED
    BY <2>1, NextEvidenceAsMade, NextRecordsAsMade DEF OneSideAsMade
<1>5. CASE UNCHANGED <<evidence, record, keyEdits>>
  BY <1>5, NextEvidenceAsMade, NextRecordsAsMade DEF OneSideAsMade
<1> QED
  BY <1>2, <1>3, <1>4, <1>5 DEF KeyNext, keyVars, Apply, Audit, Rotate

(* The one that is as made tells the decision, and the audit compares.     *)
LEMMA AuditTells ==
  ASSUME KeyTypeOK, EvidenceAsMade \/ RecordsAsMade,
         NEW c \in Cases, NEW d \in Cases, buildAuditResult(evidence[c], record[d]).verified
  PROVE  LET x == buildAuditResult(evidence[c], record[d])
         IN  /\ x.evidenceId \in Cases /\ case[x.evidenceId] # None
             /\ \A f \in {"operation", "status", "denialReason"} :
                  x.record[f] = case[x.evidenceId].decision[f]
<1> DEFINE e == evidence[c]
           r == record[d]
           x == buildAuditResult(e, r)
<1>1. auditKeyGovernanceContinuity(e, r) = {}
  BY DEF buildAuditResult
<1>2. e # None /\ r # None
  BY <1>1 DEF auditKeyGovernanceContinuity
<1>3. \A f \in AuditedFields : r[f] = e[f]
  BY <1>1, <1>2 DEF auditKeyGovernanceContinuity
<1>4. /\ r.evidenceId = e.evidenceId /\ r.operation = e.operation
      /\ r.status = e.status /\ r.denialReason = e.denialReason
  BY <1>3 DEF AuditedFields
<1>5. x.evidenceId = e.evidenceId /\ x.record = r
  BY <1>2 DEF buildAuditResult
<1>6. \E i \in Cases : /\ case[i] # None /\ e.evidenceId = i
                       /\ r.operation = case[i].decision.operation
                       /\ r.status = case[i].decision.status
                       /\ r.denialReason = case[i].decision.denialReason
  <2>1. CASE EvidenceAsMade
    <3>1. case[c] # None /\ e = ProofOf(c)
      BY <1>2, <2>1 DEF EvidenceAsMade
    <3> QED
      BY <1>4, <3>1 DEF ProofOf, createKeyGovernanceEvidence
  <2>2. CASE RecordsAsMade
    <3>1. case[d] # None /\ r = RecordOf(d)
      BY <1>2, <2>2 DEF RecordsAsMade
    <3>2. /\ r.evidenceId = d
          /\ r.operation = case[d].decision.operation
          /\ r.status = case[d].decision.status
          /\ r.denialReason = case[d].decision.denialReason
      BY <3>1 DEF RecordOf, ProofOf, createKeyGovernanceLedgerRecord, createKeyGovernanceEvidence
    <3> QED
      BY <1>4, <3>1, <3>2
  <2> QED
    BY <2>1, <2>2
<1> HIDE DEF e, r, x
<1> QED
  BY <1>5, <1>6 DEF e, r, x

(* An audit that verified has seen the decision that was taken.            *)
LEMMA NextAuditsTell ==
  ASSUME KeyTypeOK, OneSideAsMade, AuditsTell, [KeyNext]_keyVars, MaxKeyEdits <= 1
  PROVE  AuditsTell'
<1>1. \A y \in Cases : case[y] # None => case'[y] = case[y]
  BY CaseKept
<1>2. CASE audits' = audits
  BY <1>1, <1>2 DEF AuditsTell
<1>3. CASE audits' # audits
  <2>1. PICK c \in Cases, d \in Cases : Audit(c, d)
    BY <1>3 DEF KeyNext, keyVars, Ask, Apply, AlterRecord, AlterEvidence, Rotate
  <2>2. /\ buildAuditResult(evidence[c], record[d]).verified
        /\ audits' = audits \union {buildAuditResult(evidence[c], record[d])}
    BY <2>1 DEF Audit
  <2>3. keyEdits \in {0, 1}
    BY KeyBoundsAssumption DEF KeyTypeOK
  <2>4. EvidenceAsMade \/ RecordsAsMade
    BY <2>3 DEF OneSideAsMade
  <2> QED
    BY <1>1, <2>2, <2>4, AuditTells DEF AuditsTell
<1> QED
  BY <1>2, <1>3

(* An audit that finds evidence and record continuous tells what was       *)
(* decided, for any number of keys, cases and operations, while no more    *)
(* than one thing was lost or altered: the same alteration of both sides   *)
(* is beyond a comparison of the two.                                      *)
THEOREM ContinuityTells ==
  ASSUME MaxKeyEdits <= 1
  PROVE  KeySpec => []VerifiedTellsDecision
<1> DEFINE Inv == KeyTypeOK /\ OneSideAsMade /\ AuditsTell
<1>1. KeyInit => Inv
  BY InitKeyTypeOK
  DEF KeyInit, OneSideAsMade, EvidenceAsMade, RecordsAsMade, AuditsTell
<1>2. Inv /\ [KeyNext]_keyVars => Inv'
  BY NextKeyTypeOK, NextOneSideAsMade, NextAuditsTell
<1>3. Inv => VerifiedTellsDecision
  BY KeyNoneAssumption DEF AuditsTell, VerifiedTellsDecision
<1> QED
  BY <1>1, <1>2, <1>3, PTL DEF KeySpec

----------------------------------------------------------------------------

(* A row of three gates is open when they all are.                         *)
LEMMA ThreeGates ==
  ASSUME NEW a \in BOOLEAN, NEW b \in BOOLEAN, NEW c \in BOOLEAN, NEW x, NEW y, NEW z
  PROVE  AllOpen(<< <<a, x>>, <<b, y>>, <<c, z>> >>) <=> a /\ b /\ c
BY DEF AllOpen, Closed

(* A row of four gates is open when they all are.                          *)
LEMMA FourGates ==
  ASSUME NEW a \in BOOLEAN, NEW b \in BOOLEAN, NEW c \in BOOLEAN, NEW d \in BOOLEAN,
         NEW x, NEW y, NEW z, NEW w
  PROVE  AllOpen(<< <<a, x>>, <<b, y>>, <<c, z>>, <<d, w>> >>) <=> a /\ b /\ c /\ d
BY DEF AllOpen, Closed

(* A row of eight gates is open when they all are.                         *)
LEMMA EightGates ==
  ASSUME NEW a, NEW b, NEW c, NEW d, NEW e, NEW f, NEW g, NEW h,
         NEW s, NEW t, NEW u, NEW v, NEW w, NEW x, NEW y, NEW z
  PROVE  AllOpen(<< <<a, s>>, <<b, t>>, <<c, u>>, <<d, v>>, <<e, w>>, <<f, x>>, <<g, y>>,
                    <<h, z>> >>) <=> a /\ b /\ c /\ d /\ e /\ f /\ g /\ h
BY DEF AllOpen, Closed

(* P9F's governance: decided, recorded and audited.                        *)
LEMMA GovernanceFamilyAgrees ==
  ASSUME NEW in \in KeyRotationOrchestrationInput
  PROVE  LET g == GovernanceFamily(in)
         IN  /\ g.decision.decisionStatus # "ROTATION_DENIED" <=>
                  /\ in.governanceRequest.authority # "OTHER_AUTHORITY"
                  /\ in.governanceRequest.trigger # "OTHER_TRIGGER"
             /\ g.audit.auditStatus = "AUDIT_PASSED" <=> in.evidenceId # None
<1> DEFINE g == GovernanceFamily(in)
           q == in.governanceRequest
           d == evaluateKeyRotationGovernance(q)
           r == recordKeyRotationGovernanceEvidence("record",
                  generateKeyRotationGovernanceEvidence(in.evidenceId, d))
           A == q.authority \in KEY_ROTATION_GOVERNANCE_POLICY.authorizedAuthorities
           T == q.trigger \in KEY_ROTATION_GOVERNANCE_POLICY.authorizedTriggers
<1>1. /\ A <=> q.authority # "OTHER_AUTHORITY"
      /\ T <=> q.trigger # "OTHER_TRIGGER"
      /\ in.evidenceId \in {"evidence", None}
  BY DEF KeyRotationOrchestrationInput, KEY_ROTATION_GOVERNANCE_POLICY
<1>2. /\ AllOpen(GovernanceGates(q)) <=> A /\ T
      /\ ReasonOr(GovernanceGates(q), None)
           \in {"AUTHORITY_NOT_ALLOWED", "TRIGGER_NOT_ALLOWED", None}
  <2> DEFINE a == A  t == T
  <2>1. a \in BOOLEAN /\ t \in BOOLEAN
    OBVIOUS
  <2>2. GovernanceGates(q) = << <<a, "AUTHORITY_NOT_ALLOWED">>, <<t, "TRIGGER_NOT_ALLOWED">> >>
    BY DEF GovernanceGates
  <2> HIDE DEF a, t
  <2>3. /\ AllOpen(GovernanceGates(q)) <=> a /\ t
        /\ ReasonOr(GovernanceGates(q), None)
             \in {"AUTHORITY_NOT_ALLOWED", "TRIGGER_NOT_ALLOWED", None}
    BY <2>1, <2>2, TwoGates
  <2> QED
    BY <2>3 DEF a, t
<1>3. /\ d.decisionStatus \in {"ROTATION_DENIED", "ROTATION_REQUIRED", "ROTATION_ALLOWED"}
      /\ d.denialReason \in {"AUTHORITY_NOT_ALLOWED", "TRIGGER_NOT_ALLOWED", None}
      /\ d.decisionStatus # "ROTATION_DENIED" <=> A /\ T
  BY <1>2 DEF evaluateKeyRotationGovernance
<1> HIDE DEF d
<1>4. /\ r \in KeyRotationGovernanceLedgerRecord
      /\ r.evidenceId = in.evidenceId /\ r.evidenceStatus = "EVIDENCE_GENERATED"
      /\ r.decisionStatus = d.decisionStatus /\ r.marker = "ledger_record_created"
  BY <1>1, <1>3 DEF recordKeyRotationGovernanceEvidence, generateKeyRotationGovernanceEvidence,
    KeyRotationGovernanceLedgerRecord
<1>5. AllOpen(AuditFailures(r)) <=> in.evidenceId # None
  <2> DEFINE i == r.evidenceId # None
             s == r.evidenceStatus # None
             t == r.decisionStatus # None
             m == r.marker = "ledger_record_created"
  <2>1. AuditFailures(r) = << <<i, "EVIDENCE_ID_MISSING">>, <<s, "EVIDENCE_STATUS_MISSING">>,
                              <<t, "DECISION_STATUS_MISSING">>, <<m, "LEDGER_MARKER_MISSING">> >>
    BY <1>4, RotationNoneAssumption DEF AuditFailures
  <2>2. s /\ t /\ m /\ (i <=> in.evidenceId # None)
    BY <1>3, <1>4, RotationNoneAssumption
  <2>3. i \in BOOLEAN /\ s \in BOOLEAN /\ t \in BOOLEAN /\ m \in BOOLEAN
    OBVIOUS
  <2> HIDE DEF i, s, t, m
  <2>4. AllOpen(AuditFailures(r)) <=> i /\ s /\ t /\ m
    BY <2>1, <2>3, FourGates
  <2> QED
    BY <2>2, <2>4
<1>6. g.decision = d /\ g.audit = auditKeyRotationGovernanceLedger(r)
  BY DEF GovernanceFamily, d
<1>7. g.audit.auditStatus = "AUDIT_PASSED" <=> AllOpen(AuditFailures(r))
  BY <1>6 DEF auditKeyRotationGovernanceLedger
<1> HIDE DEF g, r
<1> QED
  BY <1>1, <1>3, <1>5, <1>6, <1>7 DEF g

(* P9F's mechanism, authorized: executed and verified.                     *)
LEMMA MechanismFamilyAgrees ==
  ASSUME NEW in \in KeyRotationOrchestrationInput
  PROVE  LET m == MechanismFamily(in)
             good == /\ in.mechanismRequest.mechanism # "OTHER_MECHANISM"
                     /\ in.mechanismRequest.wrappingOperation # "OTHER_OPERATION"
         IN  (m.execution.executed <=> good) /\ (m.verification.verified <=> good)
<1> DEFINE q == in.mechanismRequest
           M == q.mechanism \in KEY_ROTATION_MECHANISM_POLICY.approvedRotationMechanisms
           W == q.wrappingOperation
                  \in KEY_ROTATION_MECHANISM_POLICY.approvedKeyWrappingOperations
           e == executeKeyRotationMechanism(TRUE, q)
           v == verifyKeyRotationMechanismExecution(e)
<1>1. /\ M <=> q.mechanism # "OTHER_MECHANISM"
      /\ W <=> q.wrappingOperation # "OTHER_OPERATION"
  BY DEF KeyRotationOrchestrationInput, KEY_ROTATION_MECHANISM_POLICY
<1>2. /\ e.executed <=> M /\ W
      /\ e.mechanismApproved <=> M
      /\ e.wrappingOperationApproved <=> M /\ W
      /\ e.executed \in BOOLEAN /\ e.mechanismApproved \in BOOLEAN
      /\ e.wrappingOperationApproved \in BOOLEAN
  <2> DEFINE a == M  w == W
             gates == << <<TRUE, "ROTATION_NOT_AUTHORIZED">>, <<a, "MECHANISM_NOT_APPROVED">>,
                         <<w, "WRAPPING_OPERATION_NOT_APPROVED">> >>
  <2>1. e = [executed |-> AllOpen(gates), denialReason |-> ReasonOr(gates, None),
             mechanismApproved |-> TRUE /\ gates[2][1],
             wrappingOperationApproved |-> TRUE /\ gates[2][1] /\ gates[3][1]]
    BY DEF executeKeyRotationMechanism
  <2>2. a \in BOOLEAN /\ w \in BOOLEAN /\ AllOpen(gates) \in BOOLEAN
    BY DEF AllOpen
  <2> HIDE DEF a, w
  <2>3. AllOpen(gates) <=> TRUE /\ a /\ w
    BY <2>2, ThreeGates
  <2>4. gates[2][1] = a /\ gates[3][1] = w
    OBVIOUS
  <2> HIDE DEF gates, e
  <2> QED
    BY <2>1, <2>2, <2>3, <2>4 DEF a, w
<1> HIDE DEF e
<1>3. v.verified <=> e.executed /\ e.mechanismApproved /\ e.wrappingOperationApproved
  <2>1. v.verified = AllOpen(<< <<e.executed, "EXECUTION_NOT_COMPLETED">>,
                                <<e.mechanismApproved, "MECHANISM_NOT_APPROVED">>,
                                <<e.wrappingOperationApproved, "WRAPPING_OPERATION_NOT_APPROVED">>,
                                <<e.executed, "EXECUTION_MARKER_MISSING">> >>)
    BY DEF verifyKeyRotationMechanismExecution
  <2> QED
    BY <1>2, <2>1, FourGates
<1>4. MechanismFamily(in).execution = e /\ MechanismFamily(in).verification = v
  BY DEF MechanismFamily, e
<1> QED
  BY <1>1, <1>2, <1>3, <1>4

(* P9F's infrastructure: provisioned, accessed, used and recoverable, each *)
(* stage after the one before it.                                          *)
LEMMA InfrastructureFamilyAgrees ==
  ASSUME NEW in \in KeyRotationOrchestrationInput
  PROVE  LET i == InfrastructureFamily(in)
             fits == in.infrastructureProvisioningRequest.infrastructureClass \in
                       KEY_ROTATION_INFRASTRUCTURE_POLICY[
                         in.infrastructureProvisioningRequest.resource]
         IN  /\ i.provisioning.provisioningAuthorized <=> fits
             /\ i.access.accessGranted <=> fits /\ in.accessDecision
             /\ i.usage.usageAuthorized <=> fits /\ in.accessDecision /\ in.usageDecision
             /\ i.recovery.recoveryAuthorized <=>
                  fits /\ in.accessDecision /\ in.usageDecision /\ in.recoveryDecision
<1> DEFINE q == in.infrastructureProvisioningRequest
           fits == q.infrastructureClass \in KEY_ROTATION_INFRASTRUCTURE_POLICY[q.resource]
           approved == q.infrastructureClass \in
                         UNION {KEY_ROTATION_INFRASTRUCTURE_POLICY[r] :
                                  r \in DOMAIN KEY_ROTATION_INFRASTRUCTURE_POLICY}
           p == authorizeKeyRotationInfrastructureProvisioning(q)
           a == authorizeKeyRotationInfrastructureAccess(p, in.accessDecision)
           u == authorizeKeyRotationInfrastructureUsage(a, in.usageDecision)
           r == authorizeKeyRotationInfrastructureRecovery(u, in.recoveryDecision)
<1>1. /\ in.accessDecision \in BOOLEAN /\ in.usageDecision \in BOOLEAN
      /\ in.recoveryDecision \in BOOLEAN
      /\ q.resource \in DOMAIN KEY_ROTATION_INFRASTRUCTURE_POLICY
  BY DEF KeyRotationOrchestrationInput
<1>2. fits \in BOOLEAN /\ approved \in BOOLEAN /\ (fits => approved)
  BY <1>1
<1>3. (p.provisioningAuthorized <=> fits) /\ p.provisioningAuthorized \in BOOLEAN
  <2>1. p.provisioningAuthorized
          = AllOpen(<< <<approved, "INFRASTRUCTURE_CLASS_NOT_APPROVED">>,
                       <<fits, "INFRASTRUCTURE_CLASS_RESOURCE_MISMATCH">> >>)
    BY DEF authorizeKeyRotationInfrastructureProvisioning, resolveApprovedClassesForResource
  <2> HIDE DEF fits, approved, p
  <2>2. AllOpen(<< <<approved, "INFRASTRUCTURE_CLASS_NOT_APPROVED">>,
                   <<fits, "INFRASTRUCTURE_CLASS_RESOURCE_MISMATCH">> >>) <=> approved /\ fits
    BY <1>2, TwoGates
  <2>3. p.provisioningAuthorized \in BOOLEAN
    BY <2>1 DEF AllOpen
  <2> QED
    BY <1>2, <2>1, <2>2, <2>3
<1> HIDE DEF p
<1>4. /\ a.accessGranted <=> p.provisioningAuthorized /\ in.accessDecision
      /\ a.accessGranted \in BOOLEAN
  <2>1. a.accessGranted = AllOpen(<< <<p.provisioningAuthorized, "PROVISIONING_NOT_AUTHORIZED">>,
                                     <<in.accessDecision, "ACCESS_NOT_ALLOWED">> >>)
    BY DEF authorizeKeyRotationInfrastructureAccess
  <2> QED
    BY <1>1, <1>3, <2>1, TwoGates DEF AllOpen
<1> HIDE DEF a
<1>5. /\ u.usageAuthorized <=> a.accessGranted /\ in.usageDecision
      /\ u.usageAuthorized \in BOOLEAN
  <2>1. u.usageAuthorized = AllOpen(<< <<a.accessGranted, "ACCESS_NOT_GRANTED">>,
                                       <<in.usageDecision, "USAGE_NOT_ALLOWED">> >>)
    BY DEF authorizeKeyRotationInfrastructureUsage
  <2> QED
    BY <1>1, <1>4, <2>1, TwoGates DEF AllOpen
<1> HIDE DEF u
<1>6. r.recoveryAuthorized <=> u.usageAuthorized /\ in.recoveryDecision
  <2>1. r.recoveryAuthorized = AllOpen(<< <<u.usageAuthorized, "USAGE_NOT_AUTHORIZED">>,
                                          <<in.recoveryDecision, "RECOVERY_NOT_ALLOWED">> >>)
    BY DEF authorizeKeyRotationInfrastructureRecovery
  <2> QED
    BY <1>1, <1>5, <2>1, TwoGates DEF AllOpen
<1> HIDE DEF r
<1>7. InfrastructureFamily(in) = [provisioning |-> p, access |-> a, usage |-> u, recovery |-> r]
  BY DEF InfrastructureFamily, p, a, u, r
<1> HIDE DEF fits, approved
<1>8. LET i == InfrastructureFamily(in)
      IN  /\ i.provisioning.provisioningAuthorized <=> fits
          /\ i.access.accessGranted <=> fits /\ in.accessDecision
          /\ i.usage.usageAuthorized <=> fits /\ in.accessDecision /\ in.usageDecision
          /\ i.recovery.recoveryAuthorized <=>
               fits /\ in.accessDecision /\ in.usageDecision /\ in.recoveryDecision
  BY <1>3, <1>4, <1>5, <1>6, <1>7
<1> QED
  BY <1>8 DEF fits

(* P9G asks for all of it, and for nothing else.                           *)
RotationGoverned(in) ==
  /\ in.governanceRequest.authority # "OTHER_AUTHORITY"
  /\ in.governanceRequest.trigger # "OTHER_TRIGGER"
  /\ in.evidenceId # None
  /\ in.mechanismRequest.mechanism # "OTHER_MECHANISM"
  /\ in.mechanismRequest.wrappingOperation # "OTHER_OPERATION"
  /\ in.infrastructureProvisioningRequest.infrastructureClass \in
       KEY_ROTATION_INFRASTRUCTURE_POLICY[in.infrastructureProvisioningRequest.resource]
  /\ in.accessDecision /\ in.usageDecision /\ in.recoveryDecision

(* A rotation completes exactly when all three families agree.             *)
LEMMA RotationCompletes ==
  ASSUME NEW in \in KeyRotationOrchestrationInput
  PROVE  orchestrateKeyRotation(in).orchestrationStatus = "COMPLETED" <=> RotationGoverned(in)
<1> DEFINE g == GovernanceFamily(in)
           m == MechanismFamily(in)
           i == InfrastructureFamily(in)
           d1 == g.decision.decisionStatus # "ROTATION_DENIED"
           d2 == g.audit.auditStatus = "AUDIT_PASSED"
<1>1. orchestrateKeyRotation(in).orchestrationStatus
        = IF AllOpen(OrchestrationGates(g, m, i)) THEN "COMPLETED" ELSE "DENIED"
  BY DEF orchestrateKeyRotation, KeyRotationOrchestrationResult
<1>2. AllOpen(OrchestrationGates(g, m, i)) <=>
        /\ d1 /\ d2
        /\ m.execution.executed /\ m.verification.verified
        /\ i.provisioning.provisioningAuthorized /\ i.access.accessGranted
        /\ i.usage.usageAuthorized /\ i.recovery.recoveryAuthorized
  <2>1. OrchestrationGates(g, m, i)
          = << <<d1, "GOVERNANCE_DENIED">>, <<d2, "GOVERNANCE_AUDIT_FAILED">>,
               <<m.execution.executed, "MECHANISM_EXECUTION_DENIED">>,
               <<m.verification.verified, "MECHANISM_VERIFICATION_FAILED">>,
               <<i.provisioning.provisioningAuthorized, "INFRASTRUCTURE_PROVISIONING_DENIED">>,
               <<i.access.accessGranted, "INFRASTRUCTURE_ACCESS_DENIED">>,
               <<i.usage.usageAuthorized, "INFRASTRUCTURE_USAGE_DENIED">>,
               <<i.recovery.recoveryAuthorized, "INFRASTRUCTURE_RECOVERY_DENIED">> >>
    BY DEF OrchestrationGates
  <2> HIDE DEF g, m, i, d1, d2
  <2> QED
    BY <2>1, EightGates
<1>3. /\ d1 <=> /\ in.governanceRequest.authority # "OTHER_AUTHORITY"
                /\ in.governanceRequest.trigger # "OTHER_TRIGGER"
      /\ d2 <=> in.evidenceId # None
  BY GovernanceFamilyAgrees
<1> HIDE DEF g, m, i, d1, d2
<1> QED
  BY <1>1, <1>2, <1>3, MechanismFamilyAgrees, InfrastructureFamilyAgrees DEF RotationGoverned, m, i

(* A rotation is what P9G made of its input.                               *)
RotationsComputed ==
  \A k \in Keys : rotation[k] # None =>
    /\ rotation[k].input \in KeyRotationOrchestrationInput
    /\ rotation[k].result = orchestrateKeyRotation(rotation[k].input)

(* Every rotation held is the orchestrator's answer to its input.          *)
LEMMA NextRotationsComputed ==
  ASSUME KeyTypeOK, RotationsComputed, [KeyNext]_keyVars
  PROVE  RotationsComputed'
<1>1. ASSUME NEW j \in Keys, NEW in \in RotationInputs, Rotate(j, in)
      PROVE  RotationsComputed'
  <2>1. rotation' = [rotation EXCEPT ![j] = [input |-> in, result |-> orchestrateKeyRotation(in)]]
    BY <1>1 DEF Rotate
  <2>2. in \in KeyRotationOrchestrationInput
    BY RotationInputsAssumption
  <2> QED
    BY <2>1, <2>2 DEF RotationsComputed, KeyTypeOK
<1>2. CASE rotation' = rotation
  BY <1>2 DEF RotationsComputed
<1> QED
  BY <1>1, <1>2 DEF KeyNext, keyVars, Ask, Apply, AlterRecord, AlterEvidence, Audit

(* A rotation is completed exactly when the three families agree.          *)
THEOREM RotationAsGoverned == KeySpec => []CompletedWhenAllAgree
<1>1. KeyInit => KeyTypeOK /\ RotationsComputed
  BY InitKeyTypeOK DEF KeyInit, RotationsComputed
<1>2. KeyTypeOK /\ RotationsComputed /\ [KeyNext]_keyVars => (KeyTypeOK /\ RotationsComputed)'
  BY NextKeyTypeOK, NextRotationsComputed
<1>3. RotationsComputed => CompletedWhenAllAgree
  BY RotationCompletes DEF RotationsComputed, CompletedWhenAllAgree, RotationGoverned
<1> QED
  BY <1>1, <1>2, <1>3, PTL DEF KeySpec

----------------------------------------------------------------------------

(* A payload counts as encrypted exactly when everything its class asks    *)
(* for is there.                                                           *)
THEOREM EncryptionAsGoverned == EncryptedAsGoverned
<1> SUFFICES ASSUME NEW e \in Encryptions
             PROVE  Encrypted(e) <=>
                      /\ e.payloadClass \in ProtectedPayloadClass
                      /\ e.authority = authorityRequired[e.payloadClass]
                      /\ e.payloadClass \in
                           {"OAG", "CHARTER", "SECRET", "API_CREDENTIAL", "RECOVERY_ARTIFACT"}
                           => e.approvalProvided
                      /\ e.class # "LOCAL_DISK" /\ e.control # "NO_CONTROL"
                      /\ e.algorithm = "AES" /\ e.payload # << >>
  BY DEF EncryptedAsGoverned
<1> DEFINE eligible == evaluateEncryptionRequest(e).encryptionEligible
           usage == /\ e.class \in CANONICAL_INFRASTRUCTURE_POLICY.classes
                    /\ e.control \in CANONICAL_INFRASTRUCTURE_POLICY.controls
           approved == [CRYPTOGRAPHIC_MECHANISM_POLICY EXCEPT !.algorithm = e.algorithm]
                         = CRYPTOGRAPHIC_MECHANISM_POLICY
<1>1. /\ e.class \in CANONICAL_INFRASTRUCTURE_POLICY.classes \union {"LOCAL_DISK"}
      /\ e.control \in CANONICAL_INFRASTRUCTURE_POLICY.controls \union {"NO_CONTROL"}
      /\ e.algorithm \in {"AES", "DES"}
      /\ e.payloadClass \in ProtectedPayloadClass \union {"OTHER"}
      /\ e.approvalProvided \in BOOLEAN
  BY EncryptionsAssumption DEF EncryptionShape
<1>2. Encrypted(e) <=> eligible /\ usage /\ approved /\ e.payload # << >>
  BY DEF Encrypted, validateInfrastructureUsage, validateInfrastructureProvisioning,
    validateInfrastructureAccess, authorizeCryptographicExecution, executeCryptographicRuntime,
    verifyCryptographicExecution
<1>3. usage <=> e.class # "LOCAL_DISK" /\ e.control # "NO_CONTROL"
  BY <1>1 DEF CANONICAL_INFRASTRUCTURE_POLICY
<1>4. approved <=> e.algorithm = "AES"
  BY <1>1 DEF CRYPTOGRAPHIC_MECHANISM_POLICY
<1>5. eligible <=>
        /\ e.payloadClass \in ProtectedPayloadClass
        /\ e.authority = authorityRequired[e.payloadClass]
        /\ e.payloadClass \in {"OAG", "CHARTER", "SECRET", "API_CREDENTIAL", "RECOVERY_ARTIFACT"}
             => e.approvalProvided
  <2>1. CASE e.payloadClass \notin ProtectedPayloadClass
    BY <2>1 DEF evaluateEncryptionRequest, EncryptionDecision
  <2>2. CASE e.payloadClass \in ProtectedPayloadClass
    <3> DEFINE p == PAYLOAD_ENCRYPTION_POLICIES[e.payloadClass]
    <3>1. /\ p.encryptionMandatory
          /\ p.authorityRequired = authorityRequired[e.payloadClass]
          /\ p.humanApprovalRequired <=> e.payloadClass \in
               {"OAG", "CHARTER", "SECRET", "API_CREDENTIAL", "RECOVERY_ARTIFACT"}
      BY <2>2 DEF PAYLOAD_ENCRYPTION_POLICIES
    <3> HIDE DEF p
    <3> QED
      BY <2>2, <3>1, <1>1 DEF evaluateEncryptionRequest, EncryptionDecision, p
  <2> QED
    BY <2>1, <2>2
<1> HIDE DEF eligible, usage, approved
<1> QED
  BY <1>2, <1>3, <1>4, <1>5

----------------------------------------------------------------------------
(* The provider runtime.                                                   *)

(* In a row that is open every gate is.                                    *)
LEMMA OpenGate ==
  ASSUME NEW gates, AllOpen(gates), NEW n \in DOMAIN gates
  PROVE  gates[n][1]
BY DEF AllOpen, Closed

(* What a row that is not open says is the reason of one of its gates.     *)
LEMMA ClosedReason ==
  ASSUME NEW gates, DOMAIN gates \subseteq Nat, ~AllOpen(gates), NEW Reasons,
         \A n \in DOMAIN gates : gates[n][2] \in Reasons
  PROVE  FirstClosed(gates) \in Reasons
<1>1. PICK n \in DOMAIN gates : ReasonOr(gates, None) = gates[n][2]
  BY FirstReason
<1> QED
  BY <1>1 DEF ReasonOr

----------------------------------------------------------------------------

(* P9U.                                                                    *)

(* The digest of a record is one more link on that of its predecessor.     *)
LEMMA DigestType ==
  ASSUME NEW r \in ImmutableChainRecord
  PROVE  computeRecordHash(r) \in Hashes
BY DEF computeRecordHash, ImmutableChainRecord, Hashes, Links

(* A digest is nobody's null, and determines every field it covers.        *)
LEMMA DigestBinds ==
  ASSUME NEW r \in ImmutableChainRecord, NEW s \in ImmutableChainRecord
  PROVE  /\ computeRecordHash(r) # Null
         /\ computeRecordHash(r) = computeRecordHash(s) =>
              /\ r.chain_id = s.chain_id
              /\ r.scope = s.scope
              /\ r.previous_hash = s.previous_hash
              /\ r.payload_hash = s.payload_hash
              /\ r.sequence_number = s.sequence_number
<1> DEFINE link(x) == [ chain_id        |-> x.chain_id,
                        scope           |-> x.scope,
                        payload_hash    |-> x.payload_hash,
                        sequence_number |-> x.sequence_number ]
<1>1. /\ r.previous_hash \in Seq(Links) /\ link(r) \in Links
      /\ s.previous_hash \in Seq(Links) /\ link(s) \in Links
  BY DEF ImmutableChainRecord, Links, Hashes
<1>2. ASSUME NEW h \in Seq(Links), NEW l \in Links
      PROVE  Append(h, l) # <<>>
  <2>1. Len(Append(h, l)) = Len(h) + 1 /\ Len(h) \in Nat /\ Len(<<>>) = 0
    OBVIOUS
  <2> QED
    BY <2>1
<1>3. ASSUME NEW h \in Seq(Links), NEW l \in Links, NEW g \in Seq(Links), NEW m \in Links,
             Append(h, l) = Append(g, m)
      PROVE  h = g /\ l = m
  <2>1. Len(h) = Len(g)
    BY <1>3
  <2>2. l = m
    BY <1>3, <2>1
  <2>3. \A i \in 1..Len(h) : h[i] = g[i]
    BY <1>3, <2>1
  <2> QED
    BY <2>1, <2>2, <2>3, SeqEqual
<1>4. /\ computeRecordHash(r) = Append(r.previous_hash, link(r))
      /\ computeRecordHash(s) = Append(s.previous_hash, link(s))
  BY DEF computeRecordHash
<1>5. link(r) = link(s) => /\ r.chain_id = s.chain_id
                           /\ r.scope = s.scope
                           /\ r.payload_hash = s.payload_hash
                           /\ r.sequence_number = s.sequence_number
  OBVIOUS
<1> HIDE DEF link
<1>6. computeRecordHash(r) # Null
  BY <1>1, <1>2, <1>4 DEF Null
<1>7. ASSUME computeRecordHash(r) = computeRecordHash(s)
      PROVE  r.previous_hash = s.previous_hash /\ link(r) = link(s)
  <2> DEFINE h == r.previous_hash
             g == s.previous_hash
             l == link(r)
             m == link(s)
  <2>1. Append(h, l) = Append(g, m)
    BY <1>4, <1>7
  <2>2. h \in Seq(Links) /\ g \in Seq(Links) /\ l \in Links /\ m \in Links
    BY <1>1
  <2> HIDE DEF h, g, l, m
  <2>3. h = g /\ l = m
    BY <1>3, <2>1, <2>2
  <2> QED
    BY <2>3 DEF h, g, l, m
<1> QED
  BY <1>5, <1>6, <1>7

(* What appendImmutableRecord returns is a record that carries its digest. *)
LEMMA AppendSeals ==
  ASSUME NEW previous \in SUBSET ImmutableChainRecord, NEW scope \in Scopes,
         NEW payload \in Payloads, NEW m \in Metadata, NEW id \in Nat
  PROVE  LET r == appendImmutableRecord(previous, scope, payload, m, id)
         IN  r \in ImmutableChainRecord /\ r.current_hash = computeRecordHash(r)
<1> DEFINE u == Unsealed(previous, scope, payload, m, id)
           r == [u EXCEPT !.current_hash = computeRecordHash(u)]
<1>1. Null \in Hashes
  BY EmptySeq DEF Null, Hashes
<1>2. Text[payload] \in Texts
  BY TextAssumption
<1>3. u \in ImmutableChainRecord
  <2>1. CASE previous = {}
    BY <1>1, <1>2, <2>1 DEF Unsealed, ImmutableChainRecord
  <2>2. CASE previous # {}
    <3> DEFINE p == CHOOSE p \in previous : TRUE
               first == [ record_id |-> id, chain_id |-> id, scope |-> scope,
                          previous_hash |-> Null, current_hash |-> Null,
                          payload_hash |-> Text[payload], sequence_number |-> 1,
                          immutable |-> TRUE, metadata |-> m ]
    <3>1. p \in ImmutableChainRecord
      BY <2>2
    <3>2. /\ p.chain_id \in Nat
          /\ p.current_hash \in Hashes
          /\ p.sequence_number + 1 \in Nat
      BY <3>1 DEF ImmutableChainRecord
    <3>3. first \in ImmutableChainRecord
      BY <1>1, <1>2 DEF ImmutableChainRecord
    <3>4. u = [first EXCEPT !.chain_id        = p.chain_id,
                            !.previous_hash   = p.current_hash,
                            !.sequence_number = p.sequence_number + 1]
      BY <2>2 DEF Unsealed
    <3> HIDE DEF p, first
    <3> QED
      BY <3>2, <3>3, <3>4 DEF ImmutableChainRecord
  <2> QED
    BY <2>1, <2>2
<1> HIDE DEF u
<1>4. computeRecordHash(u) \in Hashes
  BY <1>3, DigestType
<1>5. r \in ImmutableChainRecord
  BY <1>3, <1>4 DEF ImmutableChainRecord
<1>6. r.current_hash = computeRecordHash(u)
  BY <1>3 DEF ImmutableChainRecord
<1>7. computeRecordHash(r) = computeRecordHash(u)
  BY <1>3 DEF ImmutableChainRecord, computeRecordHash
<1> QED
  BY <1>5, <1>6, <1>7 DEF appendImmutableRecord, u

----------------------------------------------------------------------------
(* Bindings of provider runtime facts to the chain.                        *)

(* Every digest P9U has issued, and where digests may be found.            *)
IssuedHashes == {issued[j].current_hash : j \in 1..Len(issued)}

Presenting == {"APPENDING", "VERIFYING", "BOUND"}

BindingSealed ==
  \A j \in 1..Len(issued) : issued[j].current_hash = computeRecordHash(issued[j])

HeldIssued == \A i \in 1..Len(records) : records[i].current_hash \in IssuedHashes

PresentedIssued ==
  \A b \in Binders : binding[b].status \in Presenting =>
    LET previous == binding[b].input.previousRecord
    IN  /\ \A p \in previous : p.current_hash \in IssuedHashes
        /\ previous # {} => \E p : previous = {p}

MadeIssued ==
  \A b \in Binders : binding[b].status \in {"VERIFYING", "BOUND"} =>
    binding[b].record.current_hash \in IssuedHashes

BoundVerified == \A b \in Binders : binding[b].status = "BOUND" => ChainVerified(binding[b])

BindingIInv ==
  /\ TypeOK
  /\ BindingSealed
  /\ HeldIssued
  /\ PresentedIssued
  /\ MadeIssued
  /\ BoundVerified

(* The status of a binding determines which fields it has.                 *)
LEMMA BindingShapes ==
  ASSUME NEW k \in Binding
  PROVE  /\ k.status \in Presenting => k.input \in Input
         /\ k.status \in {"VERIFYING", "BOUND"} => k.record \in ImmutableChainRecord
BY DEF Binding, Idle, Presenting

(* The fields of the record P9U appends, as its fact gives them.           *)
LEMMA InputFields ==
  ASSUME NEW i \in Input
  PROVE  /\ i.fact \in Facts /\ i.fact.payload \in Payloads /\ i.scope \in Scopes
         /\ i.previousRecord \in SUBSET ImmutableChainRecord
         /\ i.previousPayloads \in Seq(Payloads)
BY FactsAssumption DEF Input, FactShape

(* The invariant of P9U holds of an empty chain.                           *)
LEMMA InitBindingIInv == Init => BindingIInv
<1> SUFFICES ASSUME Init PROVE BindingIInv
  OBVIOUS
<1> USE DEF Init
<1>1. \A b \in Binders : binding[b] = Idle /\ binding[b] \in Binding
  BY DEF Binding
<1>2. \A b \in Binders : binding[b].status = "IDLE"
  BY <1>1 DEF Idle
<1>3. /\ <<>> \in Seq(ImmutableChainRecord) /\ <<>> \in Seq(Payloads) /\ Len(<<>>) = 0
      /\ 0 \in 0..MaxEdits
  BY EmptySeq, BoundsAssumption
<1>4. TypeOK
  BY <1>1, <1>3 DEF TypeOK
<1>5. BindingSealed /\ HeldIssued
  BY <1>3 DEF BindingSealed, HeldIssued
<1>6. PresentedIssued /\ MadeIssued /\ BoundVerified
  BY <1>2 DEF PresentedIssued, MadeIssued, BoundVerified, Presenting
<1> QED
  BY <1>4, <1>5, <1>6 DEF BindingIInv

(* What a binding verifies does not depend on the state.                   *)
LEMMA BindingMoves ==
  ASSUME BindingIInv, NEW b \in Binders, NEW k \in Binding,
         binding' = [binding EXCEPT ![b] = k], UNCHANGED <<issued, edits>>,
         UNCHANGED <<records, payloads>>,
         k.status \in Presenting =>
           /\ \A p \in k.input.previousRecord : p.current_hash \in IssuedHashes
           /\ k.input.previousRecord # {} => \E p : k.input.previousRecord = {p},
         k.status \in {"VERIFYING", "BOUND"} => k.record.current_hash \in IssuedHashes,
         k.status = "BOUND" => ChainVerified(k)
  PROVE  BindingIInv'
<1> USE DEF BindingIInv
<1>1. TypeOK'
  BY DEF TypeOK
<1>2. BindingSealed' /\ HeldIssued'
  BY DEF BindingSealed, HeldIssued, IssuedHashes
<1>3. \A c \in Binders : binding'[c] = IF c = b THEN k ELSE binding[c]
  BY DEF TypeOK
<1>4. IssuedHashes' = IssuedHashes
  BY DEF IssuedHashes
<1>5. PresentedIssued'
  BY <1>3, <1>4 DEF PresentedIssued
<1>6. MadeIssued'
  BY <1>3, <1>4 DEF MadeIssued
<1>7. BoundVerified'
  BY <1>3 DEF BoundVerified
<1> QED
  BY <1>1, <1>2, <1>5, <1>6, <1>7

(* What the caller can pass is what it holds.                              *)
LEMMA InputHeld ==
  ASSUME BindingIInv, NEW asked \in Admitted, NEW previous \in Previous
  PROVE  LET i == InputOf(asked, previous)
         IN  /\ i \in Input
             /\ \A p \in i.previousRecord : p.current_hash \in IssuedHashes
             /\ i.previousRecord # {} => \E p : i.previousRecord = {p}
<1> USE DEF BindingIInv
<1> DEFINE i == InputOf(asked, previous)
           n == Len(records)
<1>1. asked.fact \in Facts /\ asked.scope \in Scopes
  BY DEF Admitted, Requests
<1>2. /\ records \in Seq(ImmutableChainRecord) /\ payloads \in Seq(Payloads)
      /\ Len(records) = Len(payloads) /\ n \in Nat
  BY DEF TypeOK
<1>3. \/ previous.record = {} /\ previous.payloads = <<>>
      \/ /\ records # <<>> /\ previous.record = {records[n]}
         /\ previous.payloads \in {payloads, <<payloads[Len(payloads)]>>}
  BY DEF Previous
<1>4. records # <<>> => /\ n \in 1..n
                        /\ records[n] \in ImmutableChainRecord
                        /\ payloads[Len(payloads)] \in Payloads
  BY <1>2
<1>5. /\ previous.record \in SUBSET ImmutableChainRecord
      /\ previous.payloads \in Seq(Payloads)
      /\ \A p \in previous.record : p.current_hash \in IssuedHashes
      /\ previous.record # {} => \E p : previous.record = {p}
  <2>1. CASE previous.record = {} /\ previous.payloads = <<>>
    BY <2>1, EmptySeq
  <2>2. CASE /\ records # <<>> /\ previous.record = {records[n]}
             /\ previous.payloads \in {payloads, <<payloads[Len(payloads)]>>}
    <3> DEFINE q == records[n]
               x == payloads[Len(payloads)]
    <3>1. /\ q \in ImmutableChainRecord /\ x \in Payloads /\ q.current_hash \in IssuedHashes
          /\ previous.record = {q} /\ previous.payloads \in {payloads, <<x>>}
      BY <1>4, <2>2 DEF HeldIssued
    <3> HIDE DEF q, x
    <3>2. previous.payloads \in Seq(Payloads)
      <4>1. <<x>> \in Seq(Payloads)
        BY <3>1
      <4> QED
        BY <1>2, <3>1, <4>1
    <3>3. \E p : previous.record = {p}
      BY <3>1
    <3> QED
      BY <3>1, <3>2, <3>3
  <2> QED
    BY <1>3, <2>1, <2>2
<1>6. i = [fact |-> asked.fact, scope |-> asked.scope,
           previousRecord |-> previous.record, previousPayloads |-> previous.payloads]
  BY DEF InputOf
<1> HIDE DEF i
<1> QED
  <2>1. i \in Input
    BY <1>1, <1>5, <1>6 DEF Input
  <2>2. i.previousRecord = previous.record
    BY <1>6
  <2> QED
    BY <1>5, <2>1, <2>2 DEF i

(* A record that is made is sealed, and joins the issued.                  *)
LEMMA MadeRecord ==
  ASSUME BindingIInv, NEW b \in Binders, binding[b].status = "APPENDING"
  PROVE  LET r == Appended(binding[b].input)
         IN  r \in ImmutableChainRecord /\ r.current_hash = computeRecordHash(r)
<1> DEFINE i == binding[b].input
<1>1. i \in Input
  BY BindingShapes DEF BindingIInv, TypeOK, Presenting
<1>2. Len(issued) + 1 \in Nat
  BY DEF BindingIInv, TypeOK
<1> HIDE DEF i
<1>3. LET r == Appended(i) IN r \in ImmutableChainRecord /\ r.current_hash = computeRecordHash(r)
  BY <1>1, <1>2, InputFields, AppendSeals, SourceAssumption
  DEF Appended, createCanonicalChainPayload
<1> QED
  BY <1>3 DEF i

(* A record made and appended keeps it.                                    *)
LEMMA MadeKeepsIInv ==
  ASSUME BindingIInv, NEW b \in Binders, NEW k \in Binding, NEW r \in ImmutableChainRecord,
         r.current_hash = computeRecordHash(r), issued' = Append(issued, r),
         binding' = [binding EXCEPT ![b] = k], UNCHANGED <<records, payloads, edits>>,
         \/ k.status = "NOT_BOUND"
         \/ /\ k.status = "VERIFYING" /\ k.record = r
            /\ binding[b].status = "APPENDING" /\ k.input = binding[b].input
  PROVE  BindingIInv'
<1> USE DEF BindingIInv
<1>1. /\ issued \in Seq(ImmutableChainRecord) /\ Len(issued) \in Nat
      /\ issued' \in Seq(ImmutableChainRecord)
      /\ Len(issued') = Len(issued) + 1
      /\ \A j \in 1..Len(issued) : issued'[j] = issued[j]
      /\ issued'[Len(issued) + 1] = r
  BY DEF TypeOK
<1>2. IssuedHashes \subseteq IssuedHashes' /\ r.current_hash \in IssuedHashes'
  <2>1. \A j \in 1..Len(issued) : j \in 1..Len(issued')
    BY <1>1
  <2>2. Len(issued) + 1 \in 1..Len(issued')
    BY <1>1
  <2> QED
    BY <1>1, <2>1, <2>2 DEF IssuedHashes
<1>3. TypeOK'
  BY <1>1 DEF TypeOK
<1>4. BindingSealed'
  BY <1>1 DEF BindingSealed
<1>5. HeldIssued'
  BY <1>2 DEF HeldIssued
<1>6. \A c \in Binders : binding'[c] = IF c = b THEN k ELSE binding[c]
  BY DEF TypeOK
<1>7. PresentedIssued'
  <2> SUFFICES ASSUME NEW c \in Binders, binding'[c].status \in Presenting
               PROVE  LET previous == binding'[c].input.previousRecord
                      IN  /\ \A p \in previous : p.current_hash \in IssuedHashes'
                          /\ previous # {} => \E p : previous = {p}
    BY DEF PresentedIssued
  <2>1. binding[c].status \in Presenting /\ binding'[c].input = binding[c].input
    BY <1>6 DEF Presenting
  <2> QED
    BY <1>2, <2>1 DEF PresentedIssued
<1>8. MadeIssued'
  BY <1>2, <1>6 DEF MadeIssued
<1>9. BoundVerified'
  BY <1>6 DEF BoundVerified
<1> QED
  BY <1>3, <1>4, <1>5, <1>7, <1>8, <1>9

(* A holder that takes a binder's chain keeps it.                          *)
LEMMA TakeKeepsIInv ==
  ASSUME BindingIInv, NEW b \in Binders, Take(b)
  PROVE  BindingIInv'
<1> USE DEF BindingIInv
<1> DEFINE k == binding[b]
<1>1. /\ binding' = [binding EXCEPT ![b] = Idle] /\ Idle \in Binding /\ Idle.status = "IDLE"
      /\ UNCHANGED <<issued, edits>> /\ k \in Binding
      /\ records \in Seq(ImmutableChainRecord) /\ payloads \in Seq(Payloads)
  BY DEF Take, Binding, Idle, TypeOK
<1>2. \A c \in Binders : binding'[c] = IF c = b THEN Idle ELSE binding[c]
  BY <1>1 DEF TypeOK
<1>3. IssuedHashes' = IssuedHashes
  BY <1>1 DEF IssuedHashes
<1>4. PresentedIssued' /\ MadeIssued' /\ BoundVerified' /\ BindingSealed'
  <2>1. PresentedIssued' /\ MadeIssued'
    <3>1. ASSUME NEW c \in Binders, binding'[c].status \in Presenting
          PROVE  c # b /\ binding'[c] = binding[c]
      BY <1>1, <1>2, <3>1 DEF Presenting
    <3> QED
      BY <1>3, <3>1 DEF PresentedIssued, MadeIssued, Presenting
  <2>2. BoundVerified'
    BY <1>1, <1>2 DEF BoundVerified
  <2>3. BindingSealed'
    BY <1>1 DEF BindingSealed
  <2> QED
    BY <2>1, <2>2, <2>3
<1>5. /\ records' \in Seq(ImmutableChainRecord) /\ payloads' \in Seq(Payloads)
      /\ Len(records') = Len(payloads') /\ HeldIssued'
  <2>1. CASE k.status = "BOUND"
    <3> DEFINE p == createCanonicalChainPayload(k.input.fact)
    <3>1. k.record \in ImmutableChainRecord /\ k.record.current_hash \in IssuedHashes
      BY <1>1, <2>1, BindingShapes DEF MadeIssued
    <3>2. p \in Payloads
      BY <1>1, <2>1, BindingShapes, InputFields DEF createCanonicalChainPayload, Presenting
    <3>3. records' = Append(records, k.record) /\ payloads' = Append(payloads, p)
      BY <2>1 DEF Take
    <3>4. /\ records' \in Seq(ImmutableChainRecord) /\ payloads' \in Seq(Payloads)
          /\ Len(records') = Len(records) + 1 /\ Len(payloads') = Len(payloads) + 1
          /\ \A i \in 1..Len(records) : records'[i] = records[i]
          /\ records'[Len(records) + 1] = k.record
      BY <1>1, <3>1, <3>2, <3>3
    <3>5. HeldIssued'
      BY <1>1, <1>3, <3>1, <3>4 DEF HeldIssued
    <3> QED
      BY <3>4, <3>5 DEF TypeOK
  <2>2. CASE k.status # "BOUND"
    <3>1. UNCHANGED <<records, payloads>>
      BY <2>2 DEF Take
    <3> QED
      BY <1>1, <1>3, <3>1 DEF HeldIssued, TypeOK
  <2> QED
    BY <2>1, <2>2
<1>6. TypeOK'
  BY <1>1, <1>5 DEF TypeOK
<1> QED
  BY <1>4, <1>5, <1>6

(* An altered record keeps it.                                             *)
LEMMA AlterKeepsIInv ==
  ASSUME BindingIInv, NEW i \in 1..Len(records), Alter(i)
  PROVE  BindingIInv'
<1> USE DEF BindingIInv
<1>1. /\ records \in Seq(ImmutableChainRecord) /\ payloads \in Seq(Payloads)
      /\ records[i] \in ImmutableChainRecord /\ i \in 1..Len(payloads)
  BY DEF TypeOK
<1>2. /\ UNCHANGED <<issued, binding>>
      /\ edits < MaxEdits /\ edits' = edits + 1
  BY DEF Alter
<1>3. \/ /\ UNCHANGED payloads
         /\ \E r \in ImmutableChainRecord :
              r.current_hash = records[i].current_hash /\ records' = [records EXCEPT ![i] = r]
      \/ /\ UNCHANGED records
         /\ \E p \in Payloads : payloads' = [payloads EXCEPT ![i] = p]
  <2> DEFINE a == {[records[i] EXCEPT !.immutable = FALSE],
                   [records[i] EXCEPT !.sequence_number = 1],
                   [records[i] EXCEPT !.previous_hash = Null]}
  <2>1. ASSUME NEW r \in a
        PROVE  r \in ImmutableChainRecord /\ r.current_hash = records[i].current_hash
    <3> DEFINE s == records[i]
    <3>1. Null \in Hashes /\ s \in ImmutableChainRecord
      BY <1>1, EmptySeq DEF Null, Hashes
    <3>2. \/ r = [s EXCEPT !.immutable = FALSE]
          \/ r = [s EXCEPT !.sequence_number = 1]
          \/ r = [s EXCEPT !.previous_hash = Null]
      OBVIOUS
    <3> HIDE DEF s
    <3>3. CASE r = [s EXCEPT !.immutable = FALSE]
      BY <3>1, <3>3 DEF ImmutableChainRecord, s
    <3>4. CASE r = [s EXCEPT !.sequence_number = 1]
      BY <3>1, <3>4 DEF ImmutableChainRecord, s
    <3>5. CASE r = [s EXCEPT !.previous_hash = Null]
      BY <3>1, <3>5 DEF ImmutableChainRecord, s
    <3> QED
      BY <3>2, <3>3, <3>4, <3>5
  <2>2. \/ /\ \E r \in a \ {records[i]} : records' = [records EXCEPT ![i] = r]
           /\ UNCHANGED payloads
        \/ /\ \E p \in Payloads \ {payloads[i]} : payloads' = [payloads EXCEPT ![i] = p]
           /\ UNCHANGED records
    BY DEF Alter
  <2> HIDE DEF a
  <2> QED
    BY <2>1, <2>2
<1>4. /\ records' \in Seq(ImmutableChainRecord) /\ payloads' \in Seq(Payloads)
      /\ Len(records') = Len(records) /\ Len(payloads') = Len(payloads)
      /\ \A j \in 1..Len(records) : records'[j].current_hash = records[j].current_hash
  <2>1. CASE UNCHANGED payloads
    <3>1. CASE UNCHANGED records
      BY <1>1, <2>1, <3>1
    <3>2. ASSUME NEW r \in ImmutableChainRecord,
                 r.current_hash = records[i].current_hash, records' = [records EXCEPT ![i] = r]
          PROVE  /\ records' \in Seq(ImmutableChainRecord) /\ Len(records') = Len(records)
                 /\ \A j \in 1..Len(records) :
                      records'[j].current_hash = records[j].current_hash
      BY <1>1, <3>2
    <3> QED
      BY <1>1, <1>3, <2>1, <3>1, <3>2
  <2>2. CASE UNCHANGED records
    <3>1. ASSUME NEW p \in Payloads, payloads' = [payloads EXCEPT ![i] = p]
          PROVE  payloads' \in Seq(Payloads) /\ Len(payloads') = Len(payloads)
      BY <1>1, <3>1
    <3> QED
      BY <1>1, <1>3, <2>1, <2>2, <3>1
  <2> QED
    BY <1>3, <2>1, <2>2
<1>5. TypeOK'
  BY <1>2, <1>4, BoundsAssumption DEF TypeOK
<1>6. BindingSealed' /\ PresentedIssued' /\ MadeIssued' /\ BoundVerified'
  BY <1>2 DEF BindingSealed, PresentedIssued, MadeIssued, BoundVerified, IssuedHashes
<1>7. HeldIssued'
  BY <1>2, <1>4 DEF HeldIssued, IssuedHashes
<1> QED
  BY <1>5, <1>6, <1>7

(* Every step of P9U and of the holder of its chain keeps the invariant.   *)
LEMMA NextBindingIInv == BindingIInv /\ [Next]_vars => BindingIInv'
<1> SUFFICES ASSUME BindingIInv, [Next]_vars PROVE BindingIInv'
  OBVIOUS
<1> USE DEF BindingIInv
<1>1. ASSUME NEW b \in Binders,
             Deny(b) \/ (\E input : RefuseAppend(b, input)) \/ FailVerify(b)
      PROVE  BindingIInv'
  <2>1. PICK k \in Binding : /\ k.status \in {"DENIED", "NOT_BOUND"}
                             /\ binding' = [binding EXCEPT ![b] = k]
                             /\ UNCHANGED <<records, payloads, issued, edits>>
    BY <1>1 DEF Deny, RefuseAppend, FailVerify, Binding, Failures
  <2> QED
    BY <2>1, BindingMoves DEF Presenting
<1>2. ASSUME NEW b \in Binders, NEW asked \in Admitted, NEW previous \in Previous,
             StartAppend(b, InputOf(asked, previous))
      PROVE  BindingIInv'
  <2> DEFINE i == InputOf(asked, previous)
             k == [status |-> "APPENDING", input |-> i]
  <2>1. /\ i \in Input
        /\ \A p \in i.previousRecord : p.current_hash \in IssuedHashes
        /\ i.previousRecord # {} => \E p : i.previousRecord = {p}
    BY InputHeld
  <2>2. /\ binding' = [binding EXCEPT ![b] = k]
        /\ UNCHANGED <<records, payloads, issued, edits>>
    BY <1>2 DEF StartAppend
  <2> HIDE DEF i
  <2>3. k \in Binding /\ k.status = "APPENDING" /\ k.input = i
    BY <2>1 DEF Binding
  <2> QED
    BY <2>1, <2>2, <2>3, BindingMoves
<1>3. ASSUME NEW b \in Binders, CountMismatch(b)
      PROVE  BindingIInv'
  <2>1. PICK k \in Binding : /\ k.status = "NOT_BOUND"
                             /\ binding' = [binding EXCEPT ![b] = k]
                             /\ issued' = Append(issued, Appended(binding[b].input))
                             /\ UNCHANGED <<records, payloads, edits>>
    BY <1>3 DEF CountMismatch, Binding, Failures
  <2>2. binding[b].status = "APPENDING"
    BY <1>3 DEF CountMismatch
  <2> QED
    BY <2>1, <2>2, MadeRecord, MadeKeepsIInv
<1>4. ASSUME NEW b \in Binders, StartVerify(b)
      PROVE  BindingIInv'
  <2> DEFINE i == binding[b].input
             r == Appended(i)
             k == [status |-> "VERIFYING", input |-> i, record |-> r]
  <2>1. /\ binding[b].status = "APPENDING"
        /\ binding' = [binding EXCEPT ![b] = k]
        /\ issued' = Append(issued, r)
        /\ UNCHANGED <<records, payloads, edits>>
    BY <1>4 DEF StartVerify
  <2>2. r \in ImmutableChainRecord /\ r.current_hash = computeRecordHash(r)
    BY <2>1, MadeRecord
  <2>3. i \in Input
    BY <2>1, BindingShapes DEF TypeOK, Presenting
  <2>4. k \in Binding /\ k.status = "VERIFYING" /\ k.record = r /\ k.input = binding[b].input
    BY <2>2, <2>3 DEF Binding
  <2> HIDE DEF i, r, k
  <2> QED
    BY <2>1, <2>2, <2>4, MadeKeepsIInv
<1>5. ASSUME NEW b \in Binders, Bind(b)
      PROVE  BindingIInv'
  <2> DEFINE k == [status |-> "BOUND", input |-> binding[b].input, record |-> binding[b].record]
  <2>1. /\ binding[b].status = "VERIFYING" /\ ChainVerified(binding[b])
        /\ binding' = [binding EXCEPT ![b] = k]
        /\ UNCHANGED <<records, payloads, issued, edits>>
    BY <1>5 DEF Bind
  <2>2. binding[b].input \in Input /\ binding[b].record \in ImmutableChainRecord
    BY <2>1, BindingShapes DEF TypeOK, Presenting
  <2>3. k \in Binding
    BY <2>2 DEF Binding
  <2>4. ChainVerified(k)
    BY <2>1 DEF ChainVerified, previousRecords
  <2>5. /\ \A p \in k.input.previousRecord : p.current_hash \in IssuedHashes
        /\ k.input.previousRecord # {} => \E p : k.input.previousRecord = {p}
        /\ k.record.current_hash \in IssuedHashes
    BY <2>1 DEF PresentedIssued, MadeIssued, Presenting
  <2> HIDE DEF k
  <2> QED
    BY <2>1, <2>3, <2>4, <2>5, BindingMoves
<1>6. CASE UNCHANGED vars
  BY <1>6 DEF vars, TypeOK, BindingSealed, HeldIssued, PresentedIssued, MadeIssued, BoundVerified,
    IssuedHashes
<1> QED
  BY <1>1, <1>2, <1>3, <1>4, <1>5, <1>6, TakeKeepsIInv, AlterKeepsIInv DEF Next

(* What verifies on top of a predecessor verifies that predecessor, beside *)
(* the payload that was presented with it.                                 *)
LEMMA VerifiedPredecessor ==
  ASSUME NEW k, k.input \in Input, k.record \in ImmutableChainRecord, ChainVerified(k),
         NEW p, k.input.previousRecord = {p}
  PROVE  /\ Len(k.input.previousPayloads) = 1
         /\ RecordValid(p, k.input.previousPayloads[1])
         /\ k.record.previous_hash = p.current_hash
<1> DEFINE pp == k.input.previousPayloads
           t == createCanonicalChainPayload(k.input.fact)
           rs == Append(<<p>>, k.record)
           ps == Append(pp, t)
<1>1. pp \in Seq(Payloads) /\ t \in Payloads /\ p \in ImmutableChainRecord
  BY InputFields DEF createCanonicalChainPayload
<1>2. previousRecords(k.input) = <<p>>
  BY DEF previousRecords
<1>3. verifyImmutableChain(rs, ps)
  BY <1>2 DEF ChainVerified
<1>4. Len(rs) = 2 /\ rs[1] = p /\ rs[2] = k.record
  OBVIOUS
<1>5. /\ Len(ps) = Len(pp) + 1 /\ Len(pp) \in Nat /\ Len(ps) \in Nat
      /\ (Len(pp) = 1 => ps[1] = pp[1])
  BY <1>1
<1> HIDE DEF rs, ps, pp, t
<1>6. Len(rs) = Len(ps) /\ RecordValid(rs[1], ps[1]) /\ LinkValid(rs[1], rs[2])
  <2>1. 1 \in 1..Len(rs) /\ 2 \in 2..Len(rs) /\ 2 - 1 = 1
    BY <1>4
  <2>2. /\ Len(rs) = Len(ps)
        /\ \A i \in 1..Len(rs) : RecordValid(rs[i], ps[i])
        /\ \A i \in 2..Len(rs) : LinkValid(rs[i - 1], rs[i])
    BY <1>3 DEF verifyImmutableChain
  <2>3. LinkValid(rs[2 - 1], rs[2])
    BY <2>1, <2>2
  <2> QED
    BY <2>1, <2>2, <2>3
<1>7. Len(pp) = 1
  <2>1. Len(ps) = 2
    BY <1>4, <1>6
  <2> DEFINE n == Len(pp)
  <2>2. 2 = n + 1 /\ n \in Nat
    BY <1>5, <2>1
  <2> HIDE DEF n
  <2>3. n = 1
    BY <2>2
  <2> QED
    BY <2>3 DEF n
<1>8. ps[1] = pp[1]
  BY <1>5, <1>7
<1> QED
  BY <1>4, <1>6, <1>7, <1>8 DEF LinkValid, pp

(* The invariant says that what was bound stands on issued records.        *)
LEMMA IInvBoundOnGenuine == BindingIInv => BoundOnGenuine
<1> SUFFICES ASSUME BindingIInv, NEW b \in Binders, binding[b].status = "BOUND",
                    NEW p \in binding[b].input.previousRecord
             PROVE  /\ Len(binding[b].input.previousPayloads) = 1
                    /\ Genuine(p, binding[b].input.previousPayloads[1])
                    /\ binding[b].record.previous_hash = p.current_hash
  BY DEF BoundOnGenuine
<1> DEFINE k == binding[b]
           payload == k.input.previousPayloads[1]
<1>1. k.input \in Input /\ k.record \in ImmutableChainRecord
  BY BindingShapes DEF BindingIInv, TypeOK, Presenting
<1>2. k.input.previousRecord = {p} /\ p.current_hash \in IssuedHashes
  BY DEF BindingIInv, PresentedIssued, Presenting
<1>3. ChainVerified(k)
  BY DEF BindingIInv, BoundVerified
<1>4. p \in ImmutableChainRecord
  BY <1>1, InputFields
<1> HIDE DEF k
<1>5. /\ Len(k.input.previousPayloads) = 1 /\ RecordValid(p, payload)
      /\ k.record.previous_hash = p.current_hash
  BY <1>1, <1>2, <1>3, VerifiedPredecessor
<1>6. PICK j \in 1..Len(issued) : issued[j].current_hash = p.current_hash
  BY <1>2 DEF IssuedHashes
<1>7. issued[j] \in ImmutableChainRecord /\ issued[j].current_hash = computeRecordHash(issued[j])
  BY <1>6 DEF BindingIInv, TypeOK, BindingSealed
<1>8. p.current_hash = computeRecordHash(p) /\ p.payload_hash = Text[payload]
  BY <1>5 DEF RecordValid
<1>9. /\ issued[j].chain_id = p.chain_id /\ issued[j].scope = p.scope
      /\ issued[j].previous_hash = p.previous_hash
      /\ issued[j].payload_hash = p.payload_hash
      /\ issued[j].sequence_number = p.sequence_number
  <2>1. computeRecordHash(p) = computeRecordHash(issued[j])
    BY <1>6, <1>7, <1>8
  <2> QED
    BY <1>4, <1>7, <2>1, DigestBinds
<1>10. Genuine(p, payload)
  BY <1>6, <1>8, <1>9 DEF Genuine
<1> QED
  BY <1>5, <1>10 DEF k

(* Whatever is bound at the same time and altered meanwhile: a binding     *)
(* stands on a record that P9U issued for the payload presented with it.   *)
THEOREM BindingsStandOnIssued == Spec => []BoundOnGenuine
BY InitBindingIInv, NextBindingIInv, IInvBoundOnGenuine, PTL DEF Spec

(* Every binder's request and result, and every record held, has the       *)
(* fields and the status that P9U's result types give it, for every number *)
(* of binders and facts.                                                   *)
THEOREM BindingsTyped == Spec => []TypeOK
<1>1. BindingIInv => TypeOK
  BY DEF BindingIInv
<1> QED
  BY <1>1, InitBindingIInv, NextBindingIInv, PTL DEF Spec

----------------------------------------------------------------------------

(* P9V and P9W.                                                            *)

AttestationSpec == AttestationInit /\ [][AttestationNext]_attestationVars

(* A digest P9V made: of a binding of an operation with a runtime fact     *)
(* that was bound to a verified chain, agreeing on tenant, key, operation. *)
DigestSound(digest) ==
  \E r \in Runtimes :
    /\ r.bound /\ r.verified
    /\ r.chain = digest.sha256["chain"] /\ r.persistence = digest.sha256["persistence"]
    /\ r.tenant = digest.sha256["tenant"] /\ r.company = digest.sha256["company"]
    /\ r.resource = digest.sha256["key"] /\ r.operation = digest.sha256["operation"]

DigestsSound ==
  \A s \in Slots : bindings[s] # None /\ bindings[s].digest # None =>
    DigestSound(bindings[s].digest)

BindingsAsDigested ==
  \A s \in Slots : bindings[s] # None /\ bindings[s].digest # None =>
    \A f \in AttestedFields : bindings[s].about[f] = bindings[s].digest.sha256[f]

AttestationsAsGiven ==
  \A a \in AttestationIds : attestations[a] # None =>
    \A f \in AttestedFields : attestations[a].about[f] = attestations[a].target.sha256[f]

OneSideAsAttested ==
  /\ attestationEdits = 0 => BindingsAsDigested /\ AttestationsAsGiven
  /\ attestationEdits = 1 => BindingsAsDigested \/ AttestationsAsGiven

AdmissionsSound ==
  \A x \in admissions :
    /\ DigestSound(x.digest)
    /\ \A f \in AttestedFields :
         /\ x.result.context.about[f] = x.digest.sha256[f]
         /\ x.result.admitted.about[f] = x.digest.sha256[f]

AttestationShapes ==
  /\ bindings = [s \in Slots |-> bindings[s]]
  /\ attestations = [a \in AttestationIds |-> attestations[a]]
  /\ attestationEdits \in 0..MaxAttestationEdits

AttestationIInv ==
  /\ AttestationShapes
  /\ DigestsSound
  /\ OneSideAsAttested
  /\ AdmissionsSound

(* P9V digests what it binds.                                              *)
LEMMA BoundIsDigested ==
  ASSUME NEW r \in Runtimes, NEW fact \in Observations, NEW allowed \in BOOLEAN,
         bindProviderCryptographicOperation(r, fact, allowed).digest # None
  PROVE  LET b == bindProviderCryptographicOperation(r, fact, allowed)
         IN  /\ b.about = ResultContext(r, fact)
             /\ b.digest = [sha256 |-> ResultContext(r, fact)]
             /\ AllOpen(BindingDenial(r, fact, allowed)) /\ AllOpen(BindingFailure(r, fact))
             /\ canonicalOperationBindingIsCoherent(ResultContext(r, fact), r, fact)
<1> DEFINE c == createCanonicalOperationBinding(r, fact)
           b == bindProviderCryptographicOperation(r, fact, allowed)
<1>1. /\ b = Bound(r, fact, c)
      /\ AllOpen(BindingDenial(r, fact, allowed)) /\ AllOpen(BindingFailure(r, fact))
      /\ c # None /\ canonicalOperationBindingIsCoherent(c, r, fact)
  BY DEF bindProviderCryptographicOperation, DeniedBinding, NotBound
<1>2. c = ResultContext(r, fact)
  BY <1>1 DEF createCanonicalOperationBinding
<1> HIDE DEF b, c
<1> QED
  BY <1>1, <1>2 DEF Bound, createBindingDigest, b, c

(* What P9V digests is a binding of a verified runtime fact, and says what *)
(* the digest says.                                                        *)
LEMMA BoundIsSound ==
  ASSUME NEW r \in Runtimes, NEW fact \in Observations, NEW allowed \in BOOLEAN,
         bindProviderCryptographicOperation(r, fact, allowed).digest # None
  PROVE  /\ DigestSound(bindProviderCryptographicOperation(r, fact, allowed).digest)
         /\ \A f \in AttestedFields :
              bindProviderCryptographicOperation(r, fact, allowed).about[f]
                = bindProviderCryptographicOperation(r, fact, allowed).digest.sha256[f]
<1> DEFINE b == bindProviderCryptographicOperation(r, fact, allowed)
           c == ResultContext(r, fact)
<1>1. /\ b.about = c /\ b.digest = [sha256 |-> c]
      /\ AllOpen(BindingDenial(r, fact, allowed)) /\ AllOpen(BindingFailure(r, fact))
      /\ canonicalOperationBindingIsCoherent(c, r, fact)
  BY BoundIsDigested
<1> HIDE DEF b
<1>2. r.bound /\ r.verified
  <2> DEFINE g == BindingDenial(r, fact, allowed)
  <2>1. /\ 2 \in DOMAIN g /\ 3 \in DOMAIN g
        /\ g[2][1] = p9uRuntimeLedgerIsCryptographicallyBound(r)
        /\ g[3][1] = p9uImmutableChainIsVerified(r)
    BY DEF BindingDenial
  <2> HIDE DEF g
  <2>2. g[2][1] /\ g[3][1]
    BY <1>1, <2>1, OpenGate DEF g
  <2> QED
    BY <2>1, <2>2 DEF p9uRuntimeLedgerIsCryptographicallyBound, p9uImmutableChainIsVerified
<1>3. fact.key = r.resource
  <2> DEFINE g == BindingFailure(r, fact)
  <2>1. /\ 3 \in DOMAIN g
        /\ g[3][1] = providerKeyReferenceIsCoherent(r, fact)
    BY DEF BindingFailure
  <2> HIDE DEF g
  <2>2. g[3][1]
    BY <1>1, <2>1, OpenGate DEF g
  <2> QED
    BY <2>1, <2>2 DEF providerKeyReferenceIsCoherent
<1>4. /\ c["key"] = fact["key"]
      /\ c["chain"] = r["chain"] /\ c["persistence"] = r["persistence"]
      /\ c["tenant"] = r["tenant"] /\ c["company"] = r["company"]
      /\ c["operation"] = r["operation"]
  BY <1>1 DEF canonicalOperationBindingIsCoherent, RuntimeFields
<1> HIDE DEF c
<1>5. DigestSound([sha256 |-> c])
  BY <1>2, <1>3, <1>4 DEF DigestSound
<1> QED
  BY <1>1, <1>5 DEF b

(* The invariant of P9V and P9W holds when nothing is bound.               *)
LEMMA InitAttestationIInv == AttestationInit => AttestationIInv
BY AttestationEditsAssumption
DEF AttestationInit, AttestationIInv, AttestationShapes, DigestsSound, OneSideAsAttested,
  BindingsAsDigested, AttestationsAsGiven, AdmissionsSound

(* What P9W admits says the same of every field as the binding, and the    *)
(* attestation is of the binding's digest.                                 *)
LEMMA AdmittedAgrees ==
  ASSUME NEW b, NEW m,
         verifyAndAdmitProviderCryptographicAttestation(b, m, TRUE).status = "ADMITTED"
  PROVE  /\ verifyAndAdmitProviderCryptographicAttestation(b, m, TRUE)
              = AttestationAdmitted(b, m)
         /\ m # None /\ b.digest # None /\ m.target = b.digest
         /\ \A f \in AttestedFields : m.about[f] = b.about[f]
<1> DEFINE missing == AdmissionMissing(b, m)
           incoherent == AdmissionIncoherent(b, m)
           v == verifyAndAdmitProviderCryptographicAttestation(b, m, TRUE)
<1>1. v = AttestationAdmitted(b, m) /\ AllOpen(missing) /\ AllOpen(incoherent)
  BY DEF verifyAndAdmitProviderCryptographicAttestation, DeniedAdmission, NotAdmitted
<1>2. b.digest # None /\ m # None
  <2>1. /\ 2 \in DOMAIN missing /\ 3 \in DOMAIN missing
        /\ missing[2][1] = p9vBindingDigestExists(b)
        /\ missing[3][1] = attestationMaterialShapeIsValid(m)
    BY DEF AdmissionMissing
  <2> HIDE DEF missing
  <2>2. missing[2][1] /\ missing[3][1]
    BY <1>1, <2>1, OpenGate
  <2> QED
    BY <2>1, <2>2 DEF p9vBindingDigestExists, attestationMaterialShapeIsValid
<1>3. /\ m.target = b.digest
      /\ Same({"id", "context", "kind"}, b, m) /\ Same({"key"}, b, m)
      /\ Same({"input", "output"}, b, m) /\ Same({"tenant", "company"}, b, m)
      /\ Same({"provider", "operation", "resource"}, b, m)
      /\ Same({"persistence", "chain"}, b, m)
  <2>1. /\ \A n \in 1..8 : n \in DOMAIN incoherent
        /\ incoherent[1][1] = targetBindingDigestIsCoherent(b, m)
        /\ incoherent[2][1] = operationContextIsCoherent(b, m)
        /\ incoherent[3][1] = P9wProviderKeyReferenceIsCoherent(b, m)
        /\ incoherent[4][1] = artifactLineageIsCoherent(b, m)
        /\ incoherent[5][1] = sovereignContextIsCoherent(b, m)
        /\ incoherent[6][1] = providerRuntimeContextIsCoherent(b, m)
        /\ incoherent[7][1] = p9uLineageIsCoherent(b, m)
    BY DEF AdmissionIncoherent
  <2> HIDE DEF incoherent
  <2>2. \A n \in 1..8 : incoherent[n][1]
    BY <1>1, <2>1, OpenGate
  <2>3. /\ targetBindingDigestIsCoherent(b, m) /\ operationContextIsCoherent(b, m)
        /\ P9wProviderKeyReferenceIsCoherent(b, m) /\ artifactLineageIsCoherent(b, m)
        /\ sovereignContextIsCoherent(b, m) /\ providerRuntimeContextIsCoherent(b, m)
        /\ p9uLineageIsCoherent(b, m)
    BY <2>1, <2>2
  <2> QED
    BY <2>3 DEF targetBindingDigestIsCoherent, operationContextIsCoherent,
      P9wProviderKeyReferenceIsCoherent, artifactLineageIsCoherent, sovereignContextIsCoherent,
      providerRuntimeContextIsCoherent, p9uLineageIsCoherent
<1>4. \A f \in AttestedFields : m.about[f] = b.about[f]
  BY <1>3 DEF Same, AttestedFields, BindingFields, OperationFields, RuntimeFields
<1> QED
  BY <1>1, <1>2, <1>3, <1>4

(* Digests are made of verified facts only, and alterations leave them.    *)
LEMMA NextDigestsSound ==
  ASSUME AttestationShapes, DigestsSound, [AttestationNext]_attestationVars
  PROVE  DigestsSound'
<1>1. ASSUME NEW s \in Slots, NEW p \in Presented, NEW allowed \in BOOLEAN,
             BindOperation(s, p[1], p[2], allowed)
      PROVE  DigestsSound'
  <2>1. p[1] \in Runtimes /\ p[2] \in Observations
    BY PresentedAssumption
  <2>2. bindings' = [bindings EXCEPT
                       ![s] = bindProviderCryptographicOperation(p[1], p[2], allowed)]
    BY <1>1 DEF BindOperation
  <2> QED
    BY <2>1, <2>2, BoundIsSound DEF DigestsSound, AttestationShapes
<1>2. ASSUME NEW s \in Slots, AlterBinding(s)
      PROVE  DigestsSound'
  <2>1. PICK f, v : bindings' = [bindings EXCEPT ![s].about[f] = v]
    BY <1>2 DEF AlterBinding
  <2>2. bindings[s] # None
    BY <1>2 DEF AlterBinding
  <2>3. \A t \in Slots : bindings'[t] # None =>
          (bindings[t] # None /\ bindings'[t].digest = bindings[t].digest)
    BY <2>1, <2>2 DEF AttestationShapes
  <2> QED
    BY <2>3 DEF DigestsSound
<1>3. CASE bindings' = bindings
  BY <1>3 DEF DigestsSound
<1> QED
  BY <1>1, <1>2, <1>3 DEF AttestationNext, attestationVars, Attest, Admit, AlterAttestation

(* Unless a binding is altered, every binding says what its digest does.   *)
LEMMA NextBindingsAsDigested ==
  ASSUME AttestationShapes, BindingsAsDigested, [AttestationNext]_attestationVars,
         ~ \E s \in Slots : AlterBinding(s)
  PROVE  BindingsAsDigested'
<1>1. ASSUME NEW s \in Slots, NEW p \in Presented, NEW allowed \in BOOLEAN,
             BindOperation(s, p[1], p[2], allowed)
      PROVE  BindingsAsDigested'
  <2>1. p[1] \in Runtimes /\ p[2] \in Observations
    BY PresentedAssumption
  <2>2. bindings' = [bindings EXCEPT
                       ![s] = bindProviderCryptographicOperation(p[1], p[2], allowed)]
    BY <1>1 DEF BindOperation
  <2> QED
    BY <2>1, <2>2, BoundIsSound DEF BindingsAsDigested, AttestationShapes
<1>2. CASE bindings' = bindings
  BY <1>2 DEF BindingsAsDigested
<1> QED
  BY <1>1, <1>2 DEF AttestationNext, attestationVars, Attest, Admit, AlterAttestation

(* Unless an attestation is altered, each says what its digest does.       *)
LEMMA NextAttestationsAsGiven ==
  ASSUME AttestationShapes, AttestationsAsGiven, [AttestationNext]_attestationVars,
         ~ \E a \in AttestationIds : AlterAttestation(a)
  PROVE  AttestationsAsGiven'
<1>1. ASSUME NEW s \in Slots, NEW a \in AttestationIds, Attest(a, s)
      PROVE  AttestationsAsGiven'
  <2> DEFINE given == Attestation(a, bindings[s])
             sha == bindings[s].digest.sha256
  <2>1. PICK m \in {given, [given EXCEPT !.observed = FALSE],
                    [given EXCEPT !.complete = FALSE], [given EXCEPT !.summary = FALSE]} :
          attestations' = [attestations EXCEPT ![a] = m]
    BY <1>1 DEF Attest
  <2>2. /\ given.target = bindings[s].digest
        /\ given.about = [f \in AttestedFields |-> sha[f]]
        /\ given = [id |-> given.id, observed |-> given.observed, complete |-> given.complete,
                    summary |-> given.summary, target |-> given.target, about |-> given.about]
    BY DEF Attestation
  <2> HIDE DEF given
  <2>3. m.target = bindings[s].digest /\ m.about = [f \in AttestedFields |-> sha[f]]
    BY <2>1, <2>2
  <2>4. \A f \in AttestedFields : m.about[f] = m.target.sha256[f]
    BY <2>3
  <2> QED
    BY <2>1, <2>4 DEF AttestationsAsGiven, AttestationShapes
<1>2. CASE attestations' = attestations
  BY <1>2 DEF AttestationsAsGiven
<1> QED
  BY <1>1, <1>2 DEF AttestationNext, attestationVars, BindOperation, Admit, AlterBinding

(* What is held stays held by slot and by identifier.                      *)
LEMMA NextAttestationShapes ==
  ASSUME AttestationShapes, [AttestationNext]_attestationVars
  PROVE  AttestationShapes'
<1>1. attestationEdits' \in 0..MaxAttestationEdits
  <2>1. CASE attestationEdits' = attestationEdits
    BY <2>1 DEF AttestationShapes
  <2>2. CASE attestationEdits < MaxAttestationEdits /\ attestationEdits' = attestationEdits + 1
    BY <2>2, AttestationEditsAssumption DEF AttestationShapes
  <2>3. CASE \E s \in Slots : AlterBinding(s)
    BY <2>2, <2>3 DEF AlterBinding
  <2>4. CASE \E a \in AttestationIds : AlterAttestation(a)
    BY <2>2, <2>4 DEF AlterAttestation
  <2>5. CASE /\ ~ \E s \in Slots : AlterBinding(s)
             /\ ~ \E a \in AttestationIds : AlterAttestation(a)
    BY <2>1, <2>5 DEF AttestationNext, attestationVars, BindOperation, Attest, Admit
  <2> QED
    BY <2>3, <2>4, <2>5
<1>2. bindings' = [s \in Slots |-> bindings'[s]]
  <2>1. CASE \E s \in Slots, p \in Presented, allowed \in BOOLEAN :
               BindOperation(s, p[1], p[2], allowed)
    BY <2>1 DEF AttestationShapes, BindOperation
  <2>2. CASE \E s \in Slots : AlterBinding(s)
    BY <2>2 DEF AttestationShapes, AlterBinding
  <2>3. CASE bindings' = bindings
    BY <2>3 DEF AttestationShapes
  <2> QED
    BY <2>1, <2>2, <2>3 DEF AttestationNext, attestationVars, Attest, Admit, AlterAttestation
<1>3. attestations' = [a \in AttestationIds |-> attestations'[a]]
  <2>1. CASE \E a \in AttestationIds, s \in Slots : Attest(a, s)
    BY <2>1 DEF AttestationShapes, Attest
  <2>2. CASE \E a \in AttestationIds : AlterAttestation(a)
    BY <2>2 DEF AttestationShapes, AlterAttestation
  <2>3. CASE attestations' = attestations
    BY <2>3 DEF AttestationShapes
  <2> QED
    BY <2>1, <2>2, <2>3 DEF AttestationNext, attestationVars, BindOperation, Admit, AlterBinding
<1> QED
  BY <1>1, <1>2, <1>3 DEF AttestationShapes

(* With one alteration at most, all bindings or all attestations are as    *)
(* digested.                                                               *)
LEMMA NextOneSideAsAttested ==
  ASSUME AttestationShapes, OneSideAsAttested, [AttestationNext]_attestationVars
  PROVE  OneSideAsAttested'
<1>1. attestationEdits \in Nat
  BY AttestationEditsAssumption DEF AttestationShapes
<1>2. CASE \E s \in Slots : AlterBinding(s)
  <2>1. attestationEdits' = attestationEdits + 1 /\ attestations' = attestations
    BY <1>2 DEF AlterBinding
  <2>2. AttestationsAsGiven => AttestationsAsGiven'
    BY <2>1 DEF AttestationsAsGiven
  <2> QED
    BY <1>1, <2>1, <2>2 DEF OneSideAsAttested
<1>3. CASE \E a \in AttestationIds : AlterAttestation(a)
  <2>1. attestationEdits' = attestationEdits + 1 /\ bindings' = bindings
    BY <1>3 DEF AlterAttestation
  <2>2. BindingsAsDigested => BindingsAsDigested'
    BY <2>1 DEF BindingsAsDigested
  <2> QED
    BY <1>1, <2>1, <2>2 DEF OneSideAsAttested
<1>4. CASE /\ ~ \E s \in Slots : AlterBinding(s)
           /\ ~ \E a \in AttestationIds : AlterAttestation(a)
  <2>1. attestationEdits' = attestationEdits
    BY <1>4 DEF AttestationNext, attestationVars, BindOperation, Attest, Admit
  <2> QED
    BY <1>4, <2>1, NextBindingsAsDigested, NextAttestationsAsGiven DEF OneSideAsAttested
<1> QED
  BY <1>2, <1>3, <1>4

(* What P9W admits says what the digest attested says.                     *)
LEMMA NextAdmissionsSound ==
  ASSUME AttestationIInv, [AttestationNext]_attestationVars, MaxAttestationEdits <= 1
  PROVE  AdmissionsSound'
<1> USE DEF AttestationIInv
<1>1. CASE admissions' = admissions
  BY <1>1 DEF AdmissionsSound
<1>2. CASE admissions' # admissions
  <2>1. PICK s \in Slots, a \in AttestationIds : Admit(s, a)
    BY <1>2 DEF AttestationNext, attestationVars, BindOperation, Attest, AlterBinding,
      AlterAttestation
  <2> DEFINE b == bindings[s]
             m == attestations[a]
             v == verifyAndAdmitProviderCryptographicAttestation(b, m, TRUE)
             x == [result |-> v, material |-> m, digest |-> b.digest]
  <2>2. b # None /\ v.status = "ADMITTED" /\ admissions' = admissions \union {x}
    BY <2>1 DEF Admit
  <2>3. /\ v = AttestationAdmitted(b, m) /\ m # None /\ b.digest # None /\ m.target = b.digest
        /\ \A f \in AttestedFields : m.about[f] = b.about[f]
    BY <2>2, AdmittedAgrees
  <2>4. DigestSound(b.digest)
    BY <2>2, <2>3 DEF DigestsSound
  <2>5. \A f \in AttestedFields : b.about[f] = b.digest.sha256[f]
    <3>1. attestationEdits \in {0, 1}
      BY AttestationEditsAssumption DEF AttestationShapes
    <3>2. BindingsAsDigested \/ AttestationsAsGiven
      BY <3>1 DEF OneSideAsAttested
    <3> QED
      BY <2>2, <2>3, <3>2 DEF BindingsAsDigested, AttestationsAsGiven
  <2>6. /\ v.context.about = [f \in AttestedFields |-> b.about[f]]
        /\ v.admitted.about = m.about
    <3>1. v = AttestationAdmitted(b, m)
      BY <2>3
    <3> HIDE DEF b, m, v
    <3> QED
      BY <3>1 DEF AttestationAdmitted, P9wResultContext, buildAdmissionMaterial
  <2> HIDE DEF b, m, v
  <2>7. /\ x.digest = b.digest
        /\ \A f \in AttestedFields : /\ x.result.context.about[f] = b.digest.sha256[f]
                                     /\ x.result.admitted.about[f] = b.digest.sha256[f]
    BY <2>3, <2>5, <2>6
  <2> HIDE DEF x
  <2> QED
    BY <2>2, <2>4, <2>7 DEF AdmissionsSound
<1> QED
  BY <1>1, <1>2

(* An admission repeats the binding whose digest was attested, and that    *)
(* binding is of a runtime fact on a verified chain, for any number of     *)
(* runtime facts, observations, slots and attestations, whatever the       *)
(* caller mixes up and whichever single field is altered.                  *)
THEOREM AdmissionsAsBound ==
  ASSUME MaxAttestationEdits <= 1
  PROVE  AttestationSpec => []AdmittedAsBound
<1>1. AttestationIInv /\ [AttestationNext]_attestationVars => AttestationIInv'
  BY NextAttestationShapes, NextDigestsSound, NextOneSideAsAttested, NextAdmissionsSound
  DEF AttestationIInv
<1>2. AttestationIInv => AdmittedAsBound
  <2> SUFFICES ASSUME AdmissionsSound, NEW x \in admissions
               PROVE  LET about == x.result.admitted.about
                      IN  /\ \A f \in AttestedFields :
                               /\ x.result.context.about[f] = x.digest.sha256[f]
                               /\ about[f] = x.digest.sha256[f]
                          /\ \E r \in Runtimes :
                               /\ r.bound /\ r.verified
                               /\ r.chain = about["chain"]
                               /\ r.persistence = about["persistence"]
                               /\ r.tenant = about["tenant"] /\ r.company = about["company"]
                               /\ r.resource = about["key"] /\ r.operation = about["operation"]
    BY DEF AttestationIInv, AdmittedAsBound
  <2>1. /\ DigestSound(x.digest)
        /\ \A f \in AttestedFields : /\ x.result.context.about[f] = x.digest.sha256[f]
                                     /\ x.result.admitted.about[f] = x.digest.sha256[f]
    BY DEF AdmissionsSound
  <2>2. {"chain", "persistence", "tenant", "company", "key", "operation"} \subseteq AttestedFields
    BY DEF AttestedFields, BindingFields, OperationFields, RuntimeFields
  <2> DEFINE about == x.result.admitted.about
             sha == x.digest.sha256
  <2>3. /\ about["chain"] = sha["chain"] /\ about["persistence"] = sha["persistence"]
        /\ about["tenant"] = sha["tenant"] /\ about["company"] = sha["company"]
        /\ about["key"] = sha["key"] /\ about["operation"] = sha["operation"]
    BY <2>1, <2>2
  <2> HIDE DEF about
  <2> QED
    BY <2>1, <2>3 DEF DigestSound, about
<1> QED
  BY <1>1, <1>2, InitAttestationIInv, PTL DEF AttestationSpec

HeldBindingTyped(b) ==
  /\ b.status \in {"DENIED", "NOT_BOUND", "BOUND"}
  /\ DOMAIN b.about = BindingFields
  /\ b.status = "BOUND" <=> b.digest # None

HeldAttestationTyped(a, m) ==
  /\ ProviderCryptographicAttestationMaterial(m)
  /\ m.id = a
  /\ DOMAIN m.about = AttestedFields

(* A P9V result has its status, its context and, when bound, its digest.   *)
LEMMA BindingIsTyped ==
  ASSUME NEW p \in Presented, NEW allowed
  PROVE  HeldBindingTyped(bindProviderCryptographicOperation(p[1], p[2], allowed))
<1> DEFINE r == p[1]
           fact == p[2]
           c == createCanonicalOperationBinding(r, fact)
           b == bindProviderCryptographicOperation(r, fact, allowed)
<1>1. DOMAIN ResultContext(r, fact) = BindingFields
  BY DEF ResultContext
<1>2. ASSUME NEW reason, b = DeniedBinding(r, fact, reason) \/ b = NotBound(r, fact, reason)
      PROVE  HeldBindingTyped(b)
  <2>1. b.status \in {"DENIED", "NOT_BOUND"} /\ b.digest = None /\ b.about = ResultContext(r, fact)
    BY <1>2 DEF DeniedBinding, NotBound
  <2> HIDE DEF b
  <2> QED
    BY <1>1, <2>1 DEF HeldBindingTyped, b, r, fact
<1>3. CASE b = Bound(r, fact, c) /\ c # None
  <2>1. c = ResultContext(r, fact)
    BY <1>3 DEF createCanonicalOperationBinding
  <2>2. b.status = "BOUND" /\ b.digest = createBindingDigest(c) /\ b.about = ResultContext(r, fact)
    BY <1>3 DEF Bound
  <2>3. b.digest # None
    BY <2>1, <2>2, AttestationNoneAssumption
  <2> HIDE DEF b
  <2> QED
    BY <1>1, <2>2, <2>3 DEF HeldBindingTyped, b, r, fact
<1> QED
  BY <1>2, <1>3 DEF bindProviderCryptographicOperation

(* An admission has the fields of P9W's result and of its material.        *)
LEMMA AdmissionIsTyped ==
  ASSUME NEW b, NEW a, NEW m, HeldAttestationTyped(a, m),
         verifyAndAdmitProviderCryptographicAttestation(b, m, TRUE).status = "ADMITTED"
  PROVE  ProviderCryptographicAttestationAdmissionResult(
           verifyAndAdmitProviderCryptographicAttestation(b, m, TRUE))
<1> DEFINE v == verifyAndAdmitProviderCryptographicAttestation(b, m, TRUE)
<1>1. v = AttestationAdmitted(b, m)
  BY AdmittedAgrees
<1> HIDE DEF v
<1>2. /\ DOMAIN v = {"status", "reason", "context", "admitted"}
      /\ v.status = "ADMITTED"
      /\ DOMAIN v.context.about = AttestedFields
      /\ v.admitted = buildAdmissionMaterial(m)
  BY <1>1 DEF AttestationAdmitted, P9wResultContext
<1>3. ProviderCryptographicAttestationAdmissionMaterial(v.admitted)
  BY <1>2 DEF buildAdmissionMaterial, ProviderCryptographicAttestationAdmissionMaterial,
    HeldAttestationTyped
<1> QED
  BY <1>2, <1>3 DEF ProviderCryptographicAttestationAdmissionResult, v

AttestationTypes ==
  /\ AttestationShapes
  /\ \A s \in Slots : bindings[s] # None => HeldBindingTyped(bindings[s])
  /\ \A a \in AttestationIds :
       attestations[a] # None => HeldAttestationTyped(a, attestations[a])
  /\ \A x \in admissions : ProviderCryptographicAttestationAdmissionResult(x.result)

(* What is held as a binding keeps the fields of one.                      *)
LEMMA NextHeldBindings ==
  ASSUME AttestationTypes, [AttestationNext]_attestationVars
  PROVE  (\A s \in Slots : bindings[s] # None => HeldBindingTyped(bindings[s]))'
<1> USE DEF AttestationTypes
<1>1. ASSUME NEW s \in Slots, NEW p \in Presented, NEW allowed \in BOOLEAN,
             BindOperation(s, p[1], p[2], allowed), NEW t \in Slots, bindings'[t] # None
      PROVE  HeldBindingTyped(bindings'[t])
  BY <1>1, BindingIsTyped DEF BindOperation, AttestationShapes
<1>2. ASSUME NEW s \in Slots, AlterBinding(s), NEW t \in Slots, bindings'[t] # None
      PROVE  HeldBindingTyped(bindings'[t])
  <2>1. PICK f, v : bindings' = [bindings EXCEPT ![s].about[f] = v]
    BY <1>2 DEF AlterBinding
  <2>2. bindings[s] # None
    BY <1>2 DEF AlterBinding
  <2>3. CASE t # s
    BY <1>2, <2>1, <2>3 DEF AttestationShapes
  <2>4. CASE t = s
    <3>1. bindings'[s] = [bindings[s] EXCEPT !.about[f] = v]
      BY <2>1 DEF AttestationShapes
    <3>2. /\ bindings'[s].status = bindings[s].status
          /\ bindings'[s].digest = bindings[s].digest
          /\ DOMAIN bindings'[s].about = DOMAIN bindings[s].about
      <4>1. CASE "about" \in DOMAIN bindings[s]
        BY <3>1, <4>1
      <4>2. CASE "about" \notin DOMAIN bindings[s]
        BY <3>1, <4>2
      <4> QED
        BY <4>1, <4>2
    <3> QED
      BY <2>2, <2>4, <3>2 DEF HeldBindingTyped
  <2> QED
    BY <2>3, <2>4
<1>3. CASE bindings' = bindings
  BY <1>3
<1> QED
  BY <1>1, <1>2, <1>3 DEF AttestationNext, attestationVars, Attest, Admit, AlterAttestation

(* What is held as an attestation keeps the fields of one.                 *)
LEMMA NextHeldAttestations ==
  ASSUME AttestationTypes, [AttestationNext]_attestationVars
  PROVE  (\A a \in AttestationIds :
            attestations[a] # None => HeldAttestationTyped(a, attestations[a]))'
<1> USE DEF AttestationTypes
<1>1. ASSUME NEW s \in Slots, NEW a \in AttestationIds, Attest(a, s),
             NEW d \in AttestationIds, attestations'[d] # None
      PROVE  HeldAttestationTyped(d, attestations'[d])
  <2> DEFINE given == Attestation(a, bindings[s])
  <2>1. PICK m \in {given, [given EXCEPT !.observed = FALSE],
                    [given EXCEPT !.complete = FALSE], [given EXCEPT !.summary = FALSE]} :
          attestations' = [attestations EXCEPT ![a] = m]
    BY <1>1 DEF Attest
  <2>2. /\ DOMAIN given = {"id", "observed", "complete", "target", "about", "summary"}
        /\ given.id = a /\ DOMAIN given.about = AttestedFields
    BY DEF Attestation
  <2> HIDE DEF given
  <2>3. HeldAttestationTyped(a, m)
    <3>1. /\ DOMAIN m = {"id", "observed", "complete", "target", "about", "summary"}
          /\ m.id = a /\ DOMAIN m.about = AttestedFields
      BY <2>1, <2>2
    <3> QED
      BY <3>1 DEF HeldAttestationTyped, ProviderCryptographicAttestationMaterial
  <2> QED
    BY <1>1, <2>1, <2>3 DEF AttestationShapes
<1>2. ASSUME NEW a \in AttestationIds, AlterAttestation(a),
             NEW d \in AttestationIds, attestations'[d] # None
      PROVE  HeldAttestationTyped(d, attestations'[d])
  <2>1. PICK f, v : attestations' = [attestations EXCEPT ![a].about[f] = v]
    BY <1>2 DEF AlterAttestation
  <2>2. attestations[a] # None
    BY <1>2 DEF AlterAttestation
  <2>3. CASE d # a
    BY <1>2, <2>1, <2>3 DEF AttestationShapes
  <2>4. CASE d = a
    <3>1. attestations'[a] = [attestations[a] EXCEPT !.about[f] = v]
      BY <2>1 DEF AttestationShapes
    <3>2. HeldAttestationTyped(a, attestations[a])
      BY <2>2
    <3> DEFINE m == attestations[a]
    <3>3. "about" \in DOMAIN m /\ "id" \in DOMAIN m
      BY <3>2 DEF HeldAttestationTyped, ProviderCryptographicAttestationMaterial
    <3> HIDE DEF m
    <3>4. /\ DOMAIN [m EXCEPT !.about[f] = v] = DOMAIN m
          /\ [m EXCEPT !.about[f] = v].id = m.id
          /\ DOMAIN [m EXCEPT !.about[f] = v].about = DOMAIN m.about
      BY <3>3
    <3> QED
      BY <2>4, <3>1, <3>2, <3>4 DEF m, HeldAttestationTyped,
        ProviderCryptographicAttestationMaterial
  <2> QED
    BY <2>3, <2>4
<1>3. CASE attestations' = attestations
  BY <1>3
<1> QED
  BY <1>1, <1>2, <1>3 DEF AttestationNext, attestationVars, BindOperation, Admit, AlterBinding

(* Bindings, attestations and admissions have the fields their types       *)
(* declare, a digest exactly when bound and a material exactly when        *)
(* admitted.                                                               *)
THEOREM AttestationsTyped == AttestationSpec => []AttestationTypeOK
<1>1. AttestationInit => AttestationTypes
  BY InitAttestationIInv DEF AttestationIInv, AttestationInit, AttestationTypes
<1>2. AttestationTypes /\ [AttestationNext]_attestationVars => AttestationTypes'
  <2> SUFFICES ASSUME AttestationTypes, [AttestationNext]_attestationVars
               PROVE  AttestationTypes'
    OBVIOUS
  <2>1. AttestationShapes'
    BY NextAttestationShapes DEF AttestationTypes
  <2>2. (\A x \in admissions : ProviderCryptographicAttestationAdmissionResult(x.result))'
    <3>1. ASSUME NEW s \in Slots, NEW a \in AttestationIds, Admit(s, a)
          PROVE  \A x \in admissions' : ProviderCryptographicAttestationAdmissionResult(x.result)
      <4> DEFINE v == verifyAndAdmitProviderCryptographicAttestation(
                        bindings[s], attestations[a], TRUE)
                 y == [result |-> v, material |-> attestations[a], digest |-> bindings[s].digest]
      <4>1. v.status = "ADMITTED" /\ admissions' = admissions \union {y}
        BY <3>1 DEF Admit
      <4>2. attestations[a] # None
        BY <4>1, AdmittedAgrees
      <4>3. ProviderCryptographicAttestationAdmissionResult(v)
        BY <4>1, <4>2, AdmissionIsTyped DEF AttestationTypes
      <4> HIDE DEF v
      <4>4. y.result = v
        OBVIOUS
      <4> HIDE DEF y
      <4> QED
        BY <4>1, <4>3, <4>4 DEF AttestationTypes
    <3>2. CASE admissions' = admissions
      BY <3>2 DEF AttestationTypes
    <3> QED
      BY <3>1, <3>2 DEF AttestationNext, attestationVars, BindOperation, Attest, AlterBinding,
        AlterAttestation
  <2> QED
    BY <2>1, <2>2, NextHeldBindings, NextHeldAttestations DEF AttestationTypes
<1>3. AttestationTypes => AttestationTypeOK
  BY DEF AttestationTypes, AttestationTypeOK, AttestationShapes, HeldBindingTyped,
    HeldAttestationTyped
<1> QED
  BY <1>1, <1>2, <1>3, PTL DEF AttestationSpec

----------------------------------------------------------------------------

(* P9H to P9J.                                                             *)

CallSpec == CallInit /\ [][CallNext]_callVars

(* What an operation of the provider was asked to be.                      *)
AsRequested(c, operation) ==
  operation.operation = request[c].operation /\ operation.providerResourceId = request[c].resource

(* A surface that tells of an answer with an error, and gives nothing away.*)
SurfaceTells(answer, surface) ==
  /\ answer # None /\ TellsOfError(answer) =>
       surface # None /\ surface.retryable = answer.retryable
  /\ surface # None => ~containsUnsafeFailureMaterial(surface)

(* What the provider may answer.                                           *)
AnswerStands(answer, done) ==
  /\ answer \in RawProviderApiCallResult
  /\ answer.providerRawStatus = "OK" /\ ~TellsOfError(answer) => done # {}

HookTells(answer, h) ==
  /\ h.hookExposed => SurfaceTells(answer, h.failureSurface)
  /\ h.failureSurface # None => ~containsUnsafeFailureMaterial(h.failureSurface)
  /\ h.hookExposed => (h.providerCallCompleted <=> h.failureSurface = None)
  /\ h.providerCallCompleted => h.failureSurface = None /\ SurfaceTells(answer, None)

CallShapes ==
  /\ stage = [c \in Calls |-> stage[c]]
  /\ runtime = [c \in Calls |-> runtime[c]]
  /\ mapping = [c \in Calls |-> mapping[c]]
  /\ translation = [c \in Calls |-> translation[c]]
  /\ raw = [c \in Calls |-> raw[c]]
  /\ result = [c \in Calls |-> result[c]]
  /\ hook = [c \in Calls |-> hook[c]]
  /\ performed = [c \in Calls |-> performed[c]]

(* How far a call has come says what there is of it.                       *)
CallStaged(c) ==
  /\ stage[c] = "decided" => runtime[c].operation = request[c].operation
  /\ stage[c] \in {"new", "decided"} => performed[c] = {}
  /\ stage[c] = "sent" => translation[c].implementationRequestTranslated
  /\ stage[c] \notin {"new", "decided"} /\ translation[c].implementationRequestTranslated =>
       AsRequested(c, translation[c].implementationRequest)
  /\ stage[c] \in {"new", "decided", "prepared", "sent", "lost"} => raw[c] = None
  /\ stage[c] # "exposed" => hook[c] = None

CallTold(c) ==
  /\ \A p \in performed[c] : AsRequested(c, p)
  /\ raw[c] # None => AnswerStands(raw[c], performed[c])
  /\ /\ stage[c] = "translated"
     /\ result[c].call.providerApiCallExecuted
     /\ result[c].translated.resultTranslated
     => SurfaceTells(raw[c], SurfaceForAdapter(result[c]))
  /\ hook[c] # None => HookTells(raw[c], hook[c])

CallIInv == CallShapes /\ \A c \in Calls : CallStaged(c) /\ CallTold(c)

----------------------------------------------------------------------------

(* P9H repeats the operation asked for, whatever it decides.               *)
LEMMA RuntimeRepeatsOperation ==
  ASSUME NEW r, NEW d
  PROVE  ProviderRuntime(r, d).operation = r.operation
<1> DEFINE m == resolveProviderMapping(r)
           a == admitProviderRuntime(m, d.admit)
           e == executeProviderRuntime(a, r.operation, d.execute)
           v == verifyProviderRuntime(e, d.verify)
           g == generateProviderEvidence(v)
           f == classifyProviderFailure(g)
<1>1. "operation" \in DOMAIN e /\ e.operation = r.operation
  BY DEF executeProviderRuntime, Extended
<1> HIDE DEF e
<1>2. "operation" \in DOMAIN v /\ v.operation = r.operation
  BY <1>1 DEF verifyProviderRuntime, Extended
<1> HIDE DEF v
<1>3. "operation" \in DOMAIN g /\ g.operation = r.operation
  BY <1>2 DEF generateProviderEvidence, Extended
<1> HIDE DEF g
<1>4. "operation" \in DOMAIN f /\ f.operation = r.operation
  BY <1>3 DEF classifyProviderFailure, Extended
<1> HIDE DEF f
<1>5. bridgeProviderRecovery(f, d.bridge).operation = r.operation
  BY <1>4 DEF bridgeProviderRecovery, Extended
<1> QED
  BY <1>5 DEF ProviderRuntime, f, g, v, e, a, m

(* A translated request is the adapter's, of the runtime and resource      *)
(* given.                                                                  *)
LEMMA TranslatedAsRequested ==
  ASSUME NEW r, NEW resource, NEW m, NEW t,
         LET mapped == mapProviderAdapterRequest(r, resource, m)
         IN  translateProviderImplementationRequest(mapped.adapterRequest, t)
               .implementationRequestTranslated
  PROVE  LET mapped == mapProviderAdapterRequest(r, resource, m)
             asked  == translateProviderImplementationRequest(mapped.adapterRequest, t)
                         .implementationRequest
         IN  asked = ProviderAdapterRequest(r, resource)
<1> DEFINE mapped == mapProviderAdapterRequest(r, resource, m)
           a == mapped.adapterRequest
<1>1. a = ProviderAdapterRequest(r, resource) \/ a = None
  BY DEF mapProviderAdapterRequest, MappedAdapterRequest, MappingDenied
<1> HIDE DEF mapped, a
<1>2. AllOpen(TranslationGates(a, t))
  BY DEF a, mapped, translateProviderImplementationRequest, NotTranslatedRequest
<1>3. a # None
  <2>1. /\ 1 \in DOMAIN TranslationGates(a, t)
        /\ TranslationGates(a, t)[1][1] = (a # None)
    BY DEF TranslationGates
  <2> QED
    BY <1>2, <2>1, OpenGate
<1>4. translateProviderImplementationRequest(a, t).implementationRequest = a
  BY <1>2 DEF translateProviderImplementationRequest, TranslatedRequest
<1> QED
  BY <1>1, <1>3, <1>4 DEF a, mapped

(* P9I.3 to P9I.6 pass on what the surface given to them tells.            *)
LEMMA HookTellsAnswer ==
  ASSUME NEW m, NEW answer, NEW surface, SurfaceTells(answer, surface),
         NEW executeAllowed, NEW normalizeAllowed, NEW exposeAllowed
  PROVE  HookTells(answer,
           exposeProviderAdapterVerificationHook(
             preserveProviderAdapterFailureSurface(
               normalizeProviderAdapterResult(
                 executeProviderAdapter(m, executeAllowed, surface), normalizeAllowed)),
             exposeAllowed))
<1> DEFINE e == executeProviderAdapter(m, executeAllowed, surface)
           n == normalizeProviderAdapterResult(e, normalizeAllowed)
           p == preserveProviderAdapterFailureSurface(n)
           h == exposeProviderAdapterVerificationHook(p, exposeAllowed)
           fields == {"providerAdapterExecuted", "providerCallCompleted", "failureSurface"}
<1>1. /\ fields \subseteq DOMAIN e
      /\ e.providerAdapterExecuted =>
           e.failureSurface = surface /\ (e.providerCallCompleted <=> surface = None)
      /\ ~e.providerAdapterExecuted => e.failureSurface = None /\ ~e.providerCallCompleted
  <2>1. e = AdapterExecuted(m, surface) \/ \E reason : e = AdapterNotExecuted(m, reason)
    BY DEF executeProviderAdapter
  <2> HIDE DEF e
  <2>2. CASE e = AdapterExecuted(m, surface)
    BY <2>2 DEF AdapterExecuted
  <2>3. CASE \E reason : e = AdapterNotExecuted(m, reason)
    BY <2>3 DEF AdapterNotExecuted
  <2> QED
    BY <2>1, <2>2, <2>3
<1> HIDE DEF e
<1>2. /\ fields \union {"adapterResultNormalized"} \subseteq DOMAIN n
      /\ \A f \in fields : n[f] = e[f]
      /\ n.adapterResultNormalized = AllOpen(NormalizationGates(e, normalizeAllowed))
  BY <1>1 DEF normalizeProviderAdapterResult, Extended
<1>3. n.adapterResultNormalized => n.providerAdapterExecuted
  <2>1. /\ 1 \in DOMAIN NormalizationGates(e, normalizeAllowed)
        /\ NormalizationGates(e, normalizeAllowed)[1][1] = e.providerAdapterExecuted
    BY DEF NormalizationGates
  <2> HIDE DEF n
  <2> QED
    BY <1>2, <2>1, OpenGate
<1> HIDE DEF n
<1>4. /\ fields \union {"adapterResultNormalized"} \subseteq DOMAIN p
      /\ \A f \in fields \union {"adapterResultNormalized"} : p[f] = n[f]
  BY <1>2 DEF preserveProviderAdapterFailureSurface, Extended
<1> HIDE DEF p
<1>5. /\ \A f \in fields : h[f] = p[f]
      /\ h.hookExposed = AllOpen(HookGates(p, exposeAllowed))
  BY <1>4 DEF exposeProviderAdapterVerificationHook, Extended
<1>6. h.hookExposed => p.adapterResultNormalized
  <2>1. /\ 1 \in DOMAIN HookGates(p, exposeAllowed)
        /\ HookGates(p, exposeAllowed)[1][1] = p.adapterResultNormalized
    BY DEF HookGates
  <2> HIDE DEF h
  <2> QED
    BY <1>5, <2>1, OpenGate
<1>7. /\ h.failureSurface = e.failureSurface
      /\ h.providerCallCompleted = e.providerCallCompleted
      /\ h.hookExposed => e.providerAdapterExecuted
  BY <1>2, <1>3, <1>4, <1>5, <1>6
<1> HIDE DEF h
<1>8. HookTells(answer, h)
  BY <1>1, <1>7 DEF HookTells, SurfaceTells
<1> QED
  BY <1>8 DEF h, p, n, e

(* The surfaces made of a failed answer have the fields of their types and *)
(* repeat whether it may be tried again.                                   *)
LEMMA SurfaceOfFailure ==
  ASSUME NEW answer \in RawProviderApiCallResult
  PROVE  LET s == buildFailureSurfaceFromRawResult(answer)
         IN  /\ s \in RawFailureSurface
             /\ translateFailureSurface(s) \in TranslatedFailureSurface
             /\ sanitizeFailureSurface(s) \in SanitizedFailureSurface
             /\ translateFailureSurface(s).retryable = answer.retryable
             /\ sanitizeFailureSurface(s).retryable = answer.retryable
<1> DEFINE s == buildFailureSurfaceFromRawResult(answer)
           t == translateFailureSurface(s)
           z == sanitizeFailureSurface(s)
<1>1. /\ DOMAIN answer = {"providerRawStatus", "providerRawErrorCode", "providerRawErrorMessage",
                          "providerRawDiagnostic", "retryable"}
      /\ answer.providerRawStatus \in ProviderRawStatus /\ answer.providerRawErrorCode \in BOOLEAN
      /\ answer.providerRawErrorMessage \in BOOLEAN /\ answer.providerRawDiagnostic \in BOOLEAN
      /\ answer.retryable \in BOOLEAN
  BY DEF RawProviderApiCallResult
<1>2. s = [failureCode |-> "PROVIDER_SDK_UNKNOWN_FAILURE",
           providerRawStatus |-> answer.providerRawStatus,
           providerRawErrorCode |-> answer.providerRawErrorCode,
           providerRawErrorMessage |-> answer.providerRawErrorMessage,
           providerRawDiagnostic |-> answer.providerRawDiagnostic, retryable |-> answer.retryable]
  BY <1>1 DEF buildFailureSurfaceFromRawResult, Extended
<1>3. s \in RawFailureSurface
  BY <1>1, <1>2 DEF RawFailureSurface
<1> HIDE DEF s
<1>4. t = [failureCode |-> "PROVIDER_SDK_UNKNOWN_FAILURE",
           providerRawStatus |-> answer.providerRawStatus,
           providerRawErrorCode |-> answer.providerRawErrorCode, retryable |-> answer.retryable]
  BY <1>2 DEF translateFailureSurface
<1>5. t \in TranslatedFailureSurface /\ t.retryable = answer.retryable
  BY <1>1, <1>4 DEF TranslatedFailureSurface
<1>6. buildSanitizedErrorMessage(s) = "failed"
  <2>1. s.failureCode = "PROVIDER_SDK_UNKNOWN_FAILURE"
    BY <1>2
  <2> QED
    BY <2>1 DEF buildSanitizedErrorMessage
<1> HIDE DEF t
<1>7. z = [failureCode |-> "PROVIDER_SDK_UNKNOWN_FAILURE",
           providerRawStatus |-> answer.providerRawStatus,
           providerRawErrorCode |-> answer.providerRawErrorCode, retryable |-> answer.retryable,
           providerSanitizedErrorMessage |-> "failed"]
  BY <1>4, <1>6 DEF sanitizeFailureSurface, Extended, t
<1>8. z \in SanitizedFailureSurface /\ z.retryable = answer.retryable
  BY <1>1, <1>7 DEF SanitizedFailureSurface
<1> QED
  BY <1>3, <1>5, <1>8 DEF s, t, z

(* A translated or sanitized surface is there and has no unsafe key.       *)
LEMMA SafeSurface ==
  ASSUME NEW s \in TranslatedFailureSurface \union SanitizedFailureSurface
  PROVE  s # None /\ ~containsUnsafeFailureMaterial(s)
BY CallNoneAssumption
DEF TranslatedFailureSurface, SanitizedFailureSurface, containsUnsafeFailureMaterial, UnsafeKeys

(* What P9J.3 to P9J.5 leave the adapter with tells of a failed answer.    *)
LEMMA ResultTells ==
  ASSUME NEW t, NEW answer, NEW done, answer = None \/ AnswerStands(answer, done),
         NEW callAllowed, NEW translateAllowed, NEW sanitizeAllowed,
         LET call == executeProviderApiCall(t, callAllowed, answer)
         IN  /\ call.providerApiCallExecuted
             /\ translateProviderResult(call, translateAllowed).resultTranslated
  PROVE  LET call == executeProviderApiCall(t, callAllowed, answer)
             translated == translateProviderResult(call, translateAllowed)
             sanitized == sanitizeProviderError(translated, sanitizeAllowed)
         IN  SurfaceTells(answer, SurfaceForAdapter([call |-> call, translated |-> translated,
                                                     sanitized |-> sanitized]))
<1> DEFINE call == executeProviderApiCall(t, callAllowed, answer)
           tr == translateProviderResult(call, translateAllowed)
           z == sanitizeProviderError(tr, sanitizeAllowed)
           r == [call |-> call, translated |-> tr, sanitized |-> z]
           completed == RawCallCompleted(answer)
           s == buildFailureSurfaceFromRawResult(answer)
<1>1. call = ApiCallExecuted(answer)
  <2>1. call = ApiCallExecuted(answer) \/ \E reason : call = ApiCallNotExecuted(reason)
    BY DEF executeProviderApiCall
  <2>2. call.providerApiCallExecuted
    OBVIOUS
  <2> HIDE DEF call
  <2> QED
    BY <2>1, <2>2 DEF ApiCallNotExecuted
<1>2. tr = TranslatedResult(call)
  <2>1. tr = TranslatedResult(call) \/ \E reason : tr = NotTranslatedResult(call, reason)
    BY DEF translateProviderResult
  <2>2. tr.resultTranslated
    OBVIOUS
  <2> HIDE DEF tr
  <2> QED
    BY <2>1, <2>2 DEF NotTranslatedResult
<1> HIDE DEF call, tr
<1>3. /\ call.failureSurface = IF completed THEN None ELSE s
      /\ call.requiresErrorSanitization = ~completed
  BY <1>1 DEF ApiCallExecuted
<1>4. /\ tr.resultTranslated
      /\ tr.translatedResult.requiresErrorSanitization = call.requiresErrorSanitization
      /\ tr.translatedResult.failureSurface = call.failureSurface
      /\ tr.translatedFailureSurface = IF call.failureSurface = None THEN None
                                       ELSE translateFailureSurface(call.failureSurface)
  BY <1>2 DEF TranslatedResult, TranslatedProviderResult
<1>5. \/ z.sanitizedOutput = None
      \/ /\ call.requiresErrorSanitization
         /\ z.sanitizedOutput.failureSurface = sanitizeFailureSurface(call.failureSurface)
      \/ /\ ~call.requiresErrorSanitization
         /\ z.sanitizedOutput.failureSurface = None
  BY <1>4 DEF sanitizeProviderError, NotSanitized, SanitizationNotRequired, Sanitized
<1> HIDE DEF z
<1>6. SurfaceForAdapter(r) = IF z.sanitizedOutput # None THEN z.sanitizedOutput.failureSurface
                             ELSE tr.translatedFailureSurface
  BY DEF SurfaceForAdapter
<1> HIDE DEF r
<1>7. CASE completed
  <2>1. SurfaceForAdapter(r) = None
    BY <1>3, <1>4, <1>5, <1>6, <1>7
  <2>2. ~(answer # None /\ TellsOfError(answer))
    BY <1>7 DEF RawCallCompleted, TellsOfError
  <2> QED
    BY <2>1, <2>2 DEF SurfaceTells, r, call, tr, z
<1>8. CASE ~completed
  <2>1. answer \in RawProviderApiCallResult
    BY <1>8 DEF RawCallCompleted, AnswerStands
  <2>2. s # None
    BY <2>1, SurfaceOfFailure, CallNoneAssumption
  <2>3. SurfaceForAdapter(r) \in {translateFailureSurface(s), sanitizeFailureSurface(s)}
    BY <1>3, <1>4, <1>5, <1>6, <1>8, <2>2
  <2> HIDE DEF s
  <2>4. /\ SurfaceForAdapter(r) \in TranslatedFailureSurface \union SanitizedFailureSurface
        /\ SurfaceForAdapter(r).retryable = answer.retryable
    BY <2>1, <2>3, SurfaceOfFailure DEF s
  <2> QED
    BY <2>4, SafeSurface DEF SurfaceTells, r, call, tr, z
<1> QED
  BY <1>7, <1>8

----------------------------------------------------------------------------
(* The invariant of provider calls holds before the first.                 *)
LEMMA InitCallIInv == CallInit => CallIInv
<1> SUFFICES ASSUME CallInit PROVE CallIInv
  OBVIOUS
<1>1. CallShapes
  BY DEF CallInit, CallShapes
<1>2. \A c \in Calls : CallStaged(c) /\ CallTold(c)
  BY DEF CallInit, CallStaged, CallTold
<1> QED
  BY <1>1, <1>2 DEF CallIInv

(* What there is of the calls stays held by call.                          *)
LEMMA NextCallShapes ==
  ASSUME CallShapes, [CallNext]_callVars
  PROVE  CallShapes'
<1>1. ASSUME NEW c \in Calls,
             Decide(c) \/ Prepare(c) \/ Send(c) \/ Perform(c) \/ Answer(c) \/ Lose(c)
               \/ Translate(c) \/ Expose(c)
      PROVE  CallShapes'
  <2>1. CASE Decide(c)
    BY <2>1 DEF CallShapes, Decide
  <2>2. CASE Prepare(c)
    BY <2>2 DEF CallShapes, Prepare
  <2>3. CASE Send(c) \/ Lose(c)
    BY <2>3 DEF CallShapes, Send, Lose
  <2>4. CASE Perform(c)
    BY <2>4 DEF CallShapes, Perform
  <2>5. CASE Answer(c)
    BY <2>5 DEF CallShapes, Answer
  <2>6. CASE Translate(c)
    BY <2>6 DEF CallShapes, Translate
  <2>7. CASE Expose(c)
    BY <2>7 DEF CallShapes, Expose
  <2> QED
    BY <1>1, <2>1, <2>2, <2>3, <2>4, <2>5, <2>6, <2>7
<1>2. CASE UNCHANGED callVars
  BY <1>2 DEF CallShapes, callVars
<1> QED
  BY <1>1, <1>2 DEF CallNext

(* A step of one call leaves what there is of the others alone.            *)
LEMMA OtherCalls ==
  ASSUME CallShapes, NEW c \in Calls, NEW d \in Calls, d # c,
         Decide(c) \/ Prepare(c) \/ Send(c) \/ Perform(c) \/ Answer(c) \/ Lose(c)
           \/ Translate(c) \/ Expose(c)
  PROVE  /\ stage'[d] = stage[d] /\ request'[d] = request[d] /\ runtime'[d] = runtime[d]
         /\ translation'[d] = translation[d] /\ raw'[d] = raw[d] /\ result'[d] = result[d]
         /\ hook'[d] = hook[d] /\ performed'[d] = performed[d]
<1>1. CASE Decide(c)
  BY <1>1 DEF CallShapes, Decide
<1>2. CASE Prepare(c)
  BY <1>2 DEF CallShapes, Prepare
<1>3. CASE Send(c) \/ Lose(c)
  BY <1>3 DEF CallShapes, Send, Lose
<1>4. CASE Perform(c)
  BY <1>4 DEF CallShapes, Perform
<1>5. CASE Answer(c)
  BY <1>5 DEF CallShapes, Answer
<1>6. CASE Translate(c)
  BY <1>6 DEF CallShapes, Translate
<1>7. CASE Expose(c)
  BY <1>7 DEF CallShapes, Expose
<1> QED
  BY <1>1, <1>2, <1>3, <1>4, <1>5, <1>6, <1>7

(* P9H keeps the invariant of its call.                                    *)
LEMMA DecideKeeps ==
  ASSUME CallShapes, NEW c \in Calls, CallStaged(c), CallTold(c), Decide(c)
  PROVE  CallStaged(c)' /\ CallTold(c)'
<1>1. PICK d \in RuntimeDecisions :
        runtime' = [runtime EXCEPT ![c] = ProviderRuntime(request[c], d)]
  BY DEF Decide
<1>2. /\ stage[c] = "new" /\ stage'[c] = "decided"
      /\ runtime'[c] = ProviderRuntime(request[c], d)
  BY <1>1 DEF Decide, CallShapes
<1>3. /\ request' = request /\ performed' = performed /\ raw' = raw /\ hook' = hook
      /\ translation' = translation /\ result' = result
  BY DEF Decide
<1>4. runtime'[c].operation = request[c].operation
  BY <1>2, RuntimeRepeatsOperation
<1> QED
  BY <1>2, <1>3, <1>4 DEF CallStaged, CallTold, AsRequested

(* P9I.2 and P9J.2 keep it: what is asked is what was requested.           *)
LEMMA PrepareKeeps ==
  ASSUME CallShapes, NEW c \in Calls, CallStaged(c), CallTold(c), Prepare(c)
  PROVE  CallStaged(c)' /\ CallTold(c)'
<1>1. PICK m \in Decision, t \in Decision :
        translation' = [translation EXCEPT ![c] =
          translateProviderImplementationRequest(
            mapProviderAdapterRequest(runtime[c], request[c].resource, m).adapterRequest, t)]
  BY DEF Prepare
<1>2. /\ stage[c] = "decided" /\ stage'[c] = "prepared"
      /\ translation'[c] = translateProviderImplementationRequest(
            mapProviderAdapterRequest(runtime[c], request[c].resource, m).adapterRequest, t)
  BY <1>1 DEF Prepare, CallShapes
<1>3. /\ request' = request /\ performed' = performed /\ raw' = raw /\ hook' = hook
      /\ runtime' = runtime /\ result' = result
  BY DEF Prepare
<1> DEFINE t1 == translation'[c]
<1>4. runtime[c].operation = request[c].operation
  BY <1>2 DEF CallStaged
<1>5. t1.implementationRequestTranslated =>
        /\ t1.implementationRequest.operation = runtime[c].operation
        /\ t1.implementationRequest.providerResourceId = request[c].resource
  <2>1. t1.implementationRequestTranslated =>
          t1.implementationRequest = ProviderAdapterRequest(runtime[c], request[c].resource)
    BY <1>2, TranslatedAsRequested
  <2> QED
    BY <2>1 DEF ProviderAdapterRequest
<1>6. t1.implementationRequestTranslated => AsRequested(c, t1.implementationRequest)
  BY <1>4, <1>5 DEF AsRequested
<1> QED
  BY <1>2, <1>3, <1>6 DEF CallStaged, CallTold, AsRequested

(* Sending and losing a call keep it.                                      *)
LEMMA SendKeeps ==
  ASSUME CallShapes, NEW c \in Calls, CallStaged(c), CallTold(c), Send(c) \/ Lose(c)
  PROVE  CallStaged(c)' /\ CallTold(c)'
<1>1. /\ \/ /\ stage[c] = "prepared" /\ stage'[c] = "sent"
            /\ translation[c].implementationRequestTranslated
         \/ stage[c] = "sent" /\ stage'[c] = "lost"
      /\ request' = request /\ performed' = performed /\ raw' = raw /\ hook' = hook
      /\ runtime' = runtime /\ result' = result /\ translation' = translation
  BY DEF Send, Lose, CallShapes
<1> QED
  BY <1>1 DEF CallStaged, CallTold, AsRequested

(* The provider keeps it: it performs what it was asked.                   *)
LEMMA PerformKeeps ==
  ASSUME CallShapes, NEW c \in Calls, CallStaged(c), CallTold(c), Perform(c)
  PROVE  CallStaged(c)' /\ CallTold(c)'
<1>1. /\ stage[c] = "sent" /\ stage' = stage
      /\ performed'[c] = performed[c] \union {translation[c].implementationRequest}
      /\ request' = request /\ raw' = raw /\ hook' = hook
      /\ runtime' = runtime /\ result' = result /\ translation' = translation
  BY DEF Perform, CallShapes
<1>2. raw[c] = None /\ hook[c] = None /\ AsRequested(c, translation[c].implementationRequest)
  BY <1>1 DEF CallStaged
<1> QED
  BY <1>1, <1>2 DEF CallStaged, CallTold, AsRequested

(* An answer keeps it.                                                     *)
LEMMA AnswerKeeps ==
  ASSUME CallShapes, NEW c \in Calls, CallStaged(c), CallTold(c), Answer(c)
  PROVE  CallStaged(c)' /\ CallTold(c)'
<1>1. PICK answer \in RawProviderApiCallResult :
        AnswerStands(answer, performed[c]) /\ raw' = [raw EXCEPT ![c] = answer]
  BY DEF Answer, AnswerStands
<1>2. /\ stage[c] = "sent" /\ stage'[c] = "answered" /\ raw'[c] = answer
      /\ request' = request /\ performed' = performed /\ hook' = hook
      /\ runtime' = runtime /\ result' = result /\ translation' = translation
  BY <1>1 DEF Answer, CallShapes
<1>3. hook[c] = None
  BY <1>2 DEF CallStaged
<1> QED
  BY <1>1, <1>2, <1>3 DEF CallStaged, CallTold, AsRequested

(* P9J.3 to P9J.5 keep it.                                                 *)
LEMMA TranslateKeeps ==
  ASSUME CallShapes, NEW c \in Calls, CallStaged(c), CallTold(c), Translate(c)
  PROVE  CallStaged(c)' /\ CallTold(c)'
<1>1. PICK a \in Decision, t \in Decision, z \in Decision :
        result' = [result EXCEPT ![c] =
          [call |-> executeProviderApiCall(translation[c], a, raw[c]),
           translated |-> translateProviderResult(
                            executeProviderApiCall(translation[c], a, raw[c]), t),
           sanitized |-> sanitizeProviderError(
                           translateProviderResult(
                             executeProviderApiCall(translation[c], a, raw[c]), t), z)]]
  BY DEF Translate
<1>2. /\ stage[c] \in {"prepared", "answered", "lost"} /\ stage'[c] = "translated"
      /\ request' = request /\ performed' = performed /\ hook' = hook /\ raw' = raw
      /\ runtime' = runtime /\ translation' = translation
  BY <1>1 DEF Translate, CallShapes
<1>3. hook[c] = None
  BY <1>2 DEF CallStaged
<1> DEFINE r == [call |-> executeProviderApiCall(translation[c], a, raw[c]),
                 translated |-> translateProviderResult(
                            executeProviderApiCall(translation[c], a, raw[c]), t),
                 sanitized |-> sanitizeProviderError(
                           translateProviderResult(
                             executeProviderApiCall(translation[c], a, raw[c]), t), z)]
<1>4. result'[c] = r
  BY <1>1 DEF CallShapes
<1>5. raw[c] = None \/ AnswerStands(raw[c], performed[c])
  BY DEF CallTold
<1>6. r.call.providerApiCallExecuted /\ r.translated.resultTranslated =>
        SurfaceTells(raw[c], SurfaceForAdapter(r))
  BY <1>5, ResultTells
<1> HIDE DEF r
<1> QED
  BY <1>2, <1>3, <1>4, <1>6 DEF CallStaged, CallTold, AsRequested

(* P9I.3 to P9I.6 keep it.                                                 *)
LEMMA ExposeKeeps ==
  ASSUME CallShapes, NEW c \in Calls, CallStaged(c), CallTold(c), Expose(c)
  PROVE  CallStaged(c)' /\ CallTold(c)'
<1> DEFINE surface == SurfaceForAdapter(result[c])
<1>1. PICK e \in Decision, n \in Decision, x \in Decision :
        hook' = [hook EXCEPT ![c] =
          exposeProviderAdapterVerificationHook(
            preserveProviderAdapterFailureSurface(
              normalizeProviderAdapterResult(
                executeProviderAdapter(mapping[c], e, surface), n)), x)]
  BY DEF Expose
<1>2. /\ stage[c] = "translated" /\ stage'[c] = "exposed"
      /\ request' = request /\ performed' = performed /\ raw' = raw /\ result' = result
      /\ runtime' = runtime /\ translation' = translation
  BY <1>1 DEF Expose, CallShapes
<1>3. SurfaceTells(raw[c], surface)
  BY DEF Expose, CallTold
<1> HIDE DEF surface
<1>4. HookTells(raw[c], hook'[c])
  BY <1>1, <1>3, HookTellsAnswer DEF CallShapes
<1> QED
  BY <1>2, <1>4 DEF CallStaged, CallTold, AsRequested

(* Every step of every call keeps the invariant of all.                    *)
LEMMA NextCallIInv ==
  ASSUME CallIInv, [CallNext]_callVars
  PROVE  CallIInv'
<1> USE DEF CallIInv
<1>1. CallShapes'
  BY NextCallShapes
<1>2. \A c \in Calls : CallStaged(c) /\ CallTold(c)
  OBVIOUS
<1>3. \A c \in Calls : CallStaged(c)' /\ CallTold(c)'
  <2>1. CASE UNCHANGED callVars
    BY <1>2, <2>1 DEF callVars, CallStaged, CallTold, AsRequested
  <2>2. ASSUME NEW c \in Calls, NEW d \in Calls,
               Decide(c) \/ Prepare(c) \/ Send(c) \/ Perform(c) \/ Answer(c) \/ Lose(c)
                 \/ Translate(c) \/ Expose(c)
        PROVE  CallStaged(d)' /\ CallTold(d)'
    <3>1. CASE d # c
      BY <1>2, <2>2, <3>1, OtherCalls DEF CallStaged, CallTold, AsRequested
    <3>2. CASE d = c
      BY <1>2, <2>2, <3>2, DecideKeeps, PrepareKeeps, SendKeeps, PerformKeeps, AnswerKeeps,
         TranslateKeeps, ExposeKeeps
    <3> QED
      BY <3>1, <3>2
  <2> QED
    BY <2>1, <2>2 DEF CallNext
<1> QED
  BY <1>1, <1>3

(* An answer with an error, whatever its status and its other fields,      *)
(* reaches the verification hook as a call that did not complete, with a   *)
(* surface that says whether to retry and gives nothing else away, for any *)
(* calls and requests and whatever is decided at any stage.                *)
THEOREM FailuresReachTheHook == CallSpec => []FailureNotMasked
<1>1. CallIInv => FailureNotMasked
  <2> SUFFICES ASSUME CallIInv, NEW c \in Calls, hook[c] # None
               PROVE  /\ hook[c].hookExposed /\ raw[c] # None /\ TellsOfError(raw[c]) =>
                           /\ ~hook[c].providerCallCompleted
                           /\ hook[c].failureSurface # None
                           /\ hook[c].failureSurface.retryable = raw[c].retryable
                      /\ hook[c].failureSurface # None =>
                           ~containsUnsafeFailureMaterial(hook[c].failureSurface)
    BY DEF FailureNotMasked
  <2>1. HookTells(raw[c], hook[c])
    BY DEF CallIInv, CallTold
  <2> QED
    BY <2>1 DEF HookTells, SurfaceTells
<1>2. CallIInv /\ [CallNext]_callVars => CallIInv'
  BY NextCallIInv
<1> QED
  BY <1>1, <1>2, InitCallIInv, PTL DEF CallSpec

(* A call the hook says was completed, and that was answered, is one the   *)
(* provider performed as it was asked, or its answer was silent, for any   *)
(* answers of a provider that says "OK" only of what it did.               *)
THEOREM CompletionsArePerformed == CallSpec => []CompletedCallWasPerformed
<1>1. CallIInv => CompletedCallWasPerformed
  <2> SUFFICES ASSUME CallIInv, NEW c \in Calls, hook[c] # None, hook[c].providerCallCompleted,
                      raw[c] # None, ~Silent(raw[c])
               PROVE  \E p \in performed[c] : AsRequested(c, p)
    BY DEF CompletedCallWasPerformed, AsRequested
  <2>1. HookTells(raw[c], hook[c]) /\ AnswerStands(raw[c], performed[c])
    BY DEF CallIInv, CallTold
  <2>2. raw[c].providerRawStatus = "OK" /\ ~TellsOfError(raw[c])
    BY <2>1 DEF HookTells, SurfaceTells, Silent
  <2>3. performed[c] # {}
    BY <2>1, <2>2 DEF AnswerStands
  <2> QED
    BY <2>3 DEF CallIInv, CallTold
<1>2. CallIInv /\ [CallNext]_callVars => CallIInv'
  BY NextCallIInv
<1> QED
  BY <1>1, <1>2, InitCallIInv, PTL DEF CallSpec

MappingFields ==
  {"providerContract", "providerImplementation", "providerEnabled", "mappingValidated",
   "providerResolved"}

RuntimeTyped(r, asked) ==
  /\ DOMAIN r = ProviderFailureFields \union {"recoveryBridgeOpen", "recoveryRequirement"}
  /\ \A f \in MappingFields : r[f] = resolveProviderMapping(asked)[f]
  /\ r.operation = asked.operation

(* The result of P9H.1 has the fields of its type.                         *)
LEMMA MappingTyped ==
  ASSUME NEW asked \in RequestShape
  PROVE  resolveProviderMapping(asked) \in ProviderMappingResult
<1> DEFINE gates == << <<asked.enabled, "PROVIDER_DISABLED">>,
              <<asked.implementation \in SUPPORTED_PROVIDER_MAPPINGS[asked.contract],
                "PROVIDER_NOT_SUPPORTED">> >>
<1>1. /\ asked.contract \in ProviderContracts /\ asked.implementation \in ProviderImplementations
      /\ asked.enabled \in BOOLEAN
  BY DEF RequestShape
<1>2. ReasonOr(gates, None) \in {"PROVIDER_DISABLED", "PROVIDER_NOT_SUPPORTED", None}
  <2> DEFINE on == asked.enabled
             supported == asked.implementation \in SUPPORTED_PROVIDER_MAPPINGS[asked.contract]
  <2>1. on \in BOOLEAN /\ supported \in BOOLEAN
    BY <1>1
  <2> HIDE DEF on, supported
  <2>2. ReasonOr(<< <<on, "PROVIDER_DISABLED">>, <<supported, "PROVIDER_NOT_SUPPORTED">> >>, None)
          \in {"PROVIDER_DISABLED", "PROVIDER_NOT_SUPPORTED", None}
    BY <2>1, TwoGates
  <2> QED
    BY <2>2 DEF on, supported
<1>3. AllOpen(gates) \in BOOLEAN
  BY DEF AllOpen
<1>4. resolveProviderMapping(asked) =
       [providerContract |-> asked.contract, providerImplementation |-> asked.implementation,
        providerEnabled |-> asked.enabled, mappingValidated |-> AllOpen(gates),
        providerResolved |-> AllOpen(gates), reason |-> ReasonOr(gates, None)]
  BY DEF resolveProviderMapping
<1> HIDE DEF gates
<1> QED
  BY <1>1, <1>2, <1>3, <1>4 DEF ProviderMappingResult

(* The end of P9H has the fields of all its stages, and repeats the        *)
(* mapping.                                                                *)
LEMMA RuntimeIsTyped ==
  ASSUME NEW asked, NEW d
  PROVE  RuntimeTyped(ProviderRuntime(asked, d), asked)
<1> DEFINE m == resolveProviderMapping(asked)
           a == admitProviderRuntime(m, d.admit)
           e == executeProviderRuntime(a, asked.operation, d.execute)
           v == verifyProviderRuntime(e, d.verify)
           g == generateProviderEvidence(v)
           f == classifyProviderFailure(g)
           b == bridgeProviderRecovery(f, d.bridge)
<1>1. DOMAIN m = MappingFields \union {"reason"}
  BY DEF resolveProviderMapping, MappingFields
<1> HIDE DEF m
<1>2. /\ DOMAIN a = MappingFields \union {"reason", "providerAdmitted"}
      /\ \A k \in MappingFields : a[k] = m[k]
  BY <1>1 DEF admitProviderRuntime, Extended, MappingFields
<1> HIDE DEF a
<1>3. /\ DOMAIN e = ProviderExecutionFields
      /\ \A k \in MappingFields : e[k] = m[k]
  BY <1>2 DEF executeProviderRuntime, Extended, MappingFields, ProviderExecutionFields
<1> HIDE DEF e
<1>4. /\ DOMAIN v = ProviderVerificationFields
      /\ \A k \in MappingFields : v[k] = m[k]
  BY <1>3 DEF verifyProviderRuntime, Extended, MappingFields, ProviderExecutionFields,
    ProviderVerificationFields
<1> HIDE DEF v
<1>5. /\ DOMAIN g = ProviderVerificationFields \union {"providerEvidenceGenerated"}
      /\ \A k \in MappingFields : g[k] = m[k]
  BY <1>4 DEF generateProviderEvidence, Extended, MappingFields, ProviderExecutionFields,
    ProviderVerificationFields
<1> HIDE DEF g
<1>6. /\ DOMAIN f = ProviderFailureFields
      /\ \A k \in MappingFields : f[k] = m[k]
  <2>1. "reason" \in DOMAIN g /\ DOMAIN f = DOMAIN g \union
          {"providerFailureClassified", "failureClassification", "failureSeverity"}
    BY <1>5 DEF classifyProviderFailure, Extended, ProviderExecutionFields,
      ProviderVerificationFields
  <2>2. \A k \in DOMAIN g \ {"providerFailureClassified", "failureClassification",
                             "failureSeverity"} : f[k] = g[k]
    BY DEF classifyProviderFailure, Extended
  <2> HIDE DEF f
  <2> QED
    BY <1>5, <2>1, <2>2 DEF MappingFields, ProviderExecutionFields,
      ProviderVerificationFields, ProviderFailureFields
<1> HIDE DEF f
<1>7. /\ DOMAIN b = ProviderFailureFields \union {"recoveryBridgeOpen", "recoveryRequirement"}
      /\ \A k \in MappingFields : b[k] = m[k]
  <2>1. DOMAIN b = DOMAIN f \union {"recoveryBridgeOpen", "recoveryRequirement", "reason"}
    BY DEF bridgeProviderRecovery, Extended
  <2>2. \A k \in DOMAIN f \ {"recoveryBridgeOpen", "recoveryRequirement", "reason"} : b[k] = f[k]
    BY DEF bridgeProviderRecovery, Extended
  <2> HIDE DEF b
  <2>3. MappingFields \subseteq ProviderFailureFields /\ "reason" \in ProviderFailureFields
        /\ MappingFields \cap {"recoveryBridgeOpen", "recoveryRequirement", "reason"} = {}
    BY DEF MappingFields, ProviderExecutionFields, ProviderVerificationFields,
      ProviderFailureFields
  <2> QED
    BY <1>6, <2>1, <2>2, <2>3
<1>8. b = ProviderRuntime(asked, d)
  BY DEF ProviderRuntime, b, f, g, v, e, a, m
<1> HIDE DEF b
<1> QED
  BY <1>7, <1>8, RuntimeRepeatsOperation DEF RuntimeTyped, m

(* What P9J.5 is given of a call.                                          *)
TranslationSound(tr) ==
  tr.resultTranslated =>
    LET surface == tr.translatedResult.failureSurface
    IN  /\ tr.translatedResult.requiresErrorSanitization \in BOOLEAN
        /\ surface # None => surface \in RawFailureSurface
                               /\ sanitizeFailureSurface(surface) \in SanitizedFailureSurface

(* A result that is not sanitized has a reason and no output.              *)
LEMMA NotSanitizedTyped ==
  ASSUME NEW required, NEW reason \in ProviderErrorSanitizationDenialReason
  PROVE  ProviderErrorSanitizationResult(NotSanitized(required, reason))
<1>1. reason # None
  BY CallNoneAssumption
<1> QED
  BY <1>1 DEF NotSanitized, ProviderErrorSanitizationResult

(* The end of P9J.5 has an output exactly when it has no reason.           *)
LEMMA SanitizationTyped ==
  ASSUME NEW tr, TranslationSound(tr), NEW allowed
  PROVE  ProviderErrorSanitizationResult(sanitizeProviderError(tr, allowed))
<1> DEFINE surface == tr.translatedResult.failureSurface
           gates == SanitizationGates(surface, allowed)
           z == sanitizeProviderError(tr, allowed)
<1>1. ASSUME NEW required, NEW reason \in ProviderErrorSanitizationDenialReason, z = NotSanitized(required, reason)
      PROVE  ProviderErrorSanitizationResult(z)
  BY <1>1, NotSanitizedTyped
<1>2. CASE ~tr.resultTranslated
  <2>1. z = NotSanitized(FALSE, "PROVIDER_RESULT_NOT_TRANSLATED")
    BY <1>2 DEF sanitizeProviderError
  <2> HIDE DEF z
  <2> QED
    BY <2>1, <1>1 DEF z, ProviderErrorSanitizationDenialReason
<1>3. CASE tr.resultTranslated /\ ~tr.translatedResult.requiresErrorSanitization
  <2>1. z = SanitizationNotRequired(tr)
    BY <1>3 DEF sanitizeProviderError
  <2> HIDE DEF z
  <2>2. /\ z.sanitizedOutput = [adapterCompatible |-> TRUE, failureSurface |-> None]
        /\ z.reason = None /\ z.providerErrorSanitized = FALSE
    BY <2>1 DEF SanitizationNotRequired
  <2>3. z.sanitizedOutput \in SanitizedProviderOutput
    BY <2>2 DEF SanitizedProviderOutput
  <2> QED
    BY <2>2, <2>3, CallNoneAssumption DEF ProviderErrorSanitizationResult, z
<1>4. CASE tr.resultTranslated /\ tr.translatedResult.requiresErrorSanitization /\ AllOpen(gates)
  <2>1. z = Sanitized(tr)
    BY <1>4 DEF sanitizeProviderError
  <2>2. surface # None
    <3>1. 2 \in DOMAIN gates /\ gates[2][1] = (surface # None)
      BY DEF SanitizationGates
    <3> QED
      BY <3>1, <1>4, OpenGate
  <2> HIDE DEF z
  <2>3. /\ z.sanitizedOutput = [adapterCompatible |-> TRUE,
                                failureSurface |-> sanitizeFailureSurface(surface)]
        /\ z.reason = None /\ z.providerErrorSanitized /\ z.sanitizationRequired
    BY <2>1 DEF Sanitized
  <2>4. z.sanitizedOutput \in SanitizedProviderOutput
    BY <1>4, <2>2, <2>3 DEF SanitizedProviderOutput, TranslationSound
  <2> QED
    BY <2>3, <2>4, CallNoneAssumption DEF ProviderErrorSanitizationResult, z
<1>5. CASE /\ tr.resultTranslated /\ tr.translatedResult.requiresErrorSanitization
           /\ ~AllOpen(gates)
  <2>1. z = NotSanitized(TRUE, FirstClosed(gates))
    BY <1>5 DEF sanitizeProviderError
  <2>2. DOMAIN gates \subseteq Nat /\ \A n \in DOMAIN gates : gates[n][2] \in ProviderErrorSanitizationDenialReason
    <3>1. /\ DOMAIN gates = {1, 2, 3}
          /\ gates[1][2] = "PROVIDER_ERROR_SANITIZATION_NOT_ALLOWED"
          /\ gates[2][2] = "RAW_FAILURE_SURFACE_MISSING"
          /\ gates[3][2] = "RAW_FAILURE_SURFACE_NOT_UNSAFE"
      BY DEF SanitizationGates
    <3>2. {"PROVIDER_ERROR_SANITIZATION_NOT_ALLOWED", "RAW_FAILURE_SURFACE_MISSING",
           "RAW_FAILURE_SURFACE_NOT_UNSAFE"} \subseteq ProviderErrorSanitizationDenialReason
      BY DEF ProviderErrorSanitizationDenialReason
    <3>3. {1, 2, 3} \subseteq Nat
      OBVIOUS
    <3> HIDE DEF gates
    <3> QED
      BY <3>1, <3>2, <3>3
  <2>3. FirstClosed(gates) \in ProviderErrorSanitizationDenialReason
    BY <1>5, <2>2, ClosedReason
  <2> HIDE DEF z
  <2> QED
    BY <2>1, <2>3, <1>1 DEF z
<1> QED
  BY <1>2, <1>3, <1>4, <1>5 DEF TranslationSound

(* P9J.4 hands P9J.5 a raw surface of its type, or none.                   *)
LEMMA CallTranslationSound ==
  ASSUME NEW t, NEW answer \in RawProviderApiCallResult \union {None}, NEW a, NEW b
  PROVE  TranslationSound(translateProviderResult(executeProviderApiCall(t, a, answer), b))
<1> DEFINE call == executeProviderApiCall(t, a, answer)
           tr == translateProviderResult(call, b)
<1>1. \/ /\ call.requiresErrorSanitization \in BOOLEAN
         /\ call.failureSurface = None
      \/ /\ call.requiresErrorSanitization \in BOOLEAN
         /\ answer # None
         /\ call.failureSurface = buildFailureSurfaceFromRawResult(answer)
  <2>1. call = ApiCallExecuted(answer) \/ \E reason : call = ApiCallNotExecuted(reason)
    BY DEF executeProviderApiCall
  <2> HIDE DEF call
  <2>2. CASE call = ApiCallExecuted(answer)
    BY <2>2 DEF ApiCallExecuted, RawCallCompleted
  <2>3. CASE \E reason : call = ApiCallNotExecuted(reason)
    BY <2>3 DEF ApiCallNotExecuted
  <2> QED
    BY <2>1, <2>2, <2>3
<1> HIDE DEF call
<1>2. CASE tr = TranslatedResult(call)
  <2>1. /\ tr.translatedResult.failureSurface = call.failureSurface
        /\ tr.translatedResult.requiresErrorSanitization = call.requiresErrorSanitization
    BY <1>2 DEF TranslatedResult, TranslatedProviderResult
  <2> HIDE DEF tr
  <2> QED
    BY <1>1, <2>1, SurfaceOfFailure DEF TranslationSound, tr, call
<1>3. CASE \E reason : tr = NotTranslatedResult(call, reason)
  <2>1. tr.resultTranslated = FALSE
    BY <1>3 DEF NotTranslatedResult
  <2> HIDE DEF tr
  <2> QED
    BY <2>1 DEF TranslationSound, tr, call
<1> QED
  BY <1>2, <1>3 DEF translateProviderResult, call

(* The hook has the fields of all the stages it goes through.              *)
LEMMA HookTyped ==
  ASSUME NEW m, NEW a, NEW surface, NEW n, NEW x
  PROVE  ProviderAdapterVerificationHookResult(
           exposeProviderAdapterVerificationHook(
             preserveProviderAdapterFailureSurface(
               normalizeProviderAdapterResult(executeProviderAdapter(m, a, surface), n)), x))
<1> DEFINE e == executeProviderAdapter(m, a, surface)
           o == normalizeProviderAdapterResult(e, n)
           p == preserveProviderAdapterFailureSurface(o)
           h == exposeProviderAdapterVerificationHook(p, x)
<1>1. DOMAIN e = {"providerAdapterExecuted", "providerCallCompleted", "adapterRequest",
                  "failureSurface", "reason"}
  <2>1. e = AdapterExecuted(m, surface) \/ \E reason : e = AdapterNotExecuted(m, reason)
    BY DEF executeProviderAdapter
  <2> HIDE DEF e
  <2>2. CASE e = AdapterExecuted(m, surface)
    BY <2>2 DEF AdapterExecuted
  <2>3. CASE \E reason : e = AdapterNotExecuted(m, reason)
    BY <2>3 DEF AdapterNotExecuted
  <2> QED
    BY <2>1, <2>2, <2>3
<1> HIDE DEF e
<1>2. DOMAIN o = ProviderAdapterNormalizedFields
  BY <1>1 DEF normalizeProviderAdapterResult, Extended, ProviderAdapterNormalizedFields
<1> HIDE DEF o
<1>3. DOMAIN p = ProviderAdapterFailureSurfaceFields
  <2>1. DOMAIN p = DOMAIN o \union {"failureSurfacePreserved", "reason"}
    BY DEF preserveProviderAdapterFailureSurface, Extended
  <2> HIDE DEF p
  <2> QED
    BY <1>2, <2>1 DEF ProviderAdapterNormalizedFields, ProviderAdapterFailureSurfaceFields
<1> HIDE DEF p
<1>4. DOMAIN h = ProviderAdapterFailureSurfaceFields \union {"hookExposed"}
  <2>1. DOMAIN h = DOMAIN p \union {"hookExposed", "reason"}
    BY DEF exposeProviderAdapterVerificationHook, Extended
  <2> HIDE DEF h
  <2> QED
    BY <1>3, <2>1 DEF ProviderAdapterNormalizedFields, ProviderAdapterFailureSurfaceFields
<1> HIDE DEF h
<1> QED
  BY <1>4 DEF ProviderAdapterVerificationHookResult, h, p, o, e

CallTyped(c) ==
  /\ stage[c] \in Stages
  /\ request[c] \in CallRequests
  /\ stage[c] = "new" => runtime[c] = None
  /\ stage[c] # "new" => RuntimeTyped(runtime[c], request[c])
  /\ stage[c] \in {"new", "decided"} => translation[c] = None
  /\ stage[c] \notin {"new", "decided"} /\ translation[c].implementationRequestTranslated =>
       translation[c].implementationRequest \in ProviderImplementationRequest
  /\ result[c] # None => ProviderErrorSanitizationResult(result[c].sanitized)
  /\ raw[c] \in RawProviderApiCallResult \union {None}
  /\ hook[c] # None => ProviderAdapterVerificationHookResult(hook[c])
  /\ stage[c] \in {"new", "decided"} => performed[c] = {}
  /\ performed[c] \subseteq {translation[c].implementationRequest}

(* P9H keeps the types of its call.                                        *)
LEMMA TypedDecide ==
  ASSUME CallShapes, NEW c \in Calls, CallTyped(c), Decide(c)
  PROVE  CallTyped(c)'
<1>1. PICK d \in RuntimeDecisions :
        runtime' = [runtime EXCEPT ![c] = ProviderRuntime(request[c], d)]
  BY DEF Decide
<1>2. /\ stage[c] = "new" /\ stage'[c] = "decided"
      /\ runtime'[c] = ProviderRuntime(request[c], d)
  BY <1>1 DEF Decide, CallShapes
<1>3. /\ request' = request /\ performed' = performed /\ raw' = raw /\ hook' = hook
      /\ translation' = translation /\ result' = result
  BY DEF Decide
<1>4. RuntimeTyped(runtime'[c], request[c])
  BY <1>2, RuntimeIsTyped
<1> QED
  BY <1>2, <1>3, <1>4 DEF CallTyped, Stages

(* P9I.2 and P9J.2 keep them.                                              *)
LEMMA TypedPrepare ==
  ASSUME CallShapes, NEW c \in Calls, CallTyped(c), Prepare(c)
  PROVE  CallTyped(c)'
<1>1. PICK m \in Decision, t \in Decision :
        translation' = [translation EXCEPT ![c] =
          translateProviderImplementationRequest(
            mapProviderAdapterRequest(runtime[c], request[c].resource, m).adapterRequest, t)]
  BY DEF Prepare
<1>2. /\ stage[c] = "decided" /\ stage'[c] = "prepared"
      /\ translation'[c] = translateProviderImplementationRequest(
            mapProviderAdapterRequest(runtime[c], request[c].resource, m).adapterRequest, t)
  BY <1>1 DEF Prepare, CallShapes
<1>3. /\ request' = request /\ performed' = performed /\ raw' = raw /\ hook' = hook
      /\ runtime' = runtime /\ result' = result
  BY DEF Prepare
<1> DEFINE t1 == translation'[c]
<1>4. RuntimeTyped(runtime[c], request[c]) /\ request[c] \in RequestShape
  BY <1>2, RequestsAssumption DEF CallTyped
<1>5. ProviderAdapterRequest(runtime[c], request[c].resource) \in ProviderImplementationRequest
  <2>1. /\ runtime[c].providerContract = request[c].contract
        /\ runtime[c].providerImplementation = request[c].implementation
        /\ runtime[c].operation = request[c].operation
    BY <1>4 DEF RuntimeTyped, MappingFields, resolveProviderMapping
  <2> QED
    BY <1>4, <2>1 DEF ProviderAdapterRequest, ProviderImplementationRequest, RequestShape
<1>6. t1.implementationRequestTranslated =>
        t1.implementationRequest = ProviderAdapterRequest(runtime[c], request[c].resource)
  BY <1>2, TranslatedAsRequested
<1>7. t1.implementationRequestTranslated =>
        t1.implementationRequest \in ProviderImplementationRequest
  BY <1>5, <1>6
<1>8. performed[c] = {}
  BY <1>2 DEF CallTyped
<1> QED
  BY <1>2, <1>3, <1>7, <1>8 DEF CallTyped, Stages

(* Sending and losing a call keep them.                                    *)
LEMMA TypedSend ==
  ASSUME CallShapes, NEW c \in Calls, CallTyped(c), Send(c) \/ Lose(c)
  PROVE  CallTyped(c)'
<1>1. /\ stage[c] \in {"prepared", "sent"} /\ stage'[c] \in {"sent", "lost"}
      /\ request' = request /\ performed' = performed /\ raw' = raw /\ hook' = hook
      /\ runtime' = runtime /\ result' = result /\ translation' = translation
  BY DEF Send, Lose, CallShapes
<1> QED
  BY <1>1 DEF CallTyped, Stages

(* The provider keeps them.                                                *)
LEMMA TypedPerform ==
  ASSUME CallShapes, NEW c \in Calls, CallTyped(c), Perform(c)
  PROVE  CallTyped(c)'
<1>1. /\ stage[c] = "sent" /\ stage' = stage
      /\ performed'[c] = performed[c] \union {translation[c].implementationRequest}
      /\ request' = request /\ raw' = raw /\ hook' = hook
      /\ runtime' = runtime /\ result' = result /\ translation' = translation
  BY DEF Perform, CallShapes
<1> QED
  BY <1>1 DEF CallTyped

(* An answer keeps them.                                                   *)
LEMMA TypedAnswer ==
  ASSUME CallShapes, NEW c \in Calls, CallTyped(c), Answer(c)
  PROVE  CallTyped(c)'
<1>1. PICK answer \in RawProviderApiCallResult : raw' = [raw EXCEPT ![c] = answer]
  BY DEF Answer
<1>2. /\ stage[c] = "sent" /\ stage'[c] = "answered" /\ raw'[c] = answer
      /\ request' = request /\ performed' = performed /\ hook' = hook
      /\ runtime' = runtime /\ result' = result /\ translation' = translation
  BY <1>1 DEF Answer, CallShapes
<1> QED
  BY <1>2 DEF CallTyped, Stages

(* P9J.3 to P9J.5 keep them.                                               *)
LEMMA TypedTranslate ==
  ASSUME CallShapes, NEW c \in Calls, CallTyped(c), Translate(c)
  PROVE  CallTyped(c)'
<1>1. PICK a \in Decision, t \in Decision, z \in Decision :
        result' = [result EXCEPT ![c] =
          [call |-> executeProviderApiCall(translation[c], a, raw[c]),
           translated |-> translateProviderResult(
                            executeProviderApiCall(translation[c], a, raw[c]), t),
           sanitized |-> sanitizeProviderError(
                           translateProviderResult(
                             executeProviderApiCall(translation[c], a, raw[c]), t), z)]]
  BY DEF Translate
<1>2. /\ stage[c] \in {"prepared", "answered", "lost"} /\ stage'[c] = "translated"
      /\ request' = request /\ performed' = performed /\ hook' = hook /\ raw' = raw
      /\ runtime' = runtime /\ translation' = translation
  BY <1>1 DEF Translate, CallShapes
<1> DEFINE tr == translateProviderResult(executeProviderApiCall(translation[c], a, raw[c]), t)
<1>3. result'[c].sanitized = sanitizeProviderError(tr, z)
  BY <1>1 DEF CallShapes
<1>4. TranslationSound(tr)
  BY CallTranslationSound DEF CallTyped
<1> HIDE DEF tr
<1>5. ProviderErrorSanitizationResult(result'[c].sanitized)
  BY <1>3, <1>4, SanitizationTyped
<1> QED
  BY <1>2, <1>5 DEF CallTyped, Stages

(* P9I.3 to P9I.6 keep them.                                               *)
LEMMA TypedExpose ==
  ASSUME CallShapes, NEW c \in Calls, CallTyped(c), Expose(c)
  PROVE  CallTyped(c)'
<1> DEFINE surface == SurfaceForAdapter(result[c])
<1>1. PICK e \in Decision, n \in Decision, x \in Decision :
        hook' = [hook EXCEPT ![c] =
          exposeProviderAdapterVerificationHook(
            preserveProviderAdapterFailureSurface(
              normalizeProviderAdapterResult(
                executeProviderAdapter(mapping[c], e, surface), n)), x)]
  BY DEF Expose
<1>2. /\ stage[c] = "translated" /\ stage'[c] = "exposed"
      /\ request' = request /\ performed' = performed /\ raw' = raw /\ result' = result
      /\ runtime' = runtime /\ translation' = translation
  BY <1>1 DEF Expose, CallShapes
<1> HIDE DEF surface
<1>3. ProviderAdapterVerificationHookResult(hook'[c])
  BY <1>1, HookTyped DEF CallShapes
<1> QED
  BY <1>2, <1>3 DEF CallTyped, Stages

(* Every step of every call keeps the types of all.                        *)
LEMMA TypedCalls ==
  /\ CallInit => \A c \in Calls : CallTyped(c)
  /\ CallIInv /\ (\A c \in Calls : CallTyped(c)) /\ [CallNext]_callVars =>
       (\A c \in Calls : CallTyped(c))'
<1>1. ASSUME CallInit PROVE \A c \in Calls : CallTyped(c)
  BY <1>1 DEF CallInit, CallTyped, Stages
<1>2. ASSUME CallIInv, \A c \in Calls : CallTyped(c), [CallNext]_callVars
      PROVE  (\A c \in Calls : CallTyped(c))'
  <2>1. CASE UNCHANGED callVars
    BY <1>2, <2>1 DEF callVars, CallTyped
  <2>2. ASSUME NEW c \in Calls, NEW d \in Calls,
               Decide(c) \/ Prepare(c) \/ Send(c) \/ Perform(c) \/ Answer(c) \/ Lose(c)
                 \/ Translate(c) \/ Expose(c)
        PROVE  CallTyped(d)'
    <3>1. CASE d # c
      BY <1>2, <2>2, <3>1, OtherCalls DEF CallTyped, CallIInv
    <3>2. CASE d = c
      BY <1>2, <2>2, <3>2, TypedDecide, TypedPrepare, TypedSend, TypedPerform, TypedAnswer,
         TypedTranslate, TypedExpose DEF CallIInv
    <3> QED
      BY <3>1, <3>2
  <2> QED
    BY <1>2, <2>1, <2>2 DEF CallNext
<1> QED
  BY <1>1, <1>2

(* Requests, results, answers and hooks have the fields their types        *)
(* declare, and an operation is sent to the provider at most once, for any *)
(* calls.                                                                  *)
THEOREM CallsTyped == CallSpec => []CallTypeOK
<1> DEFINE I == CallIInv /\ \A c \in Calls : CallTyped(c)
<1>1. CallInit => I
  BY InitCallIInv, TypedCalls
<1>2. I /\ [CallNext]_callVars => I'
  BY NextCallIInv, TypedCalls
<1>3. I => CallTypeOK
  <2> SUFFICES ASSUME NEW c \in Calls, CallTyped(c)
               PROVE  /\ stage[c] \in Stages
                      /\ request[c] \in CallRequests
                      /\ runtime[c] # None =>
                           \E m \in ProviderMappingResult :
                             \A f \in DOMAIN m \ {"reason"} : runtime[c][f] = m[f]
                      /\ runtime[c] # None => ProviderRecoveryBridgeResult(runtime[c])
                      /\ translation[c] # None /\ translation[c].implementationRequestTranslated =>
                           translation[c].implementationRequest \in ProviderImplementationRequest
                      /\ result[c] # None => ProviderErrorSanitizationResult(result[c].sanitized)
                      /\ raw[c] \in RawProviderApiCallResult \union {None}
                      /\ hook[c] # None => ProviderAdapterVerificationHookResult(hook[c])
                      /\ Cardinality(performed[c]) <= 1
    BY DEF CallTypeOK
  <2> DEFINE m == resolveProviderMapping(request[c])
  <2>1. runtime[c] # None => RuntimeTyped(runtime[c], request[c])
    BY DEF CallTyped
  <2>2. m \in ProviderMappingResult /\ DOMAIN m \ {"reason"} = MappingFields
    <3>1. request[c] \in RequestShape
      BY RequestsAssumption DEF CallTyped
    <3>2. DOMAIN m = MappingFields \union {"reason"} /\ "reason" \notin MappingFields
      BY DEF resolveProviderMapping, MappingFields
    <3> HIDE DEF m
    <3> QED
      BY <3>1, <3>2, MappingTyped DEF m
  <2> HIDE DEF m
  <2>3. runtime[c] # None => \A f \in DOMAIN m \ {"reason"} : runtime[c][f] = m[f]
    BY <2>1, <2>2 DEF RuntimeTyped, m
  <2>4. Cardinality(performed[c]) <= 1
    <3> DEFINE one == {translation[c].implementationRequest}
    <3>1. IsFiniteSet(one) /\ Cardinality(one) = 1
      BY FS_Singleton
    <3>2. performed[c] \subseteq one
      BY DEF CallTyped
    <3> HIDE DEF one
    <3> QED
      BY <3>1, <3>2, FS_Subset
  <2> QED
    BY <2>1, <2>2, <2>3, <2>4 DEF CallTyped, RuntimeTyped, ProviderRecoveryBridgeResult
<1> QED
  BY <1>1, <1>2, <1>3, PTL DEF CallSpec

----------------------------------------------------------------------------

(* Together.                                                               *)

(* Nothing but its own steps moves a part.                                 *)
LEMMA PartsOfCryptography ==
  CryptographySpec => Spec /\ AttestationSpec /\ CallSpec /\ KeySpec
<1>1. CryptographyInit => Init /\ AttestationInit /\ CallInit /\ KeyInit
  BY DEF CryptographyInit
<1>2. [CryptographyNext]_cryptographyVars =>
        /\ [Next]_vars /\ [AttestationNext]_attestationVars
        /\ [CallNext]_callVars /\ [KeyNext]_keyVars
  BY DEF CryptographyNext, cryptographyVars, BindingStep, AttestationStep, CallStep, KeyStep
<1> QED
  BY <1>1, <1>2, PTL DEF CryptographySpec, Spec, AttestationSpec, CallSpec, KeySpec

(* All of it has the fields its types declare, for any constants.          *)
THEOREM CryptographyTyped == CryptographySpec => []CryptographyTypeOK
BY PartsOfCryptography, BindingsTyped, AttestationsTyped, CallsTyped, KeysTyped, PTL
DEF CryptographyTypeOK

(* Of all that goes on around the runtime, a rotation is completed and a   *)
(* payload counts as encrypted exactly when every policy asked for is      *)
(* satisfied, for any keys, cases, requests and payloads.                  *)
THEOREM CryptographyGoverned == CryptographySpec => []OnlyAsGoverned
BY PartsOfCryptography, RotationAsGoverned, EncryptionAsGoverned, PTL DEF OnlyAsGoverned
=============================================================================
