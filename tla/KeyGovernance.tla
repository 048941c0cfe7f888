--------------------------- MODULE KeyGovernance ---------------------------
(***************************************************************************)
(* P9C.4 and P9F/P9G: keys, what may be done to them, and what is written  *)
(* down of it.                                                             *)
(*                                                                         *)
(* evaluateKeyGovernanceRequest decides on a snapshot of the key's status  *)
(* that its caller brings; evidence, ledger record and audit are made of   *)
(* the decision, by separate calls.  The keys themselves, and the step     *)
(* from a decision to the key, are the caller's: external.  A key whose    *)
(* rotation was allowed is rotated by P9G.                                 *)
(***************************************************************************)
EXTENDS KeyRotation

CONSTANTS
  Keys,
  Cases,          \* requests, each with its evidence and its ledger record
  Questions,      \* the requests that are made: operation, authorityRole, approvalProvided
  RotationInputs, \* the inputs P9G is given
  MaxVersion,     \* bound: operations applied to a key
  MaxKeyEdits        \* bound: alterations of what is kept

ASSUME RotationInputsAssumption == RotationInputs \subseteq KeyRotationOrchestrationInput
ASSUME KeyBoundsAssumption == MaxVersion \in Nat /\ MaxKeyEdits \in Nat

KeyGovernanceRole ==
  {"KEY_CREATOR", "KEY_OWNER", "KEY_CUSTODIAN", "AUTHORITY_OWNER", "APPROVAL_AUTHORITY"}

KeyLifecycleStatus == {"ACTIVE", "DISABLED", "REVOKED", "ROTATING", "PENDING_TRANSFER"}

(* Who may ask for an operation.                                           *)
KEY_AUTHORITY_POLICIES ==
  [CREATE_KEY         |-> {"KEY_CREATOR", "KEY_OWNER", "AUTHORITY_OWNER"},
   ROTATE_KEY         |-> {"KEY_OWNER", "KEY_CUSTODIAN", "AUTHORITY_OWNER"},
   REVOKE_KEY         |-> {"KEY_OWNER", "KEY_CUSTODIAN", "AUTHORITY_OWNER"},
   DISABLE_KEY        |-> {"KEY_CUSTODIAN", "AUTHORITY_OWNER"},
   ENABLE_KEY         |-> {"KEY_OWNER", "KEY_CUSTODIAN", "AUTHORITY_OWNER"},
   ASSIGN_CUSTODY     |-> {"KEY_OWNER", "AUTHORITY_OWNER"},
   TRANSFER_OWNERSHIP |-> {"KEY_OWNER", "AUTHORITY_OWNER"}]

KeyGovernanceOperation == DOMAIN KEY_AUTHORITY_POLICIES

ASSUME QuestionsAssumption ==
  Questions \subseteq [operation : KeyGovernanceOperation, authorityRole : KeyGovernanceRole,
                       approvalProvided : BOOLEAN]

(* Mutant of KEY_LIFECYCLE_POLICIES: a revoked key may be enabled again.   *)
LifecycleReenabled ==
  [CREATE_KEY |-> {}, ROTATE_KEY |-> {"ACTIVE"}, REVOKE_KEY |-> {"ACTIVE"},
   DISABLE_KEY |-> {"ACTIVE"}, ENABLE_KEY |-> {"DISABLED", "REVOKED"},
   ASSIGN_CUSTODY |-> {"ACTIVE"}, TRANSFER_OWNERSHIP |-> {"ACTIVE"}]

(* And in which status of the key.  All of them need a human approval.     *)
KEY_LIFECYCLE_POLICIES ==
  [CREATE_KEY         |-> {},
   ROTATE_KEY         |-> {"ACTIVE"},
   REVOKE_KEY         |-> {"ACTIVE", "DISABLED", "ROTATING"},
   DISABLE_KEY        |-> {"ACTIVE", "ROTATING"},
   ENABLE_KEY         |-> {"DISABLED"},
   ASSIGN_CUSTODY     |-> {"ACTIVE", "DISABLED"},
   TRANSFER_OWNERSHIP |-> {"ACTIVE"}]

residualRiskOwner(operation) ==
  IF operation = "TRANSFER_OWNERSHIP" THEN "APPROVAL_AUTHORITY" ELSE "AUTHORITY_OWNER"

----------------------------------------------------------------------------
(* The decision, its evidence and its record.                              *)

authorityValidated(request) == request.authorityRole \in KEY_AUTHORITY_POLICIES[request.operation]

(* No statuses at all means any status.                                    *)
lifecycleValidated(request) ==
  LET allowed == KEY_LIFECYCLE_POLICIES[request.operation]
  IN  allowed = {} \/ request.lifecycleStatus \in allowed

(* An approval that is missing is not a denial and has no reason.          *)
evaluateKeyGovernanceRequest(request) ==
  LET gates == << <<authorityValidated(request), "AUTHORITY_INVALID">>,
                  <<lifecycleValidated(request), "LIFECYCLE_INVALID">> >>
      permitted == AllOpen(gates)
  IN  [status |-> IF ~permitted THEN "DENIED"
                  ELSE IF request.approvalProvided THEN "ALLOWED" ELSE "APPROVAL_REQUIRED",
       operation |-> request.operation,
       authorityValidated |-> authorityValidated(request),
       lifecycleValidated |-> permitted,
       approvalValidated |-> permitted /\ request.approvalProvided,
       denialReason |-> ReasonOr(gates, None)]

KeyGovernanceDecision ==
  [status : {"ALLOWED", "DENIED", "APPROVAL_REQUIRED"}, operation : KeyGovernanceOperation,
   authorityValidated : BOOLEAN, lifecycleValidated : BOOLEAN, approvalValidated : BOOLEAN,
   denialReason : {"AUTHORITY_INVALID", "LIFECYCLE_INVALID", None}]

createKeyGovernanceEvidence(id, decision, owner) ==
  [evidenceId |-> id, operation |-> decision.operation, status |-> decision.status,
   authorityValidated |-> decision.authorityValidated,
   lifecycleValidated |-> decision.lifecycleValidated,
   approvalValidated |-> decision.approvalValidated, residualRiskOwner |-> owner,
   denialReason |-> decision.denialReason]

createKeyGovernanceLedgerRecord(id, proof) ==
  [ledgerId |-> id, evidenceId |-> proof.evidenceId, operation |-> proof.operation,
   status |-> proof.status, authorityValidated |-> proof.authorityValidated,
   lifecycleValidated |-> proof.lifecycleValidated,
   approvalValidated |-> proof.approvalValidated,
   residualRiskOwner |-> proof.residualRiskOwner, denialReason |-> proof.denialReason]

KeyGovernanceEvidence ==
  [evidenceId : Cases, operation : KeyGovernanceOperation,
   status : {"ALLOWED", "DENIED", "APPROVAL_REQUIRED"}, authorityValidated : BOOLEAN,
   lifecycleValidated : BOOLEAN, approvalValidated : BOOLEAN,
   residualRiskOwner : {"AUTHORITY_OWNER", "APPROVAL_AUTHORITY"},
   denialReason : {"AUTHORITY_INVALID", "LIFECYCLE_INVALID", None}]

KeyGovernanceLedgerRecord ==
  [ledgerId : Cases, evidenceId : Cases, operation : KeyGovernanceOperation,
   status : {"ALLOWED", "DENIED", "APPROVAL_REQUIRED"}, authorityValidated : BOOLEAN,
   lifecycleValidated : BOOLEAN, approvalValidated : BOOLEAN,
   residualRiskOwner : {"AUTHORITY_OWNER", "APPROVAL_AUTHORITY"},
   denialReason : {"AUTHORITY_INVALID", "LIFECYCLE_INVALID", None}]

(* Mutant of AuditedFields: the decision's status is not compared.         *)
AuditedButStatus ==
  {"evidenceId", "operation", "authorityValidated", "lifecycleValidated", "approvalValidated",
   "residualRiskOwner", "denialReason"}

AuditedFields ==
  {"evidenceId", "operation", "status", "authorityValidated", "lifecycleValidated",
   "approvalValidated", "residualRiskOwner", "denialReason"}

(* One violation for every field that differs, or for what is missing.     *)
auditKeyGovernanceContinuity(evidence, record) ==
  IF evidence = None \/ record = None
  THEN {m \in {"EVIDENCE_MISSING", "LEDGER_MISSING"} :
          \/ m = "EVIDENCE_MISSING" /\ evidence = None
          \/ m = "LEDGER_MISSING" /\ record = None}
  ELSE {f \in AuditedFields : record[f] # evidence[f]}

buildAuditResult(evidence, record) ==
  [verified |-> auditKeyGovernanceContinuity(evidence, record) = {},
   violations |-> auditKeyGovernanceContinuity(evidence, record),
   evidenceId |-> IF evidence = None THEN None ELSE evidence.evidenceId,
   record |-> record]

----------------------------------------------------------------------------
(* Keys, cases, and their keepers.                                         *)

KeyCase == [key : Keys, version : 0..MaxVersion, decision : KeyGovernanceDecision]

ASSUME KeyNoneAssumption ==
  /\ None \notin Cases /\ None \notin KeyCase
  /\ None \notin KeyGovernanceEvidence /\ None \notin KeyGovernanceLedgerRecord

VARIABLES
  status,    \* per key
  version,   \* per key: operations applied so far
  case,      \* per case: the request made of which key at which version, and the decision
  evidence,  \* per case: the evidence kept, or None
  record,    \* per case: the ledger record kept, or None
  audits,    \* history: the audits that found continuity
  applied,   \* cases whose operation has reached the key
  rotation,  \* per key: P9G's last input and result
  keyEdits      \* history: alterations so far

keyVars == <<status, version, case, evidence, record, audits, applied, rotation, keyEdits>>

KeyInit ==
  /\ status \in [Keys -> {"ACTIVE"}]
  /\ version = [k \in Keys |-> 0]
  /\ case = [c \in Cases |-> None]
  /\ evidence = [c \in Cases |-> None]
  /\ record = [c \in Cases |-> None]
  /\ audits = {}
  /\ applied = {}
  /\ rotation = [k \in Keys |-> None]
  /\ keyEdits = 0

(* The caller reads the key's status, asks, and keeps evidence and record. *)
Ask(c, k, q) ==
  LET request  == [operation |-> q.operation, authorityRole |-> q.authorityRole,
                   lifecycleStatus |-> status[k], approvalProvided |-> q.approvalProvided]
      decision == evaluateKeyGovernanceRequest(request)
      proof    == createKeyGovernanceEvidence(c, decision, residualRiskOwner(q.operation))
  IN  /\ case[c] = None
      /\ case' = [case EXCEPT ![c] = [key |-> k, version |-> version[k], decision |-> decision]]
      /\ evidence' = [evidence EXCEPT ![c] = proof]
      /\ record' = [record EXCEPT ![c] = createKeyGovernanceLedgerRecord(c, proof)]
      /\ UNCHANGED <<status, version, audits, applied, rotation, keyEdits>>

(* What an operation makes of the key; custody and ownership are not part  *)
(* of its status.                                                          *)
StatusAfter(operation, before) ==
  CASE operation = "CREATE_KEY"  -> "ACTIVE"
    [] operation = "ROTATE_KEY"  -> "ROTATING"
    [] operation = "REVOKE_KEY"  -> "REVOKED"
    [] operation = "DISABLE_KEY" -> "DISABLED"
    [] operation = "ENABLE_KEY"  -> "ACTIVE"
    [] OTHER -> before

Apply(c) ==
  /\ case[c] # None /\ c \notin applied
  /\ case[c].decision.status = "ALLOWED"
  /\ LET k == case[c].key
     IN  /\ version[k] < MaxVersion
         /\ status' = [status EXCEPT ![k] = StatusAfter(case[c].decision.operation, @)]
         /\ version' = [version EXCEPT ![k] = @ + 1]
  /\ applied' = applied \union {c}
  /\ UNCHANGED <<case, evidence, record, audits, rotation, keyEdits>>

(* A key under rotation is put back into service when P9G completes.       *)
Rotate(k, input) ==
  LET result == orchestrateKeyRotation(input)
  IN  /\ status[k] = "ROTATING"
      /\ version[k] < MaxVersion
      /\ rotation' = [rotation EXCEPT ![k] = [input |-> input, result |-> result]]
      /\ IF result.orchestrationStatus = "COMPLETED"
         THEN /\ status' = [status EXCEPT ![k] = "ACTIVE"]
              /\ version' = [version EXCEPT ![k] = @ + 1]
         ELSE UNCHANGED <<status, version>>
      /\ UNCHANGED <<case, evidence, record, audits, applied, keyEdits>>

(* Evidence and record are kept apart, and either may be lost or altered.  *)
AlterRecord(c) ==
  /\ keyEdits < MaxKeyEdits
  /\ record[c] # None
  /\ \/ record' = [record EXCEPT ![c] = None]
     \/ record' = [record EXCEPT ![c].status = "ALLOWED"]
     \/ \E o \in {q.operation : q \in Questions} :
          record' = [record EXCEPT ![c].operation = o]
     \/ \E d \in Cases : record' = [record EXCEPT ![c].evidenceId = d]
  /\ keyEdits' = keyEdits + 1
  /\ UNCHANGED <<status, version, case, evidence, audits, applied, rotation>>

AlterEvidence(c) ==
  /\ keyEdits < MaxKeyEdits
  /\ evidence[c] # None
  /\ \/ evidence' = [evidence EXCEPT ![c] = None]
     \/ evidence' = [evidence EXCEPT ![c].status = "ALLOWED"]
     \/ \E d \in Cases : evidence' = [evidence EXCEPT ![c].evidenceId = d]
  /\ keyEdits' = keyEdits + 1
  /\ UNCHANGED <<status, version, case, record, audits, applied, rotation>>

(* Any evidence is audited against any record.                             *)
Audit(c, d) ==
  /\ buildAuditResult(evidence[c], record[d]).verified
  /\ audits' = audits \union {buildAuditResult(evidence[c], record[d])}
  /\ UNCHANGED <<status, version, case, evidence, record, applied, rotation, keyEdits>>

KeyNext ==
  \/ \E c \in Cases :
       \/ \E k \in Keys, q \in Questions : Ask(c, k, q)
       \/ Apply(c)
       \/ AlterRecord(c)
       \/ AlterEvidence(c)
       \/ \E d \in Cases : Audit(c, d)
  \/ \E k \in Keys, input \in RotationInputs : Rotate(k, input)

KeySpec == KeyInit /\ [][KeyNext]_keyVars

----------------------------------------------------------------------------
(* Properties.                                                             *)

KeyTypeOK ==
  /\ status \in [Keys -> KeyLifecycleStatus]
  /\ version \in [Keys -> 0..MaxVersion]
  /\ case \in [Cases -> KeyCase \union {None}]
  /\ evidence \in [Cases -> KeyGovernanceEvidence \union {None}]
  /\ record \in [Cases -> KeyGovernanceLedgerRecord \union {None}]
  /\ \A x \in audits : x.violations = {}
  /\ applied \subseteq {c \in Cases : case[c] # None}
  /\ DOMAIN rotation = Keys
  /\ keyEdits \in 0..MaxKeyEdits

(* Revocation is irreversible ("irreversible_operation") as far as the     *)
(* decisions go: a revoked key comes back only by being created anew, or   *)
(* by a decision that was taken on the status of before the revocation and *)
(* reached the key after it.  Nothing in the code asks again.              *)
RevivedOnlyByStale ==
  [][\A k \in Keys : status[k] = "REVOKED" /\ status'[k] # "REVOKED" =>
       \E c \in applied' \ applied :
         /\ case[c].key = k
         /\ case[c].decision.operation = "CREATE_KEY" \/ case[c].version < version[k]]_keyVars

(* Evidence and record that the audit finds continuous say what was        *)
(* decided in the case they name, though one of the two was altered, lost  *)
(* or taken from another case.                                             *)
VerifiedTellsDecision ==
  \A x \in audits :
    /\ x.evidenceId # None
    /\ \A f \in {"operation", "status", "denialReason"} :
         x.record[f] = case[x.evidenceId].decision[f]

(* A rotation is completed exactly when all that the three families ask    *)
(* for is there; each stage only looks at the one before it, and P9G       *)
(* stops at the first that says no.                                        *)
CompletedWhenAllAgree ==
  \A k \in Keys : rotation[k] # None =>
    LET in == rotation[k].input
    IN  rotation[k].result.orchestrationStatus = "COMPLETED" <=>
          /\ in.governanceRequest.authority # "OTHER_AUTHORITY"
          /\ in.governanceRequest.trigger # "OTHER_TRIGGER"
          /\ in.evidenceId # None
          /\ in.mechanismRequest.mechanism # "OTHER_MECHANISM"
          /\ in.mechanismRequest.wrappingOperation # "OTHER_OPERATION"
          /\ in.infrastructureProvisioningRequest.infrastructureClass \in
               KEY_ROTATION_INFRASTRUCTURE_POLICY[in.infrastructureProvisioningRequest.resource]
          /\ in.accessDecision /\ in.usageDecision /\ in.recoveryDecision
=============================================================================
