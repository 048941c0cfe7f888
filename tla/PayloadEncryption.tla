------------------------- MODULE PayloadEncryption -------------------------
(***************************************************************************)
(* P9C and P9D: whether a payload may be encrypted, by what mechanism, and *)
(* on which infrastructure.  Pure functions that no code composes: their   *)
(* caller, external, tells each one what the one before it said.           *)
(***************************************************************************)
EXTENDS Gates

CONSTANT Encryptions \* the requests put to the pipeline

(* All classes must be encrypted; they differ in the authority it takes    *)
(* and in the approval.                                                    *)
authorityRequired ==
  [TENANT_DATA |-> "SYSTEM", GOVERNANCE_EVIDENCE |-> "GOVERNANCE",
   AUDIT_LEDGER |-> "GOVERNANCE", DECISION_MEMORY |-> "SYSTEM", EXECUTION_MEMORY |-> "SYSTEM",
   OAG |-> "CHARTER", CHARTER |-> "CHARTER", SECRET |-> "PRINCIPAL",
   API_CREDENTIAL |-> "PRINCIPAL", RECOVERY_ARTIFACT |-> "GOVERNANCE"]

ProtectedPayloadClass == DOMAIN authorityRequired

PAYLOAD_ENCRYPTION_POLICIES ==
  [class \in ProtectedPayloadClass |->
     [encryptionMandatory |-> TRUE, authorityRequired |-> authorityRequired[class],
      humanApprovalRequired |->
        class \in {"OAG", "CHARTER", "SECRET", "API_CREDENTIAL", "RECOVERY_ARTIFACT"}]]

EncryptionDecision(status, eligible, reason) ==
  [status |-> status, encryptionEligible |-> eligible, denialReason |-> reason]

(* ALLOWED does not mean eligible where encryption is not mandatory.       *)
evaluateEncryptionRequest(request) ==
  IF request.payloadClass \notin ProtectedPayloadClass
  THEN EncryptionDecision("DENIED", FALSE, "FAIL_CLOSED")
  ELSE LET policy == PAYLOAD_ENCRYPTION_POLICIES[request.payloadClass]
       IN  IF ~policy.encryptionMandatory THEN EncryptionDecision("ALLOWED", FALSE, "NO_REASON")
           ELSE IF request.authority # policy.authorityRequired
             THEN EncryptionDecision("DENIED", FALSE, "AUTHORITY_INVALID")
           ELSE IF policy.humanApprovalRequired /\ ~request.approvalProvided
             THEN EncryptionDecision("APPROVAL_REQUIRED", FALSE, "NO_REASON")
           ELSE EncryptionDecision("ALLOWED", TRUE, "NO_REASON")

----------------------------------------------------------------------------
(* Infrastructure: approved classes, access control, usage and recovery.   *)

CANONICAL_INFRASTRUCTURE_POLICY ==
  [classes  |-> {"MANAGED_KMS", "SECRET_VAULT", "ENCRYPTED_STORAGE", "BACKUP_RESTORE"},
   controls |-> {"ROLE_BASED_ACCESS_CONTROL"}, recovery |-> {"BACKUP_RESTORE"}]

(* The resource asked for is not compared with the class.                  *)
validateInfrastructureProvisioning(resource, class) ==
  class \in CANONICAL_INFRASTRUCTURE_POLICY.classes

validateInfrastructureAccess(resource, control) ==
  control \in CANONICAL_INFRASTRUCTURE_POLICY.controls

validateInfrastructureUsage(resource, accessAuthorized) == accessAuthorized

validateInfrastructureRecovery(mechanism, usageAuthorized) ==
  usageAuthorized /\ mechanism \in CANONICAL_INFRASTRUCTURE_POLICY.recovery

----------------------------------------------------------------------------
(* Mechanism: the gate, the execution and its verification.                *)

CRYPTOGRAPHIC_MECHANISM_POLICY == [algorithm |-> "AES", mode |-> "GCM", keySize |-> 256]

authorizeCryptographicExecution(mechanism) == mechanism = CRYPTOGRAPHIC_MECHANISM_POLICY

(* Without authorization it throws; the output is the payload, as long as  *)
(* the runtime is a placeholder.                                           *)
executeCryptographicRuntime(authorized, payload) ==
  IF authorized THEN [threw |-> FALSE, executed |-> TRUE, output |-> payload]
  ELSE [threw |-> TRUE, executed |-> FALSE, output |-> << >>]

(* An empty output is not verified.                                        *)
verifyCryptographicExecution(execution) == execution.executed /\ execution.output # << >>

----------------------------------------------------------------------------
(* The pipeline a caller makes of them, and what it answers: whether the   *)
(* payload counts as encrypted.                                            *)

EncryptionShape ==
  [payloadClass : ProtectedPayloadClass \union {"OTHER"},
   authority : {authorityRequired[c] : c \in ProtectedPayloadClass},
   approvalProvided : BOOLEAN,
   class : CANONICAL_INFRASTRUCTURE_POLICY.classes \union {"LOCAL_DISK"},
   control : CANONICAL_INFRASTRUCTURE_POLICY.controls \union {"NO_CONTROL"},
   algorithm : {"AES", "DES"}, payload : {<< >>, <<1>>}]

ASSUME EncryptionsAssumption == Encryptions \subseteq EncryptionShape

Encrypted(e) ==
  LET usage == validateInfrastructureUsage("KMS",
                 /\ validateInfrastructureProvisioning("KMS", e.class)
                 /\ validateInfrastructureAccess("KMS", e.control))
      authorized == /\ evaluateEncryptionRequest(e).encryptionEligible
                    /\ usage
                    /\ authorizeCryptographicExecution(
                         [CRYPTOGRAPHIC_MECHANISM_POLICY EXCEPT !.algorithm = e.algorithm])
      execution == executeCryptographicRuntime(authorized, e.payload)
  IN  ~execution.threw /\ verifyCryptographicExecution(execution)

(* Over all requests: what counts as encrypted was asked for by the very   *)
(* authority its class requires, approved where a human must, on approved  *)
(* infrastructure by the approved mechanism, and is not empty; and with    *)
(* all of that it does count.                                              *)
EncryptedAsGoverned ==
  \A e \in Encryptions :
    Encrypted(e) <=>
      /\ e.payloadClass \in ProtectedPayloadClass
      /\ e.authority = authorityRequired[e.payloadClass]
      /\ e.payloadClass \in {"OAG", "CHARTER", "SECRET", "API_CREDENTIAL", "RECOVERY_ARTIFACT"}
           => e.approvalProvided
      /\ e.class # "LOCAL_DISK" /\ e.control # "NO_CONTROL" /\ e.algorithm = "AES"
      /\ e.payload # << >>
=============================================================================
