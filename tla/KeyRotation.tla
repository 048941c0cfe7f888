---------------------------- MODULE KeyRotation ----------------------------
(***************************************************************************)
(* P9F and P9G: the rotation of a key, from the governance decision to the *)
(* recovery capability.  All functions are pure and synchronous; only P9G  *)
(* calls them, in one go, and returns what it has when one of them says    *)
(* no.  P9F's policies are data.                                           *)
(***************************************************************************)
EXTENDS FiniteSets, Gates

(* Governance: authorities and triggers.                                   *)
KEY_ROTATION_GOVERNANCE_POLICY ==
  [authorizedAuthorities |-> {"PRIMARY_AUTHORITY", "DELEGATED_AUTHORITY", "EMERGENCY_AUTHORITY"},
   authorizedTriggers |->
     {"SCHEDULED_ROTATION", "POLICY_REQUIRED_ROTATION", "KEY_COMPROMISE",
      "SUSPECTED_COMPROMISE", "REGULATORY_REQUIREMENT", "EMERGENCY_ROTATION"}]

RotationRequired(trigger) ==
  trigger \in {"KEY_COMPROMISE", "SUSPECTED_COMPROMISE", "REGULATORY_REQUIREMENT",
               "EMERGENCY_ROTATION"}

GovernanceGates(request) ==
  << <<request.authority \in KEY_ROTATION_GOVERNANCE_POLICY.authorizedAuthorities,
       "AUTHORITY_NOT_ALLOWED">>,
     <<request.trigger \in KEY_ROTATION_GOVERNANCE_POLICY.authorizedTriggers,
       "TRIGGER_NOT_ALLOWED">> >>

evaluateKeyRotationGovernance(request) ==
  LET gates == GovernanceGates(request)
  IN  [decisionStatus |-> IF ~AllOpen(gates) THEN "ROTATION_DENIED"
                          ELSE IF RotationRequired(request.trigger) THEN "ROTATION_REQUIRED"
                          ELSE "ROTATION_ALLOWED",
       denialReason |-> ReasonOr(gates, None)]

(* The identifiers are the caller's, and may be empty.                     *)
generateKeyRotationGovernanceEvidence(id, decision) ==
  [evidenceId |-> id, evidenceStatus |-> "EVIDENCE_GENERATED",
   decisionStatus |-> decision.decisionStatus, denialReason |-> decision.denialReason]

recordKeyRotationGovernanceEvidence(id, evidence) ==
  [ledgerRecordId |-> id, marker |-> "ledger_record_created",
   evidenceId |-> evidence.evidenceId, evidenceStatus |-> evidence.evidenceStatus,
   decisionStatus |-> evidence.decisionStatus, denialReason |-> evidence.denialReason]

KeyRotationGovernanceLedgerRecord ==
  [ledgerRecordId : {"record"}, marker : {"ledger_record_created"},
   evidenceId : {"evidence", None}, evidenceStatus : {"EVIDENCE_GENERATED"},
   decisionStatus : {"ROTATION_DENIED", "ROTATION_REQUIRED", "ROTATION_ALLOWED"},
   denialReason : {"AUTHORITY_NOT_ALLOWED", "TRIGGER_NOT_ALLOWED", None}]

ASSUME RotationNoneAssumption ==
  /\ None \notin {"evidence", "EVIDENCE_GENERATED", "ROTATION_DENIED", "ROTATION_REQUIRED",
                  "ROTATION_ALLOWED"}
  /\ None \notin KeyRotationGovernanceLedgerRecord

(* The audit looks at the ledger record alone.                             *)
AuditFailures(record) ==
  IF record = None THEN << <<FALSE, "LEDGER_RECORD_MISSING">> >> ELSE <<
     <<record.evidenceId # None, "EVIDENCE_ID_MISSING">>,
     <<record.evidenceStatus # None, "EVIDENCE_STATUS_MISSING">>,
     <<record.decisionStatus # None, "DECISION_STATUS_MISSING">>,
     <<record.marker = "ledger_record_created", "LEDGER_MARKER_MISSING">> >>

auditKeyRotationGovernanceLedger(record) ==
  [auditStatus |-> IF AllOpen(AuditFailures(record)) THEN "AUDIT_PASSED" ELSE "AUDIT_FAILED",
   failureReason |-> ReasonOr(AuditFailures(record), None)]

----------------------------------------------------------------------------
(* Mechanism.                                                              *)

KEY_ROTATION_MECHANISM_POLICY ==
  [approvedRotationMechanisms |-> {"KEY_REWRAP", "KEY_REENCRYPTION", "KEY_VERSION_ADVANCE"},
   approvedKeyWrappingOperations |-> {"WRAP_KEY", "UNWRAP_KEY", "REWRAP_KEY"}]

executeKeyRotationMechanism(authorized, request) ==
  LET policy == KEY_ROTATION_MECHANISM_POLICY
      gates == << <<authorized, "ROTATION_NOT_AUTHORIZED">>,
                  <<request.mechanism \in policy.approvedRotationMechanisms,
                    "MECHANISM_NOT_APPROVED">>,
                  <<request.wrappingOperation \in policy.approvedKeyWrappingOperations,
                    "WRAPPING_OPERATION_NOT_APPROVED">> >>
  IN  [executed |-> AllOpen(gates), denialReason |-> ReasonOr(gates, None),
       mechanismApproved |-> authorized /\ gates[2][1],
       wrappingOperationApproved |-> authorized /\ gates[2][1] /\ gates[3][1]]

(* The marker of the summary is there when the execution completed.        *)
verifyKeyRotationMechanismExecution(execution) ==
  LET gates == << <<execution.executed, "EXECUTION_NOT_COMPLETED">>,
                  <<execution.mechanismApproved, "MECHANISM_NOT_APPROVED">>,
                  <<execution.wrappingOperationApproved, "WRAPPING_OPERATION_NOT_APPROVED">>,
                  <<execution.executed, "EXECUTION_MARKER_MISSING">> >>
  IN  [verified |-> AllOpen(gates), failureReason |-> ReasonOr(gates, None)]

----------------------------------------------------------------------------
(* Infrastructure: each stage takes the result of the one before.          *)

KEY_ROTATION_INFRASTRUCTURE_POLICY ==
  [KEY_ROTATION_INFRASTRUCTURE |-> {"MANAGED_KMS", "HSM", "SECRET_VAULT"},
   ENCRYPTED_STORAGE           |-> {"DATABASE", "OBJECT_STORAGE", "BACKUP_STORAGE"},
   RECOVERY_CAPABILITY         |-> {"KEY_RECOVERY", "KEY_BACKUP", "KEY_RESTORE"}]

resolveApprovedClassesForResource(resource) == KEY_ROTATION_INFRASTRUCTURE_POLICY[resource]

authorizeKeyRotationInfrastructureProvisioning(request) ==
  LET approved == UNION {KEY_ROTATION_INFRASTRUCTURE_POLICY[r] :
                           r \in DOMAIN KEY_ROTATION_INFRASTRUCTURE_POLICY}
      gates == << <<request.infrastructureClass \in approved,
                    "INFRASTRUCTURE_CLASS_NOT_APPROVED">>,
                  <<request.infrastructureClass
                      \in resolveApprovedClassesForResource(request.resource),
                    "INFRASTRUCTURE_CLASS_RESOURCE_MISMATCH">> >>
  IN  [provisioningAuthorized |-> AllOpen(gates), policyValidated |-> gates[1][1],
       resourceCompatible |-> AllOpen(gates), denialReason |-> ReasonOr(gates, None)]

authorizeKeyRotationInfrastructureAccess(provisioning, allowed) ==
  LET gates == << <<provisioning.provisioningAuthorized, "PROVISIONING_NOT_AUTHORIZED">>,
                  <<allowed, "ACCESS_NOT_ALLOWED">> >>
  IN  [accessGranted |-> AllOpen(gates), denialReason |-> ReasonOr(gates, None),
       provisioningAuthorized |-> provisioning.provisioningAuthorized]

authorizeKeyRotationInfrastructureUsage(access, allowed) ==
  LET gates == << <<access.accessGranted, "ACCESS_NOT_GRANTED">>,
                  <<allowed, "USAGE_NOT_ALLOWED">> >>
  IN  [usageAuthorized |-> AllOpen(gates), denialReason |-> ReasonOr(gates, None),
       accessGranted |-> access.accessGranted,
       provisioningAuthorized |-> access.provisioningAuthorized]

(* Mutant of the recovery stage: its own decision is enough.               *)
RecoveryAllowed(usage, allowed) ==
  [recoveryAuthorized |-> TRUE, denialReason |-> None,
   usageAuthorized |-> usage.usageAuthorized, accessGranted |-> usage.accessGranted,
   provisioningAuthorized |-> usage.provisioningAuthorized]

authorizeKeyRotationInfrastructureRecovery(usage, allowed) ==
  LET gates == << <<usage.usageAuthorized, "USAGE_NOT_AUTHORIZED">>,
                  <<allowed, "RECOVERY_NOT_ALLOWED">> >>
  IN  [recoveryAuthorized |-> AllOpen(gates), denialReason |-> ReasonOr(gates, None),
       usageAuthorized |-> usage.usageAuthorized, accessGranted |-> usage.accessGranted,
       provisioningAuthorized |-> usage.provisioningAuthorized]

----------------------------------------------------------------------------
(* P9G.                                                                    *)

KeyRotationOrchestrationInput ==
  [governanceRequest : [authority : KEY_ROTATION_GOVERNANCE_POLICY.authorizedAuthorities
                                      \union {"OTHER_AUTHORITY"},
                        trigger : {"SCHEDULED_ROTATION", "KEY_COMPROMISE", "OTHER_TRIGGER"}],
   mechanismRequest : [mechanism : {"KEY_REWRAP", "OTHER_MECHANISM"},
                       wrappingOperation : {"REWRAP_KEY", "OTHER_OPERATION"}],
   infrastructureProvisioningRequest :
     [resource : DOMAIN KEY_ROTATION_INFRASTRUCTURE_POLICY,
      infrastructureClass : {"HSM", "DATABASE", "OTHER_CLASS"}],
   accessDecision : BOOLEAN, usageDecision : BOOLEAN, recoveryDecision : BOOLEAN,
   evidenceId : {"evidence", None}]

(* What P9G has computed when it says no, or at the end: every stage is a  *)
(* function of the input and of the stages before it.                      *)
GovernanceFamily(input) ==
  LET decision == evaluateKeyRotationGovernance(input.governanceRequest)
      evidence == generateKeyRotationGovernanceEvidence(input.evidenceId, decision)
      record   == recordKeyRotationGovernanceEvidence("record", evidence)
  IN  [decision |-> decision, evidence |-> evidence, record |-> record,
       audit |-> auditKeyRotationGovernanceLedger(record)]

MechanismFamily(input) ==
  LET execution == executeKeyRotationMechanism(TRUE, input.mechanismRequest)
  IN  [execution |-> execution, verification |-> verifyKeyRotationMechanismExecution(execution)]

InfrastructureFamily(input) ==
  LET provisioning == authorizeKeyRotationInfrastructureProvisioning(
                        input.infrastructureProvisioningRequest)
      access == authorizeKeyRotationInfrastructureAccess(provisioning, input.accessDecision)
      usage  == authorizeKeyRotationInfrastructureUsage(access, input.usageDecision)
  IN  [provisioning |-> provisioning, access |-> access, usage |-> usage,
       recovery |-> authorizeKeyRotationInfrastructureRecovery(usage, input.recoveryDecision)]

OrchestrationGates(governance, mechanism, infrastructure) ==
  << <<governance.decision.decisionStatus # "ROTATION_DENIED", "GOVERNANCE_DENIED">>,
     <<governance.audit.auditStatus = "AUDIT_PASSED", "GOVERNANCE_AUDIT_FAILED">>,
     <<mechanism.execution.executed, "MECHANISM_EXECUTION_DENIED">>,
     <<mechanism.verification.verified, "MECHANISM_VERIFICATION_FAILED">>,
     <<infrastructure.provisioning.provisioningAuthorized, "INFRASTRUCTURE_PROVISIONING_DENIED">>,
     <<infrastructure.access.accessGranted, "INFRASTRUCTURE_ACCESS_DENIED">>,
     <<infrastructure.usage.usageAuthorized, "INFRASTRUCTURE_USAGE_DENIED">>,
     <<infrastructure.recovery.recoveryAuthorized, "INFRASTRUCTURE_RECOVERY_DENIED">> >>

KeyRotationOrchestrationResult(status, reason, governance) ==
  [orchestrationStatus |-> status, denialReason |-> reason,
   governanceDecision |-> governance.decision, governanceLedgerRecord |-> governance.record,
   governanceAuditResult |-> governance.audit]

orchestrateKeyRotation(input) ==
  LET governance == GovernanceFamily(input)
      gates == OrchestrationGates(governance, MechanismFamily(input),
                                  InfrastructureFamily(input))
  IN  KeyRotationOrchestrationResult(
        IF AllOpen(gates) THEN "COMPLETED" ELSE "DENIED", ReasonOr(gates, None), governance)
=============================================================================
