------------------------ MODULE SovereigntyPolicies ------------------------
(***************************************************************************)
(* The policies of core/src/security and core/src/governance/recovery: who *)
(* may see a domain of data (tenant.boundary.ts), where it may go          *)
(* (sovereignty.policy.ts), what may be done with it (encryption.policy.ts *)
(* over encryption.domains.ts), and how it may be recovered                *)
(* (governance.recovery.policy.ts, its runtime, evidence and record).      *)
(*                                                                         *)
(* Each judges one request by what the request says of it.  What callers   *)
(* do with the answers in turn is external: whoever holds a copy of data   *)
(* asks a policy about it, truly or not, and does what is allowed.         *)
(***************************************************************************)
CONSTANTS
  Operations,   \* what the policies are asked
  Regions       \* where data that names no destination may end

VARIABLES
  copies,       \* the copies of each domain of data: where they are, and how they came there
  recoveries    \* records of recoveries

dataVars == <<copies, recoveries>>

None == "none"

EncryptionDomain ==
  {"NARRATIVE", "ATTENTION", "DECISION_MEMORY", "EXECUTION_MEMORY", "COGNITION_SYNTHESIS",
   "GOVERNANCE", "OAG", "CHARTER", "LLM_LEDGER", "SNAPSHOT", "AUDIT_LEDGER"}

(* open: what a language model, a cache and an export may see.  Every      *)
(* domain is encrypted, isolated and closed to other tenants.              *)
EncryptionDomainPolicy(classification, sovereignty) ==
  [classification |-> classification, sovereignty |-> sovereignty, open |-> FALSE,
   immutable_required |-> classification # "SENSITIVE", cross_tenant_forbidden |-> TRUE,
   human_recovery_approval_required |-> TRUE]

ENCRYPTION_DOMAIN_POLICIES ==
  [NARRATIVE |->
     [EncryptionDomainPolicy("INTERNAL", "TENANT_LOCAL") EXCEPT
        !.open = TRUE, !.immutable_required = FALSE,
        !.human_recovery_approval_required = FALSE],
   ATTENTION |-> EncryptionDomainPolicy("SENSITIVE", "TENANT_LOCAL"),
   DECISION_MEMORY |-> EncryptionDomainPolicy("CRITICAL", "TENANT_LOCAL"),
   EXECUTION_MEMORY |-> EncryptionDomainPolicy("CRITICAL", "TENANT_LOCAL"),
   COGNITION_SYNTHESIS |-> EncryptionDomainPolicy("CRITICAL", "BOARD_GOVERNED"),
   GOVERNANCE |-> EncryptionDomainPolicy("CONSTITUTIONAL", "BOARD_GOVERNED"),
   OAG |-> EncryptionDomainPolicy("CONSTITUTIONAL", "NON_EXPORTABLE"),
   CHARTER |-> EncryptionDomainPolicy("CONSTITUTIONAL", "NON_EXPORTABLE"),
   LLM_LEDGER |-> EncryptionDomainPolicy("CRITICAL", "TENANT_LOCAL"),
   SNAPSHOT |-> EncryptionDomainPolicy("CRITICAL", "TENANT_LOCAL"),
   AUDIT_LEDGER |-> EncryptionDomainPolicy("CONSTITUTIONAL", "BOARD_GOVERNED")]

PolicyOf(domain) == ENCRYPTION_DOMAIN_POLICIES[domain]

Result(allowed, severity) == [allowed |-> allowed, severity |-> severity]

(* Where the company's own data is at first.  internal: the system itself  *)
(* accessed it on its way; told: every request on its way said where it    *)
(* was and where it would go.                                              *)
Home == [tenant |-> "t1", region |-> "eu", internal |-> FALSE, told |-> TRUE]

----------------------------------------------------------------------------
(* tenant.boundary.ts                                                      *)

resolveAccessMode(request) ==
  IF request.systemInternal THEN "SYSTEM_INTERNAL"
  ELSE IF request.source # request.target THEN "CROSS_TENANT" ELSE "LOCAL"

resolveViolationSeverity(domain) ==
  CASE domain \in {"CHARTER", "OAG", "GOVERNANCE", "AUDIT_LEDGER"} -> "CRITICAL"
    [] domain \in {"COGNITION_SYNTHESIS", "DECISION_MEMORY", "EXECUTION_MEMORY", "SNAPSHOT"} ->
         "HIGH"
    [] OTHER -> "LOW"

evaluateTenantBoundary(request) ==
  IF request.source = request.target THEN Result(TRUE, "NONE")
  ELSE IF resolveAccessMode(request) = "SYSTEM_INTERNAL" THEN Result(TRUE, "LOW")
  ELSE IF PolicyOf(request.domain).cross_tenant_forbidden
  THEN Result(FALSE, resolveViolationSeverity(request.domain))
  ELSE Result(TRUE, "LOW")

----------------------------------------------------------------------------
(* sovereignty.policy.ts                                                   *)

SovereigntySeverity(sovereignty) ==
  CASE sovereignty \in {"NON_EXPORTABLE", "BOARD_GOVERNED"} -> "CRITICAL"
    [] sovereignty = "REGION_LOCKED" -> "HIGH"
    [] OTHER -> "LOW"

(* A request that names no target region is not held to cross any.         *)
CrossesRegion(request) == request.target \notin {None, request.source}

(* Mutant of SovereigntyDenies: only a transfer crosses a region.          *)
DeniesTransfers(request) ==
  LET policy == PolicyOf(request.domain)
  IN  /\ policy.sovereignty = "NON_EXPORTABLE"
      /\ request.operation = "TRANSFER" /\ CrossesRegion(request)

SovereigntyDenies(request) ==
  LET policy == PolicyOf(request.domain)
  IN  \/ policy.sovereignty \in {"NON_EXPORTABLE", "REGION_LOCKED"} /\ CrossesRegion(request)
      \/ request.involves_authority /\ request.locality = "GLOBAL_RUNTIME"
      \/ /\ request.involves_cognition
         /\ request.operation = "TRANSFER"
         /\ policy.cross_tenant_forbidden
      \/ request.operation = "REPLICATE" /\ policy.sovereignty = "NON_EXPORTABLE"

evaluateSovereigntyPolicy(request) ==
  Result(~SovereigntyDenies(request),
         SovereigntySeverity(PolicyOf(request.domain).sovereignty))

----------------------------------------------------------------------------
(* encryption.policy.ts                                                    *)

EncryptionSeverity(policy) ==
  CASE policy.classification = "CONSTITUTIONAL" -> "CRITICAL"
    [] policy.classification = "CRITICAL" -> "HIGH"
    [] OTHER -> "LOW"

resolveEncryptionPolicy(request) ==
  LET policy == PolicyOf(request.domain)
  IN  Result(request.operation \in {"EXPORT", "CACHE", "LLM_ACCESS"} => policy.open,
             EncryptionSeverity(policy))

----------------------------------------------------------------------------
(* governance.recovery.policy.ts and governance.recovery.runtime.ts        *)

RecoveryDomain ==
  {"TECHNICAL_SNAPSHOT", "OPERATIONAL_SNAPSHOT", "DECISION_MEMORY", "EXECUTION_MEMORY",
   "COGNITION_SYNTHESIS", "AUDIT_LEDGER", "GOVERNANCE", "OAG", "CHARTER"}

HoldsAuthority(domain) == domain \in {"GOVERNANCE", "OAG", "CHARTER"}

RECOVERY_POLICIES ==
  [d \in RecoveryDomain |->
     [recovery_allowed |-> d # "CHARTER",
      human_approval_required |-> d # "TECHNICAL_SNAPSHOT",
      authority_reconstruction_required |-> HoldsAuthority(d)]]

evaluateRecoveryRequest(request) ==
  LET policy == RECOVERY_POLICIES[request.domain]
  IN  IF ~policy.recovery_allowed THEN "DENIED"
      ELSE IF policy.human_approval_required /\ request.approverId = None
      THEN "APPROVAL_REQUIRED"
      ELSE "ALLOWED"

(* governance.recovery.evidence.runtime.ts and                             *)
(* governance.recovery.ledger.runtime.ts                                   *)
resolveEvidenceType(domain, status) ==
  CASE status = "DENIED" -> "RECOVERY_DENIED"
    [] status = "APPROVAL_REQUIRED" -> "RECOVERY_APPROVAL_REQUIRED"
    [] OTHER -> IF RECOVERY_POLICIES[domain].authority_reconstruction_required
                THEN "AUTHORITY_RECONSTRUCTION_REQUIRED" ELSE "RECOVERY_ALLOWED"

buildGovernanceLedgerRecordFromRecoveryEvidence(request) ==
  LET status == evaluateRecoveryRequest(request)
  IN  [domain |-> request.domain, approverId |-> request.approverId,
       decisionStatus |-> status, recordType |-> resolveEvidenceType(request.domain, status)]

----------------------------------------------------------------------------
ASSUME OperationsAssumption ==
  \A operation \in Operations :
    \/ /\ operation.policy = "TENANT_BOUNDARY"
       /\ operation.domain \in EncryptionDomain
       /\ operation.systemInternal \in BOOLEAN
    \/ /\ operation.policy \in {"SOVEREIGNTY_POLICY", "ENCRYPTION_POLICY"}
       /\ operation.domain \in EncryptionDomain
    \/ operation.policy = "RECOVERY" /\ operation.domain \in RecoveryDomain

ResultOf(operation) ==
  CASE operation.policy = "TENANT_BOUNDARY" -> evaluateTenantBoundary(operation)
    [] operation.policy = "SOVEREIGNTY_POLICY" -> evaluateSovereigntyPolicy(operation)
    [] operation.policy = "ENCRYPTION_POLICY" -> resolveEncryptionPolicy(operation)

(* The copies an allowed operation may make of a copy.  One that names no  *)
(* target region may end in any, and an export ends with no tenant.        *)
CopiesMade(operation, copy) ==
  CASE operation.policy = "TENANT_BOUNDARY" ->
         {[copy EXCEPT !.tenant = operation.target,
                       !.internal = copy.internal \/ operation.systemInternal,
                       !.told = copy.told /\ operation.source = copy.tenant]}
    [] /\ operation.policy = "SOVEREIGNTY_POLICY"
       /\ operation.operation \in {"TRANSFER", "REPLICATE", "STORE"} ->
         {[copy EXCEPT !.region = region,
                       !.told = /\ copy.told
                                /\ operation.source = copy.region
                                /\ operation.target # None] :
            region \in IF operation.target = None THEN Regions ELSE {operation.target}}
    [] operation.policy = "ENCRYPTION_POLICY" /\ operation.operation = "EXPORT" ->
         {[copy EXCEPT !.tenant = None]}
    [] OTHER -> {}

DataInit ==
  /\ copies = [d \in EncryptionDomain |-> {Home}]
  /\ recoveries = {}

(* A policy is asserted of a copy: what is denied throws.  (The assertion  *)
(* creates evidence of its result and lets it go.)                         *)
AssertPolicy(operation) ==
  /\ operation.policy # "RECOVERY"
  /\ ResultOf(operation).allowed
  /\ \E copy \in copies[operation.domain] : \E made \in CopiesMade(operation, copy) :
       copies' = [copies EXCEPT ![operation.domain] = @ \union {made}]
  /\ UNCHANGED recoveries

Recover(operation) ==
  /\ operation.policy = "RECOVERY"
  /\ recoveries' = recoveries \union {buildGovernanceLedgerRecordFromRecoveryEvidence(operation)}
  /\ UNCHANGED copies

DataNext == \E operation \in Operations : AssertPolicy(operation) \/ Recover(operation)

----------------------------------------------------------------------------
(* However allowed operations follow each other, a copy of data that may   *)
(* not leave its region is in it, and a copy with another tenant was       *)
(* accessed by the system itself or may be exported - as long as every     *)
(* request on the way of the copy said where it was and where it would go. *)
(* And what is recorded as recovered was approved, was never the charter,  *)
(* and says that authority must be reconstructed where it holds any.       *)
DataStaysGoverned ==
  /\ \A d \in EncryptionDomain : \A c \in copies[d] :
       /\ c.told /\ PolicyOf(d).sovereignty = "NON_EXPORTABLE" => c.region = Home.region
       /\ c.told /\ c.tenant # Home.tenant => c.internal \/ PolicyOf(d).open
  /\ \A record \in recoveries : record.decisionStatus = "ALLOWED" =>
       /\ record.domain # "CHARTER"
       /\ record.approverId # None \/ record.domain = "TECHNICAL_SNAPSHOT"
       /\ HoldsAuthority(record.domain) => record.recordType = "AUTHORITY_RECONSTRUCTION_REQUIRED"
=============================================================================
