------------------------ MODULE ProviderAttestation ------------------------
(***************************************************************************)
(* P9V binds one observed provider cryptographic operation to one provider *)
(* runtime fact that P9U has bound to the immutable chain; P9W admits an   *)
(* attestation a provider gave for such a binding.                         *)
(*                                                                         *)
(* Both are synchronous and keep nothing: their caller, external, holds    *)
(* the bindings and the attestations and decides which two to put before   *)
(* P9W, when, and how often.                                               *)
(***************************************************************************)
EXTENDS FiniteSets, Gates

CONSTANTS
  Runtimes,     \* P9U results, as P9V looks at them
  Observations, \* the operation facts providers report
  Presented,    \* which of the one the caller puts before P9V with which of the other
  Slots,        \* the bindings the caller holds
  AttestationIds,
  MaxAttestationEdits      \* bound: alterations of what the caller holds

Operations == {"ROTATE_KEY", "REWRAP_KEY", "DISABLE_OLD_KEY", "ACTIVATE_NEW_KEY"}

(* The kinds P9V knows; the runtime's operations name two of them.         *)
OperationKinds ==
  {"ENCRYPT", "DECRYPT", "WRAP_KEY", "UNWRAP_KEY", "REWRAP_KEY", "ROTATE_KEY",
   "GENERATE_DATA_KEY", "SIGN", "VERIFY", "OTHER_CRYPTOGRAPHIC_OPERATION"}

(* What the two sides of a binding have to say of it.  provider stands for *)
(* contract and implementation, note for observedAt and the provider's own *)
(* reference, persistence for the four fields of the P9R write, chain for  *)
(* the five of the P9U record.                                             *)
OperationFields ==
  {"id", "context", "kind", "provider", "operation", "resource", "key", "tenant",
   "input", "output", "note"}
RuntimeFields == {"company", "persistence", "chain"}
BindingFields == OperationFields \union RuntimeFields

(* P9W compares, and repeats, everything but the note.                     *)
AttestedFields == BindingFields \ {"note"}

ProviderCryptographicArtifactIdentity(artifact) ==
  artifact # None => {"id", "digest", "complete"} \subseteq DOMAIN artifact

ProviderCryptographicOperationFact(fact) ==
  /\ DOMAIN fact = OperationFields \union {"observed"}
  /\ fact.kind \in OperationKinds
  /\ ProviderCryptographicArtifactIdentity(fact.input)
  /\ ProviderCryptographicArtifactIdentity(fact.output)

RuntimeLedgerBinding(runtime) ==
  /\ DOMAIN runtime = {"bound", "verified", "persistence", "chain", "provider", "resource",
                       "operation", "tenant", "company", "context"}
  /\ runtime.operation \in Operations

ASSUME RuntimesAssumption == \A r \in Runtimes : RuntimeLedgerBinding(r)
ASSUME ObservationsAssumption ==
  \A f \in Observations : ProviderCryptographicOperationFact(f)
ASSUME PresentedAssumption == Presented \subseteq Runtimes \X Observations
ASSUME AttestationEditsAssumption == MaxAttestationEdits \in Nat

----------------------------------------------------------------------------
(* P9V: the coherence checks.                                              *)

artifactIdentityIsComplete(artifact) == artifact # None /\ artifact.complete

cryptographicArtifactLineageExists(fact) ==
  artifactIdentityIsComplete(fact.input) \/ artifactIdentityIsComplete(fact.output)

cryptographicArtifactLineageIsCoherent(fact) ==
  /\ fact.input # None => artifactIdentityIsComplete(fact.input)
  /\ fact.output # None => artifactIdentityIsComplete(fact.output)
  /\ fact.input # None /\ fact.output # None /\ fact.input.id = fact.output.id
       => fact.input.digest = fact.output.digest

p9uDurableRuntimeIdentityExists(runtime) == runtime.persistence # None

p9uChainIdentityExists(runtime) == runtime.chain # None

p9uRuntimeLedgerIsCryptographicallyBound(runtime) == runtime.bound

p9uImmutableChainIsVerified(runtime) == runtime.verified

providerContextIsCoherent(runtime, fact) ==
  runtime.provider = fact.provider /\ runtime.resource = fact.resource

runtimeOperationIsCoherent(runtime, fact) == runtime.operation = fact.operation

(* The key an operation used is the resource of the provider runtime.      *)
providerKeyReferenceIsCoherent(runtime, fact) ==
  /\ fact.key # None
  /\ runtime.resource # None
  /\ fact.key = runtime.resource

sovereignTenantContextIsCoherent(runtime, fact) ==
  /\ runtime.tenant # None
  /\ fact.tenant # None
  /\ runtime.tenant = fact.tenant

(* A runtime that names no context accepts any.                            *)
cryptographicContextIsCoherent(runtime, fact) ==
  /\ fact.context # None
  /\ runtime.context \in {None, fact.context}

cryptographicOperationKindIsCoherent(runtime, fact) ==
  fact.kind = IF runtime.operation \in OperationKinds THEN runtime.operation
              ELSE "OTHER_CRYPTOGRAPHIC_OPERATION"

----------------------------------------------------------------------------
(* P9V: the canonical binding, and the results.                            *)

ResultContext(runtime, fact) ==
  [f \in BindingFields |-> IF f \in RuntimeFields THEN runtime[f] ELSE fact[f]]

createCanonicalOperationBinding(runtime, fact) ==
  IF p9uDurableRuntimeIdentityExists(runtime) /\ p9uChainIdentityExists(runtime)
  THEN ResultContext(runtime, fact)
  ELSE None

(* What the fact alone says, input, output and note, is not looked at.     *)
canonicalOperationBindingIsCoherent(binding, runtime, fact) ==
  /\ runtime.chain # None
  /\ \A f \in {"id", "context", "kind", "key"} : binding[f] = fact[f]
  /\ \A f \in {"provider", "operation", "resource", "tenant"} \union RuntimeFields :
       binding[f] = runtime[f]

(* SHA-256 over the key-sorted text: one digest per binding.               *)
createBindingDigest(binding) == [sha256 |-> binding]

(* An absent digest is none of a binding.                                  *)
ASSUME AttestationNoneAssumption ==
  \A p \in Presented : createBindingDigest(ResultContext(p[1], p[2])) # None

DeniedBinding(runtime, fact, reason) ==
  [status |-> "DENIED", reason |-> reason, about |-> ResultContext(runtime, fact),
   canonical |-> None, digest |-> None]

NotBound(runtime, fact, reason) ==
  [status |-> "NOT_BOUND", reason |-> reason, about |-> ResultContext(runtime, fact),
   canonical |-> None, digest |-> None]

(* Mutant of Bound: the digest is forgotten.                               *)
BoundUndigested(runtime, fact, canonical) ==
  [status |-> "BOUND", reason |-> None, about |-> ResultContext(runtime, fact),
   canonical |-> canonical, digest |-> None]

Bound(runtime, fact, canonical) ==
  [status |-> "BOUND", reason |-> None, about |-> ResultContext(runtime, fact),
   canonical |-> canonical, digest |-> createBindingDigest(canonical)]

(* The gates, in the order the code closes them: the first closed one is   *)
(* the denial, or the failure to bind.                                     *)
BindingDenial(runtime, fact, allowed) ==
  << <<allowed, "CRYPTOGRAPHIC_OPERATION_BINDING_NOT_ALLOWED">>,
     <<p9uRuntimeLedgerIsCryptographicallyBound(runtime),
       "P9U_RUNTIME_LEDGER_NOT_CRYPTOGRAPHICALLY_BOUND">>,
     <<p9uImmutableChainIsVerified(runtime), "P9U_IMMUTABLE_CHAIN_NOT_VERIFIED">>,
     <<p9uDurableRuntimeIdentityExists(runtime) /\ p9uChainIdentityExists(runtime),
       "P9U_DURABLE_RUNTIME_IDENTITY_MISSING">>,
     <<fact.observed, "CRYPTOGRAPHIC_OPERATION_NOT_OBSERVED">>,
     <<fact.id # None, "CRYPTOGRAPHIC_OPERATION_IDENTITY_MISSING">>,
     <<fact.context # None, "CRYPTOGRAPHIC_CONTEXT_IDENTITY_MISSING">>,
     <<fact.key # None, "PROVIDER_KEY_REFERENCE_MISSING">>,
     <<cryptographicArtifactLineageExists(fact),
       "CRYPTOGRAPHIC_ARTIFACT_LINEAGE_MISSING">> >>

BindingFailure(runtime, fact) ==
  << <<providerContextIsCoherent(runtime, fact), "PROVIDER_CONTEXT_MISMATCH">>,
     <</\ runtimeOperationIsCoherent(runtime, fact)
       /\ cryptographicOperationKindIsCoherent(runtime, fact), "RUNTIME_OPERATION_MISMATCH">>,
     <<providerKeyReferenceIsCoherent(runtime, fact), "PROVIDER_KEY_REFERENCE_MISMATCH">>,
     <<sovereignTenantContextIsCoherent(runtime, fact), "SOVEREIGN_TENANT_CONTEXT_MISMATCH">>,
     <<cryptographicContextIsCoherent(runtime, fact), "CRYPTOGRAPHIC_CONTEXT_MISMATCH">>,
     <<cryptographicArtifactLineageIsCoherent(fact),
       "CRYPTOGRAPHIC_ARTIFACT_LINEAGE_INCOHERENT">> >>

bindProviderCryptographicOperation(runtime, fact, allowed) ==
  LET denial    == BindingDenial(runtime, fact, allowed)
      failure   == BindingFailure(runtime, fact)
      canonical == createCanonicalOperationBinding(runtime, fact)
  IN  IF ~AllOpen(denial) THEN DeniedBinding(runtime, fact, FirstClosed(denial))
      ELSE IF ~AllOpen(failure) THEN NotBound(runtime, fact, FirstClosed(failure))
      ELSE IF canonical = None
        THEN NotBound(runtime, fact, "CANONICAL_OPERATION_BINDING_NOT_CREATED")
      ELSE IF ~canonicalOperationBindingIsCoherent(canonical, runtime, fact)
        THEN NotBound(runtime, fact, "CANONICAL_OPERATION_BINDING_INCOHERENT")
      ELSE Bound(runtime, fact, canonical)

----------------------------------------------------------------------------
(* P9W: an attestation as a provider gives it.  complete stands for the    *)
(* type, the version and the other fields that must be present; target is  *)
(* the digest of the binding it attests; summary whether it has one.       *)

ProviderCryptographicAttestationMaterial(material) ==
  DOMAIN material = {"id", "observed", "complete", "target", "about", "summary"}

p9vBindingIsCompleted(binding) == binding.status = "BOUND" /\ binding.canonical # None

p9vBindingDigestExists(binding) == binding.digest # None

attestationMaterialShapeIsValid(material) ==
  /\ material # None
  /\ material.observed
  /\ material.complete
  /\ material.target # None
  /\ \A f \in {"id", "context", "key", "tenant", "company", "persistence", "chain"} :
       material.about[f] # None

targetBindingDigestIsCoherent(binding, material) == material.target = binding.digest

Same(fields, binding, material) == \A f \in fields : material.about[f] = binding.about[f]

operationContextIsCoherent(binding, material) ==
  Same({"id", "context", "kind"}, binding, material)

providerRuntimeContextIsCoherent(binding, material) ==
  Same({"provider", "operation", "resource"}, binding, material)

P9wProviderKeyReferenceIsCoherent(binding, material) == Same({"key"}, binding, material)

artifactLineageIsCoherent(binding, material) ==
  /\ Same({"input", "output"}, binding, material)
  /\ material.about["input"] # None \/ material.about["output"] # None

sovereignContextIsCoherent(binding, material) == Same({"tenant", "company"}, binding, material)

(* Mutant of p9uLineageIsCoherent: the chain record is not compared.       *)
WriteIsCoherent(binding, material) == Same({"persistence"}, binding, material)

p9uLineageIsCoherent(binding, material) == Same({"persistence", "chain"}, binding, material)

attestationSummaryIsSufficient(material) == material.summary

ProviderCryptographicAttestationAdmissionMaterial(admitted) ==
  /\ DOMAIN admitted = {"attestation", "target", "about"}
  /\ DOMAIN admitted.about = AttestedFields

ProviderCryptographicAttestationAdmissionResult(result) ==
  /\ DOMAIN result = {"status", "reason", "context", "admitted"}
  /\ DOMAIN result.context.about = AttestedFields
  /\ IF result.status = "ADMITTED"
     THEN ProviderCryptographicAttestationAdmissionMaterial(result.admitted)
     ELSE result.admitted = None

buildAdmissionMaterial(material) ==
  [attestation |-> material.id, target |-> material.target, about |-> material.about]

P9wResultContext(binding, material) ==
  [attestation |-> IF material = None THEN None ELSE material.id,
   about |-> [f \in AttestedFields |-> binding.about[f]]]

DeniedAdmission(binding, material, reason) ==
  [status |-> "DENIED", reason |-> reason, context |-> P9wResultContext(binding, material),
   admitted |-> None]

NotAdmitted(binding, material, reason) ==
  [status |-> "NOT_ADMITTED", reason |-> reason,
   context |-> P9wResultContext(binding, material), admitted |-> None]

AttestationAdmitted(binding, material) ==
  [status |-> "ADMITTED", reason |-> None, context |-> P9wResultContext(binding, material),
   admitted |-> buildAdmissionMaterial(material)]

AdmissionDenial(binding, allowed) ==
  << <<allowed, "CRYPTOGRAPHIC_ATTESTATION_ADMISSION_NOT_ALLOWED">>,
     <<binding.status # "DENIED", "P9V_OPERATION_BINDING_DENIED">> >>

AdmissionMissing(binding, material) ==
  << <<p9vBindingIsCompleted(binding), "P9V_OPERATION_BINDING_NOT_COMPLETED">>,
     <<p9vBindingDigestExists(binding), "P9V_OPERATION_BINDING_DIGEST_MISSING">>,
     <<attestationMaterialShapeIsValid(material), "ATTESTATION_MATERIAL_MISSING">> >>

AdmissionIncoherent(binding, material) ==
  << <<targetBindingDigestIsCoherent(binding, material),
       "ATTESTATION_TARGET_BINDING_DIGEST_INCOHERENT">>,
     <<operationContextIsCoherent(binding, material),
       "ATTESTATION_OPERATION_CONTEXT_INCOHERENT">>,
     <<P9wProviderKeyReferenceIsCoherent(binding, material),
       "ATTESTATION_PROVIDER_KEY_REFERENCE_INCOHERENT">>,
     <<artifactLineageIsCoherent(binding, material),
       "ATTESTATION_ARTIFACT_LINEAGE_INCOHERENT">>,
     <<sovereignContextIsCoherent(binding, material),
       "ATTESTATION_SOVEREIGN_CONTEXT_INCOHERENT">>,
     <<providerRuntimeContextIsCoherent(binding, material),
       "ATTESTATION_PROVIDER_RUNTIME_CONTEXT_INCOHERENT">>,
     <<p9uLineageIsCoherent(binding, material), "ATTESTATION_P9U_LINEAGE_INCOHERENT">>,
     <<attestationSummaryIsSufficient(material), "ATTESTATION_SUMMARY_INSUFFICIENT">> >>

verifyAndAdmitProviderCryptographicAttestation(binding, material, allowed) ==
  LET denial     == AdmissionDenial(binding, allowed)
      missing    == AdmissionMissing(binding, material)
      incoherent == AdmissionIncoherent(binding, material)
  IN  IF ~AllOpen(denial) THEN DeniedAdmission(binding, material, FirstClosed(denial))
      ELSE IF ~AllOpen(missing) THEN NotAdmitted(binding, material, FirstClosed(missing))
      ELSE IF ~AllOpen(incoherent) THEN NotAdmitted(binding, material, FirstClosed(incoherent))
      ELSE AttestationAdmitted(binding, material)

----------------------------------------------------------------------------
(* The caller.                                                             *)

VARIABLES
  bindings,     \* per slot: the P9V result held, or None
  attestations, \* per identifier: the attestation held, or None
  admissions,   \* history: what P9W answered with ADMITTED, and to what
  attestationEdits         \* history: alterations so far

attestationVars == <<bindings, attestations, admissions, attestationEdits>>

AttestationInit ==
  /\ bindings = [s \in Slots |-> None]
  /\ attestations = [a \in AttestationIds |-> None]
  /\ admissions = {}
  /\ attestationEdits = 0

(* One fact may be presented with several, and in several slots.           *)
BindOperation(s, runtime, fact, allowed) ==
  /\ bindings[s] = None
  /\ bindings' = [bindings EXCEPT ![s] =
       bindProviderCryptographicOperation(runtime, fact, allowed)]
  /\ UNCHANGED <<attestations, admissions, attestationEdits>>

(* The provider attests a digest, and describes the binding digested.      *)
Attestation(a, binding) ==
  [id |-> a, observed |-> TRUE, complete |-> TRUE, summary |-> TRUE,
   target |-> binding.digest,
   about |-> [f \in AttestedFields |-> binding.digest.sha256[f]]]

(* As it should, or not complete.                                          *)
Attest(a, s) ==
  /\ bindings[s] # None
  /\ bindings[s].digest # None
  /\ attestations[a] = None
  /\ LET given == Attestation(a, bindings[s])
     IN  \E material \in {given, [given EXCEPT !.observed = FALSE],
                          [given EXCEPT !.complete = FALSE], [given EXCEPT !.summary = FALSE]} :
           attestations' = [attestations EXCEPT ![a] = material]
  /\ UNCHANGED <<bindings, admissions, attestationEdits>>

(* What stands in a field of another binding.                              *)
OtherValues(f, about) ==
  {bindings[s].about[f] : s \in {t \in Slots : bindings[t] # None}} \ {about[f]}

(* A field of a held binding or attestation is overwritten.                *)
AlterBinding(s) ==
  /\ attestationEdits < MaxAttestationEdits
  /\ bindings[s] # None
  /\ \E f \in BindingFields : \E v \in OtherValues(f, bindings[s].about) :
       bindings' = [bindings EXCEPT ![s].about[f] = v]
  /\ attestationEdits' = attestationEdits + 1
  /\ UNCHANGED <<attestations, admissions>>

AlterAttestation(a) ==
  /\ attestationEdits < MaxAttestationEdits
  /\ attestations[a] # None
  /\ \E f \in AttestedFields : \E v \in OtherValues(f, attestations[a].about) :
       attestations' = [attestations EXCEPT ![a].about[f] = v]
  /\ attestationEdits' = attestationEdits + 1
  /\ UNCHANGED <<bindings, admissions>>

(* Any binding with any attestation, or none; what is not admitted leaves  *)
(* nothing behind.                                                         *)
Admit(s, a) ==
  /\ bindings[s] # None
  /\ LET result == verifyAndAdmitProviderCryptographicAttestation(
                     bindings[s], attestations[a], TRUE)
     IN  /\ result.status = "ADMITTED"
         /\ admissions' = admissions \union
              {[result |-> result, material |-> attestations[a], digest |-> bindings[s].digest]}
  /\ UNCHANGED <<bindings, attestations, attestationEdits>>

AttestationNext ==
  \/ \E s \in Slots :
       \/ \E p \in Presented, allowed \in BOOLEAN : BindOperation(s, p[1], p[2], allowed)
       \/ AlterBinding(s)
       \/ \E a \in AttestationIds : Attest(a, s) \/ Admit(s, a)
  \/ \E a \in AttestationIds : AlterAttestation(a)

----------------------------------------------------------------------------
(* Properties.                                                             *)

AttestationTypeOK ==
  /\ \A s \in Slots : bindings[s] # None =>
       /\ bindings[s].status \in {"DENIED", "NOT_BOUND", "BOUND"}
       /\ DOMAIN bindings[s].about = BindingFields
       /\ bindings[s].status = "BOUND" <=> bindings[s].digest # None
  /\ \A a \in AttestationIds : attestations[a] # None =>
       /\ ProviderCryptographicAttestationMaterial(attestations[a])
       /\ attestations[a].id = a
  /\ \A x \in admissions : ProviderCryptographicAttestationAdmissionResult(x.result)
  /\ attestationEdits \in 0..MaxAttestationEdits

(* Whatever one alteration did meanwhile to a held binding or to an        *)
(* attestation, an admission says of the operation, its key, tenant,       *)
(* company, artifacts and chain record exactly what stood in the binding   *)
(* whose digest the provider attested.  P9W never recomputes the digest:   *)
(* its field by field comparison is all that stands for it.  And it goes   *)
(* back to a runtime fact on a verified chain, of the tenant and on the    *)
(* key that the operation names, whatever was bound or mixed up on the way. *)
AdmittedAsBound ==
  \A x \in admissions :
    LET about == x.result.admitted.about
    IN  /\ \A f \in AttestedFields :
             x.result.context.about[f] = x.digest.sha256[f] /\ about[f] = x.digest.sha256[f]
        /\ \E r \in Runtimes :
             /\ r.bound /\ r.verified
             /\ r.chain = about["chain"] /\ r.persistence = about["persistence"]
             /\ r.tenant = about["tenant"] /\ r.company = about["company"]
             /\ r.resource = about["key"] /\ r.operation = about["operation"]
=============================================================================
