---------------------------- MODULE ProviderCall ----------------------------
(***************************************************************************)
(* P9H, P9I and P9J: a provider operation from the resolution of its       *)
(* provider to the result the runtime takes in.                            *)
(*                                                                         *)
(* P9H decides whether the operation may proceed, P9I.2 and P9J.2 make the *)
(* request, an external caller invokes the provider's SDK, P9J.3 to P9J.5  *)
(* translate and sanitize its answer, and P9I.3 to P9I.6 hand the result   *)
(* on.  Every function returns a result and never throws: it is the next   *)
(* one that must look at it.  All are synchronous but the SDK's answer.    *)
(***************************************************************************)
EXTENDS FiniteSets, Gates

CONSTANTS
  Calls,      \* operations in hand
  Resources,  \* provider resources, keys
  CallRequests    \* contract, implementation, enabled, operation and resource asked for

ProviderContracts == {"KEY_MANAGEMENT", "SECRET_STORAGE", "HARDWARE_SECURITY_MODULE"}

SUPPORTED_PROVIDER_MAPPINGS ==
  [KEY_MANAGEMENT           |-> {"AWS_KMS", "AZURE_KEY_VAULT", "GOOGLE_CLOUD_KMS"},
   SECRET_STORAGE           |-> {"HASHICORP_VAULT"},
   HARDWARE_SECURITY_MODULE |-> {"ON_PREMISE_HSM"}]

ProviderImplementations ==
  UNION {SUPPORTED_PROVIDER_MAPPINGS[c] : c \in ProviderContracts}

ProviderOperations == {"ROTATE_KEY", "REWRAP_KEY", "DISABLE_OLD_KEY", "ACTIVATE_NEW_KEY"}

RequestShape ==
  [contract : ProviderContracts, implementation : ProviderImplementations,
   enabled : BOOLEAN, operation : ProviderOperations, resource : Resources]

ASSUME RequestsAssumption == CallRequests \subseteq RequestShape

(* A stage's own decision: FALSE is its DENY_ or REJECT_ value.            *)
Decision == BOOLEAN

----------------------------------------------------------------------------
(* P9H.1 to P9H.7.  Each result repeats the fields of the one before it    *)
(* and adds its own; reason is the stage's denialReason.                   *)

resolveProviderMapping(request) ==
  LET gates == << <<request.enabled, "PROVIDER_DISABLED">>,
                  <<request.implementation \in SUPPORTED_PROVIDER_MAPPINGS[request.contract],
                    "PROVIDER_NOT_SUPPORTED">> >>
  IN  [providerContract |-> request.contract,
       providerImplementation |-> request.implementation,
       providerEnabled |-> request.enabled, mappingValidated |-> AllOpen(gates),
       providerResolved |-> AllOpen(gates), reason |-> ReasonOr(gates, None)]

ProviderMappingResult ==
  [providerContract : ProviderContracts, providerImplementation : ProviderImplementations,
   providerEnabled : BOOLEAN, mappingValidated : BOOLEAN, providerResolved : BOOLEAN,
   reason : {None, "PROVIDER_DISABLED", "PROVIDER_NOT_SUPPORTED"}]

admitProviderRuntime(mapping, allowed) ==
  LET gates == << <<mapping.providerResolved, "PROVIDER_NOT_RESOLVED">>,
                  <<allowed, "PROVIDER_ADMISSION_DENIED">> >>
  IN  Extended(mapping,
        [providerAdmitted |-> AllOpen(gates), reason |-> ReasonOr(gates, None)])

executeProviderRuntime(admission, operation, allowed) ==
  LET gates == << <<admission.providerAdmitted, "PROVIDER_NOT_ADMITTED">>,
                  <<allowed, "PROVIDER_EXECUTION_NOT_ALLOWED">> >>
  IN  Extended(admission,
        [providerExecuted |-> AllOpen(gates), operation |-> operation,
         reason |-> ReasonOr(gates, None)])

VerificationGates(execution, allowed) ==
  << <<execution.providerExecuted, "PROVIDER_NOT_EXECUTED">>,
     <<execution.operation # None, "PROVIDER_OPERATION_MISSING">>,
     <<allowed, "PROVIDER_VERIFICATION_REJECTED">> >>

verifyProviderRuntime(execution, allowed) ==
  LET gates == VerificationGates(execution, allowed)
  IN  Extended(execution,
        [providerVerified |-> AllOpen(gates), reason |-> ReasonOr(gates, None)])

generateProviderEvidence(verification) ==
  LET gates == << <<verification.providerVerified, "PROVIDER_NOT_VERIFIED">> >>
  IN  Extended(verification,
        [providerEvidenceGenerated |-> AllOpen(gates), reason |-> ReasonOr(gates, None)])

(* The first stage that did not do its part names the failure.             *)
FailureGates(evidence) ==
  << <<evidence.providerResolved, "PROVIDER_NOT_RESOLVED">>,
     <<evidence.providerAdmitted, "PROVIDER_NOT_ADMITTED">>,
     <<evidence.providerExecuted, "PROVIDER_NOT_EXECUTED">>,
     <<evidence.providerVerified, "PROVIDER_NOT_VERIFIED">>,
     <<evidence.providerEvidenceGenerated, "PROVIDER_EVIDENCE_NOT_GENERATED">> >>

SeverityOf ==
  [PROVIDER_NOT_RESOLVED |-> "HIGH", PROVIDER_NOT_ADMITTED |-> "HIGH",
   PROVIDER_NOT_EXECUTED |-> "CRITICAL", PROVIDER_NOT_VERIFIED |-> "HIGH",
   PROVIDER_EVIDENCE_NOT_GENERATED |-> "MEDIUM", NO_FAILURE_DETECTED |-> "NONE"]

classifyProviderFailure(evidence) ==
  LET gates == FailureGates(evidence)
      class == ReasonOr(gates, "NO_FAILURE_DETECTED")
  IN  Extended(evidence,
        [providerFailureClassified |-> ~AllOpen(gates), failureClassification |-> class,
         failureSeverity |-> SeverityOf[class]])

BridgeGates(failure, open) ==
  << <<failure.providerFailureClassified, "NO_PROVIDER_FAILURE">>,
     <<open, "RECOVERY_BRIDGE_NOT_ALLOWED">> >>

bridgeProviderRecovery(failure, open) ==
  LET gates == BridgeGates(failure, open)
  IN  Extended(failure,
        [recoveryBridgeOpen |-> AllOpen(gates),
         recoveryRequirement |-> IF failure.providerFailureClassified THEN "RECOVERY_REQUIRED"
                                 ELSE "RECOVERY_NOT_REQUIRED",
         reason |-> ReasonOr(gates, None)])

(* P9H as its caller runs it, in one go.                                   *)
ProviderRuntime(request, d) ==
  bridgeProviderRecovery(
    classifyProviderFailure(
      generateProviderEvidence(
        verifyProviderRuntime(
          executeProviderRuntime(
            admitProviderRuntime(resolveProviderMapping(request), d.admit),
            request.operation, d.execute),
          d.verify))),
    d.bridge)

RuntimeDecisions == [admit : Decision, execute : Decision, verify : Decision, bridge : Decision]

----------------------------------------------------------------------------
(* P9I.2: the adapter's request, from the end of P9H.  It does not look at *)
(* providerExecuted.                                                       *)

ProviderAdapterRequest(runtime, resource) ==
  [providerContract |-> runtime.providerContract,
   providerImplementation |-> runtime.providerImplementation,
   operation |-> runtime.operation, providerResourceId |-> resource]

MappingGates(runtime, allowed) ==
  << <<runtime.providerResolved, "PROVIDER_NOT_RESOLVED">>,
     <<runtime.providerAdmitted, "PROVIDER_NOT_ADMITTED">>,
     <<runtime.operation # None, "PROVIDER_OPERATION_MISSING">>,
     <<allowed, "ADAPTER_REQUEST_MAPPING_NOT_ALLOWED">> >>

MappingDenied(runtime, reason) ==
  [adapterRequestMapped |-> FALSE, adapterRequest |-> None, reason |-> reason]

MappedAdapterRequest(runtime, resource) ==
  [adapterRequestMapped |-> TRUE, adapterRequest |-> ProviderAdapterRequest(runtime, resource),
   reason |-> None]

mapProviderAdapterRequest(runtime, resource, allowed) ==
  LET gates == MappingGates(runtime, allowed)
  IN  IF AllOpen(gates) THEN MappedAdapterRequest(runtime, resource)
      ELSE MappingDenied(runtime, FirstClosed(gates))

(* P9J.2: the implementation's request repeats the adapter's.              *)
TranslationGates(adapterRequest, allowed) ==
  << <<adapterRequest # None, "ADAPTER_REQUEST_MISSING">>,
     <<adapterRequest # None => adapterRequest.providerImplementation # None,
       "PROVIDER_IMPLEMENTATION_MISSING">>,
     <<adapterRequest # None => adapterRequest.operation # None,
       "PROVIDER_OPERATION_MISSING">>,
     <<allowed, "IMPLEMENTATION_REQUEST_TRANSLATION_NOT_ALLOWED">> >>

NotTranslatedRequest(adapterRequest, reason) ==
  [implementationRequestTranslated |-> FALSE, implementationRequest |-> None, reason |-> reason]

TranslatedRequest(adapterRequest) ==
  [implementationRequestTranslated |-> TRUE, implementationRequest |-> adapterRequest,
   reason |-> None]

translateProviderImplementationRequest(adapterRequest, allowed) ==
  LET gates == TranslationGates(adapterRequest, allowed)
  IN  IF AllOpen(gates) THEN TranslatedRequest(adapterRequest)
      ELSE NotTranslatedRequest(adapterRequest, FirstClosed(gates))

----------------------------------------------------------------------------
(* P9J.3: the answer of the SDK, as the provider-specific caller passes it *)
(* on.  None: it passes nothing.  Every field is optional; of the code, the*)
(* message and the diagnostic only whether they are there counts.          *)

ProviderRawStatus == {"OK", "FAILED", None}

RawProviderApiCallResult ==
  [providerRawStatus : ProviderRawStatus, providerRawErrorCode : BOOLEAN,
   providerRawErrorMessage : BOOLEAN, providerRawDiagnostic : BOOLEAN, retryable : BOOLEAN]

(* All five fields are own properties of the surface, present or not.      *)
buildFailureSurfaceFromRawResult(raw) ==
  Extended(raw, [failureCode |-> "PROVIDER_SDK_UNKNOWN_FAILURE"])

(* Mutant of RawCallCompleted: a message without a code goes unnoticed.    *)
RawCodeMissing(raw) == raw # None => ~raw.providerRawErrorCode

(* The status is not looked at: a bare "FAILED" is a completion.           *)
RawCallCompleted(raw) ==
  raw # None => /\ ~raw.providerRawErrorCode
                /\ ~raw.providerRawErrorMessage
                /\ ~raw.providerRawDiagnostic

ApiCallNotExecuted(reason) ==
  [providerApiCallExecuted |-> FALSE, providerCallAttempted |-> FALSE,
   providerCallCompleted |-> FALSE, failureSurface |-> None,
   requiresErrorSanitization |-> FALSE, reason |-> reason]

ApiCallExecuted(raw) ==
  LET completed == RawCallCompleted(raw)
  IN  [providerApiCallExecuted |-> TRUE, providerCallAttempted |-> TRUE,
       providerCallCompleted |-> completed,
       failureSurface |-> IF completed THEN None ELSE buildFailureSurfaceFromRawResult(raw),
       requiresErrorSanitization |-> ~completed, reason |-> None]

ApiCallGates(translation, allowed) ==
  << <<translation.implementationRequestTranslated, "IMPLEMENTATION_REQUEST_NOT_TRANSLATED">>,
     <<allowed, "PROVIDER_API_CALL_EXECUTION_NOT_ALLOWED">> >>

executeProviderApiCall(translation, allowed, raw) ==
  LET gates == ApiCallGates(translation, allowed)
  IN  IF AllOpen(gates) THEN ApiCallExecuted(raw) ELSE ApiCallNotExecuted(FirstClosed(gates))

(* P9J.4.  The surface translated loses the message and the diagnostic;    *)
(* the raw one stays in translatedResult.                                  *)
translateFailureSurface(surface) ==
  [failureCode |-> surface.failureCode, providerRawStatus |-> surface.providerRawStatus,
   providerRawErrorCode |-> surface.providerRawErrorCode, retryable |-> surface.retryable]

NotTranslatedResult(execution, reason) ==
  [resultTranslated |-> FALSE, translatedResult |-> None, translatedFailureSurface |-> None,
   providerCallCompleted |-> execution.providerCallCompleted, reason |-> reason]

TranslatedProviderResult(execution) ==
  [adapterCompatible |-> ~execution.requiresErrorSanitization,
   requiresErrorSanitization |-> execution.requiresErrorSanitization,
   failureSurface |-> execution.failureSurface]

TranslatedResult(execution) ==
  [resultTranslated |-> TRUE, translatedResult |-> TranslatedProviderResult(execution),
   translatedFailureSurface |-> IF execution.failureSurface = None THEN None
                                ELSE translateFailureSurface(execution.failureSurface),
   providerCallCompleted |-> execution.providerCallCompleted, reason |-> None]

translateProviderResult(execution, allowed) ==
  LET gates == << <<execution.providerApiCallExecuted, "PROVIDER_API_CALL_NOT_EXECUTED">>,
                  <<allowed, "PROVIDER_RESULT_TRANSLATION_NOT_ALLOWED">> >>
  IN  IF AllOpen(gates) THEN TranslatedResult(execution)
      ELSE NotTranslatedResult(execution, FirstClosed(gates))

(* P9J.5.  Unsafe material is looked for by key.                           *)
UnsafeKeys ==
  {"providerRawErrorMessage", "providerRawDiagnostic", "rawErrorMessage", "errorMessage",
   "stack", "credential", "credentials", "token", "secret", "keyMaterial", "payload"}

containsUnsafeFailureMaterial(surface) == DOMAIN surface \cap UnsafeKeys # {}

(* The message is one of a fixed few, by the failure code alone.           *)
buildSanitizedErrorMessage(surface) ==
  CASE surface.failureCode \in {"PROVIDER_CALL_TIMEOUT", "PROVIDER_SDK_TIMEOUT"} -> "timed out"
    [] surface.failureCode = "PROVIDER_CALL_THROTTLED" -> "throttled"
    [] surface.failureCode \in {"PROVIDER_CALL_UNAUTHORIZED", "PROVIDER_SDK_AUTHENTICATION_FAILED",
                                "PROVIDER_SDK_AUTHORIZATION_FAILED"} -> "authorization failed"
    [] surface.failureCode \in {"PROVIDER_CALL_INVALID_STATE",
                                "PROVIDER_SDK_INVALID_KEY_STATE"} -> "invalid state"
    [] surface.failureCode = "PROVIDER_SDK_INVALID_REQUEST" -> "invalid request"
    [] surface.failureCode = "PROVIDER_SDK_UNAVAILABLE" -> "unavailable"
    [] OTHER -> "failed"

sanitizeFailureSurface(surface) ==
  Extended(translateFailureSurface(surface),
    [providerSanitizedErrorMessage |-> buildSanitizedErrorMessage(surface)])

NotSanitized(required, reason) ==
  [providerErrorSanitized |-> FALSE, sanitizationRequired |-> required,
   sanitizedOutput |-> None, reason |-> reason]

SanitizationNotRequired(translation) ==
  [providerErrorSanitized |-> FALSE, sanitizationRequired |-> FALSE,
   sanitizedOutput |-> [adapterCompatible |-> TRUE, failureSurface |-> None], reason |-> None]

Sanitized(translation) ==
  [providerErrorSanitized |-> TRUE, sanitizationRequired |-> TRUE,
   sanitizedOutput |->
     [adapterCompatible |-> TRUE,
      failureSurface |-> sanitizeFailureSurface(translation.translatedResult.failureSurface)],
   reason |-> None]

SanitizationGates(surface, allowed) ==
  << <<allowed, "PROVIDER_ERROR_SANITIZATION_NOT_ALLOWED">>,
     <<surface # None, "RAW_FAILURE_SURFACE_MISSING">>,
     <<surface # None => containsUnsafeFailureMaterial(surface),
       "RAW_FAILURE_SURFACE_NOT_UNSAFE">> >>

sanitizeProviderError(translation, allowed) ==
  IF ~translation.resultTranslated THEN NotSanitized(FALSE, "PROVIDER_RESULT_NOT_TRANSLATED")
  ELSE IF ~translation.translatedResult.requiresErrorSanitization
    THEN SanitizationNotRequired(translation)
  ELSE LET gates == SanitizationGates(translation.translatedResult.failureSurface, allowed)
       IN  IF AllOpen(gates) THEN Sanitized(translation)
           ELSE NotSanitized(TRUE, FirstClosed(gates))

----------------------------------------------------------------------------
(* P9I.3 to P9I.6: the adapter's side of the same call.  P9I.3 is told by  *)
(* its caller whether there is a failure surface, and believes it.         *)

AdapterNotExecuted(mapping, reason) ==
  [providerAdapterExecuted |-> FALSE, providerCallCompleted |-> FALSE,
   adapterRequest |-> mapping.adapterRequest, failureSurface |-> None, reason |-> reason]

(* Mutant of AdapterExecuted: the call was made, so it completed.          *)
AdapterCompleted(mapping, surface) ==
  [providerAdapterExecuted |-> TRUE, providerCallCompleted |-> TRUE,
   adapterRequest |-> mapping.adapterRequest, failureSurface |-> surface, reason |-> None]

AdapterExecuted(mapping, surface) ==
  [providerAdapterExecuted |-> TRUE, providerCallCompleted |-> surface = None,
   adapterRequest |-> mapping.adapterRequest, failureSurface |-> surface, reason |-> None]

executeProviderAdapter(mapping, allowed, surface) ==
  LET gates == << <<mapping.adapterRequestMapped, "ADAPTER_REQUEST_NOT_MAPPED">>,
                  <<allowed, "ADAPTER_EXECUTION_NOT_ALLOWED">> >>
  IN  IF AllOpen(gates) THEN AdapterExecuted(mapping, surface)
      ELSE AdapterNotExecuted(mapping, FirstClosed(gates))

(* Normalized or not, the result repeats the execution.                    *)
NormalizationGates(execution, allowed) ==
  << <<execution.providerAdapterExecuted, "ADAPTER_NOT_EXECUTED">>,
     <<allowed, "ADAPTER_RESULT_NORMALIZATION_NOT_ALLOWED">> >>

normalizeProviderAdapterResult(execution, allowed) ==
  LET gates == NormalizationGates(execution, allowed)
  IN  Extended(execution,
        [adapterResultNormalized |-> AllOpen(gates), reason |-> ReasonOr(gates, None)])

(* P9J.5 knows one more key than this.                                     *)
isFailureSurfaceSanitized(surface) ==
  DOMAIN surface \cap (UnsafeKeys \ {"providerRawDiagnostic"}) = {}

(* A surface that is not preserved is still part of the result.            *)
PreservationGates(normalized) ==
  LET surface == normalized.failureSurface
  IN  << <<normalized.adapterResultNormalized, "ADAPTER_RESULT_NOT_NORMALIZED">>,
         <<surface # None, "NO_ADAPTER_FAILURE_SURFACE">>,
         <<surface # None => isFailureSurfaceSanitized(surface),
           "UNSANITIZED_FAILURE_SURFACE">> >>

preserveProviderAdapterFailureSurface(normalized) ==
  LET gates == PreservationGates(normalized)
  IN  Extended(normalized,
        [failureSurfacePreserved |-> AllOpen(gates), reason |-> ReasonOr(gates, None)])

HookGates(result, allowed) ==
  << <<result.adapterResultNormalized, "ADAPTER_RESULT_NOT_NORMALIZED">>,
     <<allowed, "ADAPTER_HOOK_NOT_ALLOWED">> >>

exposeProviderAdapterVerificationHook(result, allowed) ==
  LET gates == HookGates(result, allowed)
  IN  Extended(result,
        [hookExposed |-> AllOpen(gates), reason |-> ReasonOr(gates, None)])

----------------------------------------------------------------------------
(* The result types.                                                       *)

ProviderExecutionFields ==
  {"providerContract", "providerImplementation", "providerEnabled", "mappingValidated",
   "providerResolved", "reason", "providerAdmitted", "providerExecuted", "operation"}

ProviderVerificationFields == ProviderExecutionFields \union {"providerVerified"}

ProviderFailureFields ==
  ProviderVerificationFields \union
    {"providerEvidenceGenerated", "providerFailureClassified", "failureClassification",
     "failureSeverity"}

ProviderRecoveryBridgeResult(r) ==
  DOMAIN r = ProviderFailureFields \union {"recoveryBridgeOpen", "recoveryRequirement"}

ProviderImplementationRequest ==
  [providerContract : ProviderContracts, providerImplementation : ProviderImplementations,
   operation : ProviderOperations, providerResourceId : Resources]

RawFailureSurface ==
  [failureCode : {"PROVIDER_SDK_UNKNOWN_FAILURE"}, providerRawStatus : ProviderRawStatus,
   providerRawErrorCode : BOOLEAN, providerRawErrorMessage : BOOLEAN,
   providerRawDiagnostic : BOOLEAN, retryable : BOOLEAN]

TranslatedFailureSurface ==
  [failureCode : {"PROVIDER_SDK_UNKNOWN_FAILURE"}, providerRawStatus : ProviderRawStatus,
   providerRawErrorCode : BOOLEAN, retryable : BOOLEAN]

SanitizedFailureSurface ==
  [failureCode : {"PROVIDER_SDK_UNKNOWN_FAILURE"}, providerRawStatus : ProviderRawStatus,
   providerRawErrorCode : BOOLEAN, retryable : BOOLEAN,
   providerSanitizedErrorMessage : {"failed"}]

SanitizedProviderOutput ==
  [adapterCompatible : {TRUE}, failureSurface : SanitizedFailureSurface \union {None}]

ProviderErrorSanitizationDenialReason ==
  {"PROVIDER_RESULT_NOT_TRANSLATED", "PROVIDER_ERROR_SANITIZATION_NOT_ALLOWED",
   "RAW_FAILURE_SURFACE_MISSING", "RAW_FAILURE_SURFACE_NOT_UNSAFE"}

(* An absent field is not a reason, nor any of the records held.           *)
ASSUME CallNoneAssumption ==
  /\ None \notin ProviderErrorSanitizationDenialReason
  /\ None \notin RawFailureSurface
  /\ None \notin TranslatedFailureSurface
  /\ None \notin SanitizedFailureSurface
  /\ None \notin SanitizedProviderOutput

ProviderErrorSanitizationResult(r) ==
  /\ r.sanitizedOutput # None <=> r.reason = None
  /\ r.sanitizedOutput # None => r.sanitizedOutput \in SanitizedProviderOutput
  /\ r.providerErrorSanitized => r.sanitizationRequired

ProviderAdapterNormalizedFields ==
  {"adapterResultNormalized", "providerAdapterExecuted", "providerCallCompleted",
   "adapterRequest", "failureSurface", "reason"}

ProviderAdapterFailureSurfaceFields ==
  ProviderAdapterNormalizedFields \union {"failureSurfacePreserved"}

ProviderAdapterVerificationHookResult(hook) ==
  DOMAIN hook = ProviderAdapterFailureSurfaceFields \union {"hookExposed"}

----------------------------------------------------------------------------
(* The caller.                                                             *)

VARIABLES
  stage,      \* per call: how far its caller has come
  request,    \* per call: what was asked for
  runtime,    \* per call: the end of P9H
  mapping,    \* per call: the end of P9I.2
  translation,\* per call: the end of P9J.2
  raw,        \* per call: the provider's answer, None until and unless there is one
  result,     \* per call: the end of P9J.5
  hook,       \* per call: the end of P9I.6
  performed   \* history: the operations the provider has carried out, per call

callVars == <<stage, request, runtime, mapping, translation, raw, result, hook, performed>>

Stages == {"new", "decided", "prepared", "sent", "answered", "lost", "translated", "exposed"}

TellsOfError(answer) ==
  answer.providerRawErrorCode \/ answer.providerRawErrorMessage \/ answer.providerRawDiagnostic

CallInit ==
  /\ stage = [c \in Calls |-> "new"]
  /\ request \in [Calls -> CallRequests]
  /\ runtime = [c \in Calls |-> None]
  /\ mapping = [c \in Calls |-> None]
  /\ translation = [c \in Calls |-> None]
  /\ raw = [c \in Calls |-> None]
  /\ result = [c \in Calls |-> None]
  /\ hook = [c \in Calls |-> None]
  /\ performed = [c \in Calls |-> {}]

(* P9H, under the decisions its caller was given.                          *)
Decide(c) ==
  /\ stage[c] = "new"
  /\ \E d \in RuntimeDecisions :
       runtime' = [runtime EXCEPT ![c] = ProviderRuntime(request[c], d)]
  /\ stage' = [stage EXCEPT ![c] = "decided"]
  /\ UNCHANGED <<request, mapping, translation, raw, result, hook, performed>>

Prepare(c) ==
  /\ stage[c] = "decided"
  /\ \E mapAllowed, translateAllowed \in Decision :
       LET mapped == mapProviderAdapterRequest(runtime[c], request[c].resource, mapAllowed)
       IN  /\ mapping' = [mapping EXCEPT ![c] = mapped]
           /\ translation' = [translation EXCEPT ![c] =
                translateProviderImplementationRequest(mapped.adapterRequest, translateAllowed)]
  /\ stage' = [stage EXCEPT ![c] = "prepared"]
  /\ UNCHANGED <<request, runtime, raw, result, hook, performed>>

(* The SDK is invoked outside of the code: by whom holds a translated      *)
(* request.                                                                *)
Send(c) ==
  /\ stage[c] = "prepared"
  /\ translation[c].implementationRequestTranslated
  /\ stage' = [stage EXCEPT ![c] = "sent"]
  /\ UNCHANGED <<request, runtime, mapping, translation, raw, result, hook, performed>>

Perform(c) ==
  /\ stage[c] = "sent"
  /\ performed' = [performed EXCEPT ![c] = @ \union {translation[c].implementationRequest}]
  /\ UNCHANGED <<stage, request, runtime, mapping, translation, raw, result, hook>>

(* Any answer, before or after the operation; of the provider it is only   *)
(* taken that "OK" without an error is said of an operation carried out.   *)
Answer(c) ==
  /\ stage[c] = "sent"
  /\ \E answer \in RawProviderApiCallResult :
       /\ answer.providerRawStatus = "OK" /\ ~TellsOfError(answer) => performed[c] # {}
       /\ raw' = [raw EXCEPT ![c] = answer]
  /\ stage' = [stage EXCEPT ![c] = "answered"]
  /\ UNCHANGED <<request, runtime, mapping, translation, result, hook, performed>>

Lose(c) ==
  /\ stage[c] = "sent"
  /\ stage' = [stage EXCEPT ![c] = "lost"]
  /\ UNCHANGED <<request, runtime, mapping, translation, raw, result, hook, performed>>

Translate(c) ==
  /\ stage[c] \in {"prepared", "answered", "lost"}
  /\ \E callAllowed, translateAllowed, sanitizeAllowed \in Decision :
       result' = [result EXCEPT ![c] =
         LET call == executeProviderApiCall(translation[c], callAllowed, raw[c])
             translated == translateProviderResult(call, translateAllowed)
         IN  [call |-> call, translated |-> translated,
              sanitized |-> sanitizeProviderError(translated, sanitizeAllowed)]]
  /\ stage' = [stage EXCEPT ![c] = "translated"]
  /\ UNCHANGED <<request, runtime, mapping, translation, raw, hook, performed>>

(* What P9J left the adapter with: the sanitized surface when there is one.*)
SurfaceForAdapter(r) ==
  IF r.sanitized.sanitizedOutput # None THEN r.sanitized.sanitizedOutput.failureSurface
  ELSE r.translated.translatedFailureSurface

Expose(c) ==
  /\ stage[c] = "translated"
  /\ result[c].call.providerApiCallExecuted
  /\ result[c].translated.resultTranslated
  /\ \E executeAllowed, normalizeAllowed, exposeAllowed \in Decision :
       hook' = [hook EXCEPT ![c] =
         exposeProviderAdapterVerificationHook(
           preserveProviderAdapterFailureSurface(
             normalizeProviderAdapterResult(
               executeProviderAdapter(mapping[c], executeAllowed, SurfaceForAdapter(result[c])),
               normalizeAllowed)),
           exposeAllowed)]
  /\ stage' = [stage EXCEPT ![c] = "exposed"]
  /\ UNCHANGED <<request, runtime, mapping, translation, raw, result, performed>>

CallNext ==
  \E c \in Calls :
    Decide(c) \/ Prepare(c) \/ Send(c) \/ Perform(c) \/ Answer(c) \/ Lose(c) \/ Translate(c)
      \/ Expose(c)

----------------------------------------------------------------------------
(* Properties.                                                             *)

CallTypeOK ==
  \A c \in Calls :
    /\ stage[c] \in Stages
    /\ request[c] \in CallRequests
    /\ runtime[c] # None =>
         \E m \in ProviderMappingResult :
           \A f \in DOMAIN m \ {"reason"} : runtime[c][f] = m[f]
    /\ runtime[c] # None => ProviderRecoveryBridgeResult(runtime[c])
    /\ translation[c] # None /\ translation[c].implementationRequestTranslated =>
         translation[c].implementationRequest \in ProviderImplementationRequest
    /\ result[c] # None => ProviderErrorSanitizationResult(result[c].sanitized)
    /\ raw[c] \in RawProviderApiCallResult \union {None}
    /\ hook[c] # None => ProviderAdapterVerificationHookResult(hook[c])
    /\ Cardinality(performed[c]) <= 1

(* Every stage answers the one before with a result of its own decision,   *)
(* and all of them repeat, drop or rebuild the failure on the way: an      *)
(* answer with a code, a message or a diagnostic, whatever its status      *)
(* says, still reaches the hook as a call that did not complete, with a    *)
(* surface that is retryable exactly when the provider said so and that    *)
(* never carries the provider's message or diagnostic, whichever of the    *)
(* translation, the sanitization and the adapter's own check was denied.   *)
FailureNotMasked ==
  \A c \in Calls : hook[c] # None =>
    /\ hook[c].hookExposed /\ raw[c] # None /\ TellsOfError(raw[c]) =>
         /\ ~hook[c].providerCallCompleted
         /\ hook[c].failureSurface # None
         /\ hook[c].failureSurface.retryable = raw[c].retryable
    /\ hook[c].failureSurface # None =>
         ~containsUnsafeFailureMaterial(hook[c].failureSurface)

(* An answer that names no error and does not say "OK" either: a bare      *)
(* "FAILED", or nothing at all.                                            *)
Silent(answer) == answer.providerRawStatus # "OK" /\ ~TellsOfError(answer)

(* A call the hook says was completed is one the provider has performed,   *)
(* as it was asked for, or one that nobody said so of: P9J.3 reports       *)
(* completion when there is no answer, and when the answer is silent, a    *)
(* bare "FAILED" included.  No other way leads to a completion that was    *)
(* not.                                                                    *)
CompletedCallWasPerformed ==
  \A c \in Calls :
    hook[c] # None /\ hook[c].providerCallCompleted /\ raw[c] # None =>
      \/ Silent(raw[c])
      \/ \E p \in performed[c] :
           p.operation = request[c].operation /\ p.providerResourceId = request[c].resource
=============================================================================
