-------------------------- MODULE ProviderDecision --------------------------
(***************************************************************************)
(* P9K to P9N: from the integrated outcome of a provider call to the       *)
(* runtime response.                                                       *)
(*                                                                         *)
(* Every stage is a synchronous function that keeps nothing.  The caller   *)
(* holds the results and hands them to the next stage, so when several     *)
(* calls are in hand it may hand over a result of another call.  P9N's     *)
(* coherence checks are what stands against that.                          *)
(***************************************************************************)
EXTENDS Naturals

CONSTANTS
  Calls,        \* provider calls whose outcomes are in hand
  Contexts,     \* contract, implementation, operation, resource, configuration, credential
  Integrations, \* P9K integration results a call may have
  None,
  OtherCode     \* a failure code or raw error code P9M knows nothing of

(* The classes of classifyFailureSurface in its order, each with the       *)
(* adapter failure codes and the raw error codes that name it.             *)
ClassOrder ==
  << [class |-> "AUTHORIZATION",   codes |-> {"UNAUTHORIZED"},
      raws |-> {"AccessDeniedException", "AuthorizationFailure"}],
     [class |-> "AUTHENTICATION",  codes |-> {},
      raws |-> {"AuthenticationFailed", "InvalidCredentials"}],
     [class |-> "CONFIGURATION",   codes |-> {},
      raws |-> {"InvalidKeyState", "InvalidConfiguration"}],
     [class |-> "INVALID_REQUEST", codes |-> {},
      raws |-> {"InvalidRequestException", "ValidationException"}],
     [class |-> "RATE_LIMIT",      codes |-> {"THROTTLED"},
      raws |-> {"ThrottlingException", "TooManyRequestsException"}],
     [class |-> "TIMEOUT",         codes |-> {"TIMEOUT"},
      raws |-> {"TimeoutException"}],
     [class |-> "UNAVAILABLE",     codes |-> {},
      raws |-> {"ServiceUnavailable", "InternalServiceError"}],
     [class |-> "DEPENDENCY",      codes |-> {},
      raws |-> {"DependencyFailure", "UpstreamFailure"}],
     [class |-> "CONTRACT",        codes |-> {},
      raws |-> {"ContractMismatch", "AdapterIncompatible"}] >>

Classes == {ClassOrder[n].class : n \in DOMAIN ClassOrder}
             \union {"EXECUTION_INCOMPLETE", "UNKNOWN"}

Codes == {None, OtherCode} \union UNION {ClassOrder[n].codes : n \in DOMAIN ClassOrder}
Raws  == {None, OtherCode} \union UNION {ClassOrder[n].raws : n \in DOMAIN ClassOrder}

FailureSurface ==
  [failureCode : Codes, providerRawStatus : BOOLEAN, providerRawErrorCode : Raws,
   retryable : BOOLEAN]

(* facts says whether execution facts are present, recovery whether the    *)
(* recovery material is, and whether it is ready.                          *)
IntegrationShape ==
  [ready : BOOLEAN, ctx : Contexts,
   facts : BOOLEAN, attempted : BOOLEAN, completed : BOOLEAN,
   failureRequired : BOOLEAN, surface : FailureSurface \union {None},
   recoveryRequired : BOOLEAN, recovery : {None, "READY", "NOT_READY"}]

ASSUME IntegrationsAssumption == Integrations \subseteq IntegrationShape
ASSUME NoneAssumption ==
  /\ None \notin FailureSurface /\ None # OtherCode
  /\ \A n \in DOMAIN ClassOrder : None \notin ClassOrder[n].codes \union ClassOrder[n].raws
  /\ None \notin {"NO_ACTION", "RETRY", "RECOVER", "FAILOVER", "STOP", "ESCALATE"}
  /\ None \notin {"NOT_OBSERVED", "NOT_COMPLETED", "FAILURE_SURFACE_PRESENT"}

Responses == {"NO_ACTION", "RETRY", "RECOVER", "FAILOVER", "STOP", "ESCALATE"}
Gates == BOOLEAN   \* FALSE: the stage's own decision input is its REJECT_ value

----------------------------------------------------------------------------
(* P9K: the intakes.  A failure intake that is translated has a surface.   *)

VerificationIntakeRefused(i, allowed) == ~i.ready \/ ~allowed \/ ~i.facts

translateProviderRuntimeVerificationIntake(i, allowed) ==
  [translated |-> ~VerificationIntakeRefused(i, allowed),
   observed   |-> i.ready /\ i.facts /\ i.attempted,
   completed  |-> i.ready /\ i.facts /\ i.completed]

FailureIntakeRefused(i, allowed) ==
  ~i.ready \/ ~allowed \/ ~i.failureRequired \/ i.surface = None

translateProviderRuntimeFailureIntake(i, allowed) ==
  [translated |-> ~FailureIntakeRefused(i, allowed),
   surface    |-> IF FailureIntakeRefused(i, allowed) THEN None ELSE i.surface]

RecoveryIntakeRefused(i, allowed) ==
  ~i.ready \/ ~allowed \/ ~i.recoveryRequired \/ i.recovery = None

assessProviderRuntimeRecoveryIntake(i, allowed) ==
  [ctx |-> i.ctx, required |-> i.recoveryRequired,
   ready |-> ~RecoveryIntakeRefused(i, allowed) /\ i.recovery = "READY"]

----------------------------------------------------------------------------
(* P9L: verification.                                                      *)

hasFailureSurface(fi) == fi.translated /\ fi.surface # None

Verification(i, status, reason) ==
  [status |-> status, reason |-> reason, ctx |-> i.ctx,
   recoveryRequired |-> i.recoveryRequired]

VerificationDenied(i) == Verification(i, "DENIED", None)

VerificationRefused(i, vi, allowed) == ~allowed \/ ~i.ready \/ ~vi.translated

(* Mutant of verifyProviderRuntimeOutcome: does not look at the surface.   *)
VerifyCompletion(i, vi, fi, allowed) ==
  IF VerificationRefused(i, vi, allowed) THEN VerificationDenied(i)
  ELSE IF ~vi.observed  THEN Verification(i, "NOT_VERIFIED", "NOT_OBSERVED")
  ELSE IF ~vi.completed THEN Verification(i, "NOT_VERIFIED", "NOT_COMPLETED")
  ELSE Verification(i, "VERIFIED", None)

verifyProviderRuntimeOutcome(i, vi, fi, allowed) ==
  IF VerificationRefused(i, vi, allowed) THEN VerificationDenied(i)
  ELSE IF ~vi.observed  THEN Verification(i, "NOT_VERIFIED", "NOT_OBSERVED")
  ELSE IF ~vi.completed THEN Verification(i, "NOT_VERIFIED", "NOT_COMPLETED")
  ELSE IF hasFailureSurface(fi)
         THEN Verification(i, "NOT_VERIFIED", "FAILURE_SURFACE_PRESENT")
  ELSE Verification(i, "VERIFIED", None)

----------------------------------------------------------------------------
(* P9M: classification.                                                    *)

Names(n, surface) ==
  \/ surface.failureCode \in ClassOrder[n].codes
  \/ surface.providerRawErrorCode \in ClassOrder[n].raws

classifyFailureSurface(surface, verification) ==
  LET named == {n \in DOMAIN ClassOrder : Names(n, surface)}
  IN  IF verification.reason = "NOT_COMPLETED" THEN "EXECUTION_INCOMPLETE"
      ELSE IF named = {} THEN "UNKNOWN"
      ELSE ClassOrder[CHOOSE n \in named : \A m \in named : n <= m].class

Sufficient(surface) ==
  \/ surface.failureCode # None
  \/ surface.providerRawStatus
  \/ surface.providerRawErrorCode # None

(* The context comes from the integration, the rest from the verification  *)
(* and the failure intake.                                                 *)
Classification(i, v, status, class, retryable) ==
  [status |-> status, class |-> class, retryable |-> retryable, ctx |-> i.ctx,
   verificationStatus |-> v.status, verificationReason |-> v.reason,
   recoveryRequired |-> v.recoveryRequired]

ClassificationDenied(i, v) == Classification(i, v, "DENIED", None, FALSE)

ClassificationNotRequired(i, v) == Classification(i, v, "NOT_REQUIRED", None, FALSE)

Classified(i, v, fi) ==
  Classification(i, v, "CLASSIFIED", classifyFailureSurface(fi.surface, v),
                 fi.surface.retryable)

classifyProviderRuntimeFailure(i, v, fi, allowed) ==
  IF ~allowed \/ v.status = "DENIED"
    THEN ClassificationDenied(i, v)
  ELSE IF v.status = "VERIFIED" /\ ~hasFailureSurface(fi)
    THEN ClassificationNotRequired(i, v)
  ELSE IF ~fi.translated
    THEN ClassificationDenied(i, v)
  ELSE IF ~hasFailureSurface(fi) \/ ~Sufficient(fi.surface)
    THEN Classification(i, v, "NOT_CLASSIFIED", None, FALSE)
  ELSE Classified(i, v, fi)

----------------------------------------------------------------------------
(* P9N: decision.  r is the set of recovery intakes handed over: one or    *)
(* none.                                                                   *)

(* Mutants: contexts are not compared, and of two reasons only whether     *)
(* there is one.                                                           *)
ContextsUncompared(left, right) == TRUE
ReasonsBothGiven(v, k) == v.reason = None <=> k.verificationReason = None

runtimeContextsMatch(left, right) == left.ctx = right.ctx

verificationStatusesMatch(v, k) == v.status = k.verificationStatus

verificationFailureReasonsMatch(v, k) == v.reason = k.verificationReason

recoveryRequirementsAreCoherent(v, k, r) ==
  /\ v.recoveryRequired = k.recoveryRequired
  /\ \A x \in r : x.required = v.recoveryRequired

recoveryIntakeContextMatches(v, r) == \A x \in r : runtimeContextsMatch(v, x)

Coherent(v, k, r) ==
  /\ ~(v.status = "VERIFIED" /\ k.status = "CLASSIFIED")
  /\ verificationStatusesMatch(v, k)
  /\ verificationFailureReasonsMatch(v, k)
  /\ runtimeContextsMatch(v, k)
  /\ recoveryRequirementsAreCoherent(v, k, r)
  /\ recoveryIntakeContextMatches(v, r)

decideResponseForFailure(k, r) ==
  LET recoverable == \E x \in r : x.ready
  IN  CASE k.class \in {"RATE_LIMIT", "TIMEOUT"} /\ k.retryable -> "RETRY"
        [] k.class = "UNAVAILABLE" /\ recoverable -> "FAILOVER"
        [] k.class \in {"DEPENDENCY", "EXECUTION_INCOMPLETE"} /\ recoverable -> "RECOVER"
        [] k.class \in {"CONFIGURATION", "INVALID_REQUEST", "CONTRACT"} -> "STOP"
        [] OTHER -> "ESCALATE"

DecisionRefused(v, k, allowed) == ~allowed \/ v.status = "DENIED" \/ k.status = "DENIED"

DecisionDenied == [status |-> "DENIED", response |-> None]

NoAction == [status |-> "DECIDED", response |-> "NO_ACTION"]

NotDecided == [status |-> "NOT_DECIDED", response |-> None]

Decided(k, r) == [status |-> "DECIDED", response |-> decideResponseForFailure(k, r)]

(* Mutant: what is not decided escalates.                                  *)
EscalateUndecided(v, k, r, allowed) ==
  IF DecisionRefused(v, k, allowed) THEN DecisionDenied
  ELSE IF Coherent(v, k, r) /\ k.status = "CLASSIFIED" THEN Decided(k, r)
  ELSE [status |-> "NOT_DECIDED", response |-> "ESCALATE"]

decideProviderRuntimeResponse(v, k, r, allowed) ==
  IF DecisionRefused(v, k, allowed) THEN DecisionDenied
  ELSE IF Coherent(v, k, r) /\ v.status = "VERIFIED" /\ k.status = "NOT_REQUIRED"
    THEN NoAction
  ELSE IF Coherent(v, k, r) /\ k.status = "CLASSIFIED" THEN Decided(k, r)
  ELSE NotDecided

----------------------------------------------------------------------------
VARIABLES
  integration,    \* per call: its P9K integration result
  intakes,        \* per call: its three intakes, or None
  verification,   \* per call: its P9L result and the calls its intakes are of, or None
  classification, \* per call: the same of P9M and the verification it was given
  decision        \* the P9N result and, of a response, the calls it was made of; or None

vars == <<integration, intakes, verification, classification, decision>>

VerificationResult ==
  [status : {"DENIED", "NOT_VERIFIED", "VERIFIED"},
   reason : {None, "NOT_OBSERVED", "NOT_COMPLETED", "FAILURE_SURFACE_PRESENT"},
   ctx : Contexts, recoveryRequired : BOOLEAN]

ClassificationResult ==
  [status : {"DENIED", "NOT_REQUIRED", "NOT_CLASSIFIED", "CLASSIFIED"},
   class : Classes \union {None}, retryable : BOOLEAN, ctx : Contexts,
   verificationStatus : {"DENIED", "NOT_VERIFIED", "VERIFIED"},
   verificationReason : {None, "NOT_OBSERVED", "NOT_COMPLETED", "FAILURE_SURFACE_PRESENT"},
   recoveryRequired : BOOLEAN]

DecisionResult ==
  [status : {"DENIED", "NOT_DECIDED"}, response : {None}]
    \union [status : {"DECIDED"}, response : Responses,
            of : Calls, classified : Calls, recovered : SUBSET Calls]

VerificationIntake == [translated : BOOLEAN, observed : BOOLEAN, completed : BOOLEAN]

FailureIntake == [translated : BOOLEAN, surface : FailureSurface \union {None}]

RecoveryIntake == [ctx : Contexts, required : BOOLEAN, ready : BOOLEAN]

IntakeShape ==
  [verification : VerificationIntake, failure : FailureIntake, recovery : RecoveryIntake]

(* Type invariant.  A class is given exactly to what is classified, and a  *)
(* response exactly to what is decided.                                    *)
TypeOK ==
  /\ integration \in [Calls -> Integrations]
  /\ \A c \in Calls :
       /\ intakes[c] # None => intakes[c] \in IntakeShape
       /\ verification[c] # None =>
            verification[c] \in [result : VerificationResult, factsOf : Calls, surfaceOf : Calls]
       /\ classification[c] # None =>
            /\ classification[c] \in [result : ClassificationResult, verificationOf : Calls,
                                      surfaceOf : Calls]
            /\ classification[c].result.status = "CLASSIFIED"
                 <=> classification[c].result.class # None
  /\ decision \in DecisionResult \union {None}

Init ==
  /\ integration \in [Calls -> Integrations]
  /\ intakes = [c \in Calls |-> None]
  /\ verification = [c \in Calls |-> None]
  /\ classification = [c \in Calls |-> None]
  /\ decision = None

TakeIn(c, verify, fail, recover) ==
  /\ intakes[c] = None
  /\ intakes' = [intakes EXCEPT ![c] =
       [verification |-> translateProviderRuntimeVerificationIntake(integration[c], verify),
        failure      |-> translateProviderRuntimeFailureIntake(integration[c], fail),
        recovery     |-> assessProviderRuntimeRecoveryIntake(integration[c], recover)]]
  /\ UNCHANGED <<integration, verification, classification, decision>>

(* P9L compares the context of no intake with that of the integration: the *)
(* verification intake may be the one of another call v, the failure       *)
(* intake of another call f.                                               *)
Verify(c, v, f, allowed) ==
  /\ verification[c] = None
  /\ intakes[v] # None /\ intakes[f] # None
  /\ verification' = [verification EXCEPT ![c] =
       [result |-> verifyProviderRuntimeOutcome(integration[c], intakes[v].verification,
                                                intakes[f].failure, allowed),
        factsOf |-> v, surfaceOf |-> f]]
  /\ UNCHANGED <<integration, intakes, classification, decision>>

(* Nor does P9M, which compares the verification's context no more.        *)
Classify(c, v, f, allowed) ==
  /\ classification[c] = None
  /\ verification[v] # None /\ intakes[f] # None
  /\ classification' = [classification EXCEPT ![c] =
       [result |-> classifyProviderRuntimeFailure(integration[c], verification[v].result,
                                                  intakes[f].failure, allowed),
        verificationOf |-> v, surfaceOf |-> f]]
  /\ UNCHANGED <<integration, intakes, verification, decision>>

(* The verification is call c's; the classification may be that of another *)
(* call k and the recovery intake, if any, of another still.               *)
Decide(c, k, recovered, allowed) ==
  /\ decision = None
  /\ verification[c] # None /\ classification[k] # None
  /\ \A r \in recovered : intakes[r] # None
  /\ LET d == decideProviderRuntimeResponse(
                verification[c].result, classification[k].result,
                {intakes[r].recovery : r \in recovered}, allowed)
     IN  decision' = IF d.status # "DECIDED" THEN d
                     ELSE [status |-> d.status, response |-> d.response,
                           of |-> c, classified |-> k, recovered |-> recovered]
  /\ UNCHANGED <<integration, intakes, verification, classification>>

Next ==
  \/ \E c \in Calls, verify, fail, recover \in Gates : TakeIn(c, verify, fail, recover)
  \/ \E c, v, f \in Calls, allowed \in Gates : Verify(c, v, f, allowed)
  \/ \E c, v, f \in Calls, allowed \in Gates : Classify(c, v, f, allowed)
  \/ \E c, k \in Calls, recovered \in {{}} \union {{r} : r \in Calls}, allowed \in Gates :
       Decide(c, k, recovered, allowed)

Spec == Init /\ [][Next]_vars

----------------------------------------------------------------------------
Response == IF decision = None THEN None ELSE decision.response

Incomplete(i) == i.facts /\ i.attempted /\ ~i.completed

(* A provider call whose facts, as P9L was handed them, say that it was    *)
(* attempted and did not complete, so that its effect is unknown, is never *)
(* repeated, failed over, stopped or passed over: it is recovered or       *)
(* escalated, whatever integration, surface, verification, classification  *)
(* or recovery intake of other calls the caller mixes in.  The facts alone *)
(* are not made up for: nothing compares the context of the verification   *)
(* intake, and with another call's facts P9L decides about those.          *)
IncompleteNeverRetried ==
  Response \in {"NO_ACTION", "RETRY", "FAILOVER", "STOP"} =>
    ~Incomplete(integration[verification[decision.of].factsOf])

(* What the facts of a call call for, said without the stages.             *)
CodeOrRaw(surface, code, raws) ==
  surface.failureCode = code \/ surface.providerRawErrorCode \in raws

Warrants(i, response) ==
  CASE response = "NO_ACTION" -> i.attempted /\ i.completed
    [] response = "RETRY" ->
         /\ i.surface.retryable
         /\ i.surface.providerRawErrorCode \notin {"ValidationException", "AccessDeniedException"}
         /\ i.surface.failureCode \in {"THROTTLED", "TIMEOUT"}
              \/ i.surface.providerRawErrorCode \in
                   {"ThrottlingException", "TooManyRequestsException", "TimeoutException"}
    [] response = "RECOVER" ->
         /\ i.recovery = "READY"
         /\ Incomplete(i) \/ i.surface.providerRawErrorCode \in
                               {"DependencyFailure", "UpstreamFailure"}
    [] response = "FAILOVER" ->
         /\ i.recovery = "READY"
         /\ i.surface.providerRawErrorCode \in {"ServiceUnavailable", "InternalServiceError"}
    [] response = "STOP" ->
         i.surface.providerRawErrorCode \in
           {"InvalidKeyState", "InvalidConfiguration", "InvalidRequestException",
            "ValidationException", "ContractMismatch", "AdapterIncompatible"}
    [] response = "ESCALATE" -> i.surface # None
    [] OTHER -> TRUE

(* P9L and P9M were each given what is of their call: the two stages       *)
(* compare no contexts themselves.                                         *)
OwnMaterial ==
  LET v == verification[decision.of]
      k == classification[decision.classified]
  IN  /\ v.factsOf = decision.of /\ v.surfaceOf = decision.of
      /\ k.verificationOf = decision.classified /\ k.surfaceOf = decision.classified

(* The response decided for a call is one the call's own facts call for,   *)
(* although the classification or the recovery intake handed to P9N may be *)
(* another call's: as long as the calls differ in context, and P9L and P9M *)
(* were handed what was their call's own.                                  *)
ResponseFits ==
  (Response # None /\ OwnMaterial
     /\ \A c, d \in Calls : c # d => integration[c].ctx # integration[d].ctx)
    => Warrants(integration[decision.of], Response)

(* A call that carries a failure surface is answered by NO_ACTION only if  *)
(* neither P9L nor P9M was given its failure intake, or that was not       *)
(* translated, whichever facts and verification they were given.           *)
SilenceExplained ==
  (Response = "NO_ACTION" /\ integration[decision.of].surface # None) =>
    \/ /\ verification[decision.of].surfaceOf # decision.of
       /\ classification[decision.classified].surfaceOf # decision.of
    \/ ~intakes[decision.of].failure.translated
=============================================================================
