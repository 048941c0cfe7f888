----------------------- MODULE ProviderDecisionProofs -----------------------
(***************************************************************************)
(* A provider call whose effect is unknown is never repeated, silence      *)
(* about a failure has one of two reasons, and a response fits the call it *)
(* is given to, for any number of calls, contexts and integration results. *)
(***************************************************************************)
EXTENDS ProviderDecision, TLAPS

(* A call's intakes are of the call itself.                                *)
IntakesOwn ==
  \A c \in Calls : intakes[c] # None =>
    /\ \E allowed \in Gates :
         intakes[c].verification =
           translateProviderRuntimeVerificationIntake(integration[c], allowed)
    /\ \E allowed \in Gates :
         intakes[c].failure = translateProviderRuntimeFailureIntake(integration[c], allowed)

(* P9L denies a call of incomplete facts or says that it did not complete. *)
IncompleteSeen ==
  \A c \in Calls :
    verification[c] # None /\ Incomplete(integration[verification[c].factsOf]) =>
      \/ verification[c].result.status = "DENIED"
      \/ /\ verification[c].result.status = "NOT_VERIFIED"
         /\ verification[c].result.reason = "NOT_COMPLETED"

(* P9M gives what did not complete its own class, whatever the surface     *)
(* names.                                                                  *)
IncompleteClassed ==
  \A c \in Calls :
    /\ classification[c] # None
    /\ classification[c].result.status = "CLASSIFIED"
    /\ classification[c].result.verificationReason = "NOT_COMPLETED"
    => classification[c].result.class = "EXECUTION_INCOMPLETE"

(* P9L and P9M pass over no surface in the failure intake they are given.  *)
Silent(f) == f \in Calls /\ intakes[f] # None /\ ~hasFailureSurface(intakes[f].failure)

SilentStages ==
  \A c \in Calls :
    /\ verification[c] # None /\ verification[c].result.status = "VERIFIED" =>
         Silent(verification[c].surfaceOf)
    /\ classification[c] # None /\ classification[c].result.status = "NOT_REQUIRED" =>
         Silent(classification[c].surfaceOf)

(* No action is decided of a verified call that requires no classification.*)
SilentDecision ==
  Response = "NO_ACTION" =>
    /\ decision.of \in Calls /\ decision.classified \in Calls
    /\ verification[decision.of] # None
    /\ verification[decision.of].result.status = "VERIFIED"
    /\ classification[decision.classified] # None
    /\ classification[decision.classified].result.status = "NOT_REQUIRED"

(* What a response was decided of has been verified.                       *)
DecidedVerified ==
  Response # None => decision.of \in Calls /\ verification[decision.of] # None

(* The state has an entry for every call.                                  *)
Shapes ==
  /\ integration \in [Calls -> Integrations]
  /\ intakes = [c \in Calls |-> intakes[c]]
  /\ verification = [c \in Calls |-> verification[c]]
  /\ classification = [c \in Calls |-> classification[c]]

(* The inductive invariant.                                                *)
IInv ==
  /\ Shapes
  /\ IntakesOwn
  /\ IncompleteSeen
  /\ IncompleteClassed
  /\ IncompleteNeverRetried
  /\ SilentStages
  /\ SilentDecision
  /\ DecidedVerified

----------------------------------------------------------------------------
(* The stages, one by one.                                                 *)

(* P9L of facts j of an incomplete call, whatever the integration.         *)
LEMMA VerifyIncomplete ==
  ASSUME NEW i, NEW j, NEW fi, NEW a \in BOOLEAN, NEW allowed \in BOOLEAN, Incomplete(j)
  PROVE  LET v == verifyProviderRuntimeOutcome(
                    i, translateProviderRuntimeVerificationIntake(j, a), fi, allowed)
         IN  \/ v.status = "DENIED"
             \/ v.status = "NOT_VERIFIED" /\ v.reason = "NOT_COMPLETED"
BY DEF Incomplete, translateProviderRuntimeVerificationIntake, VerificationIntakeRefused,
       verifyProviderRuntimeOutcome, VerificationRefused, VerificationDenied, Verification

(* P9M of what did not complete.                                           *)
LEMMA ClassifyIncomplete ==
  ASSUME NEW i, NEW v, NEW fi, NEW allowed \in BOOLEAN
  PROVE  LET k == classifyProviderRuntimeFailure(i, v, fi, allowed)
         IN  k.status = "CLASSIFIED" /\ k.verificationReason = "NOT_COMPLETED"
               => k.class = "EXECUTION_INCOMPLETE"
BY DEF classifyProviderRuntimeFailure, ClassificationDenied, ClassificationNotRequired,
       Classified, Classification, classifyFailureSurface

(* P9N of a call that did not complete and of whatever classification.     *)
LEMMA DecideIncomplete ==
  ASSUME NEW v, NEW k, NEW r, NEW allowed \in BOOLEAN,
         v.status = "NOT_VERIFIED", v.reason = "NOT_COMPLETED",
         k.status = "CLASSIFIED" /\ k.verificationReason = "NOT_COMPLETED"
           => k.class = "EXECUTION_INCOMPLETE"
  PROVE  LET d == decideProviderRuntimeResponse(v, k, r, allowed)
         IN  d.status = "DECIDED" => d.response \in {"RECOVER", "ESCALATE"}
<1> DEFINE d == decideProviderRuntimeResponse(v, k, r, allowed)
<1> SUFFICES ASSUME d.status = "DECIDED" PROVE d.response \in {"RECOVER", "ESCALATE"}
  OBVIOUS
<1>1. /\ Coherent(v, k, r) /\ k.status = "CLASSIFIED"
      /\ d.response = decideResponseForFailure(k, r)
  BY DEF decideProviderRuntimeResponse, DecisionDenied, NoAction, NotDecided, Decided
<1>2. k.class = "EXECUTION_INCOMPLETE"
  BY <1>1 DEF Coherent, verificationFailureReasonsMatch
<1> QED
  BY <1>1, <1>2 DEF decideResponseForFailure

(* A failure intake that is translated has a surface.                      *)
LEMMA TranslatedHasSurface ==
  ASSUME NEW i \in Integrations, NEW allowed \in BOOLEAN,
         translateProviderRuntimeFailureIntake(i, allowed).translated
  PROVE  hasFailureSurface(translateProviderRuntimeFailureIntake(i, allowed))
<1> DEFINE t == ~FailureIntakeRefused(i, allowed)
<1>1. translateProviderRuntimeFailureIntake(i, allowed)
        = [translated |-> t, surface |-> IF t THEN i.surface ELSE None]
  BY DEF translateProviderRuntimeFailureIntake
<1>2. t \in BOOLEAN
  BY IntegrationsAssumption DEF IntegrationShape, FailureIntakeRefused
<1> HIDE DEF t
<1>3. t
  BY <1>1, <1>2
<1>4. i.surface # None
  BY <1>3 DEF t, FailureIntakeRefused
<1> QED
  BY <1>1, <1>3, <1>4 DEF hasFailureSurface

(* P9L and P9M of a failure intake with a surface.                         *)
LEMMA VerifiedSilent ==
  ASSUME NEW i, NEW vi, NEW fi, NEW allowed \in BOOLEAN,
         verifyProviderRuntimeOutcome(i, vi, fi, allowed).status = "VERIFIED"
  PROVE  ~hasFailureSurface(fi)
BY DEF verifyProviderRuntimeOutcome, VerificationDenied, Verification

LEMMA NotRequiredSilent ==
  ASSUME NEW i, NEW v, NEW fi, NEW allowed \in BOOLEAN,
         classifyProviderRuntimeFailure(i, v, fi, allowed).status = "NOT_REQUIRED"
  PROVE  ~hasFailureSurface(fi)
BY DEF classifyProviderRuntimeFailure, ClassificationDenied, ClassificationNotRequired,
       Classified, Classification

(* P9N decides no action of what is verified and not required.             *)
LEMMA NoActionSilent ==
  ASSUME NEW v, NEW k, NEW r, NEW allowed \in BOOLEAN,
         decideProviderRuntimeResponse(v, k, r, allowed).response = "NO_ACTION"
  PROVE  v.status = "VERIFIED" /\ k.status = "NOT_REQUIRED"
<1>1. decideResponseForFailure(k, r) # "NO_ACTION"
  BY DEF decideResponseForFailure
<1>2. None # "NO_ACTION"
  BY NoneAssumption
<1> QED
  BY <1>1, <1>2 DEF decideProviderRuntimeResponse, DecisionDenied, NoAction, NotDecided, Decided

----------------------------------------------------------------------------
LEMMA InitIInv == Init => IInv
<1> SUFFICES ASSUME Init PROVE IInv
  OBVIOUS
<1>1. None \notin {"NO_ACTION", "RETRY", "FAILOVER", "STOP"}
  BY NoneAssumption
<1>2. Shapes /\ IntakesOwn /\ IncompleteSeen /\ IncompleteClassed
  BY DEF Init, Shapes, IntakesOwn, IncompleteSeen, IncompleteClassed
<1>3. IncompleteNeverRetried
  BY <1>1 DEF Init, IncompleteNeverRetried, Response
<1>4. SilentStages /\ SilentDecision /\ DecidedVerified
  BY <1>1 DEF Init, SilentStages, SilentDecision, DecidedVerified, Response
<1> QED
  BY <1>2, <1>3, <1>4 DEF IInv

LEMMA NextIInv == IInv /\ [Next]_vars => IInv'
<1> SUFFICES ASSUME IInv, [Next]_vars PROVE IInv'
  OBVIOUS
<1> USE DEF IInv
<1>1. CASE UNCHANGED vars
  BY <1>1 DEF vars, Shapes, IntakesOwn, IncompleteSeen, IncompleteClassed,
     IncompleteNeverRetried, SilentStages, SilentDecision, DecidedVerified, Silent, Response
<1>2. ASSUME NEW c \in Calls, NEW verify \in Gates, NEW fail \in Gates, NEW recover \in Gates,
             TakeIn(c, verify, fail, recover)
      PROVE  IInv'
  <2>1. Shapes' /\ IntakesOwn'
    BY <1>2 DEF TakeIn, Shapes, IntakesOwn
  <2>2. SilentStages' /\ SilentDecision'
    BY <1>2 DEF TakeIn, Shapes, SilentStages, SilentDecision, Silent, Response
  <2> QED
    BY <1>2, <2>1, <2>2 DEF TakeIn, IncompleteSeen, IncompleteClassed, IncompleteNeverRetried,
       DecidedVerified, Response
<1>3. ASSUME NEW c \in Calls, NEW w \in Calls, NEW f \in Calls, NEW allowed \in Gates,
             Verify(c, w, f, allowed)
      PROVE  IInv'
  <2> DEFINE v == verifyProviderRuntimeOutcome(integration[c], intakes[w].verification,
                                               intakes[f].failure, allowed)
  <2>1. Shapes' /\ IntakesOwn'
    BY <1>3 DEF Verify, Shapes, IntakesOwn
  <2>2. Incomplete(integration[w]) =>
          \/ v.status = "DENIED"
          \/ v.status = "NOT_VERIFIED" /\ v.reason = "NOT_COMPLETED"
    BY <1>3, VerifyIncomplete DEF Verify, IntakesOwn, Gates
  <2>3. verification'[c].result = v /\ verification'[c].factsOf = w
    BY <1>3 DEF Verify, Shapes
  <2>4. IncompleteSeen'
    BY <1>3, <2>2, <2>3 DEF Verify, Shapes, IncompleteSeen, Incomplete
  <2>5. SilentStages' /\ SilentDecision'
    <3>1. verification'[c].surfaceOf = f
      BY <1>3 DEF Verify, Shapes
    <3>2. v.status = "VERIFIED" => Silent(f)
      BY <1>3, VerifiedSilent DEF Verify, Silent, Gates
    <3>3. SilentStages'
      BY <1>3, <2>3, <3>1, <3>2 DEF Verify, Shapes, SilentStages, Silent
    <3>4. SilentDecision'
      BY <1>3 DEF Verify, Shapes, SilentDecision, Response
    <3> QED
      BY <3>3, <3>4
  <2>6. DecidedVerified' /\ IncompleteNeverRetried'
    <3>1. ASSUME Response # None
          PROVE  decision.of \in Calls /\ verification[decision.of] # None
                 /\ verification'[decision.of] = verification[decision.of]
      BY <1>3, <3>1 DEF Verify, Shapes, DecidedVerified
    <3>2. Response' = Response /\ decision' = decision /\ integration' = integration
      BY <1>3 DEF Verify, Response
    <3>3. None \notin {"NO_ACTION", "RETRY", "FAILOVER", "STOP"}
      BY NoneAssumption
    <3>4. DecidedVerified'
      BY <3>1, <3>2 DEF DecidedVerified
    <3>5. IncompleteNeverRetried'
      BY <3>1, <3>2, <3>3 DEF IncompleteNeverRetried, Incomplete
    <3> QED
      BY <3>4, <3>5
  <2> QED
    BY <1>3, <2>1, <2>4, <2>5, <2>6 DEF Verify, IncompleteClassed
<1>4. ASSUME NEW c \in Calls, NEW w \in Calls, NEW f \in Calls, NEW allowed \in Gates,
             Classify(c, w, f, allowed)
      PROVE  IInv'
  <2> DEFINE k == classifyProviderRuntimeFailure(integration[c], verification[w].result,
                                                 intakes[f].failure, allowed)
  <2>1. Shapes' /\ IntakesOwn'
    BY <1>4 DEF Classify, Shapes, IntakesOwn
  <2>2. k.status = "CLASSIFIED" /\ k.verificationReason = "NOT_COMPLETED"
          => k.class = "EXECUTION_INCOMPLETE"
    BY ClassifyIncomplete DEF Gates
  <2>3. classification'[c].result = k
    BY <1>4 DEF Classify, Shapes
  <2>4. IncompleteClassed'
    BY <1>4, <2>2, <2>3 DEF Classify, Shapes, IncompleteClassed
  <2>5. SilentStages' /\ SilentDecision'
    <3>1. classification'[c].surfaceOf = f
      BY <1>4 DEF Classify, Shapes
    <3>2. k.status = "NOT_REQUIRED" => Silent(f)
      BY <1>4, NotRequiredSilent DEF Classify, Silent, Gates
    <3>3. SilentStages'
      BY <1>4, <2>3, <3>1, <3>2 DEF Classify, Shapes, SilentStages, Silent
    <3>4. SilentDecision'
      BY <1>4 DEF Classify, Shapes, SilentDecision, Response
    <3> QED
      BY <3>3, <3>4
  <2> QED
    BY <1>4, <2>1, <2>4, <2>5 DEF Classify, IncompleteSeen, IncompleteNeverRetried,
       DecidedVerified, Response
<1>5. ASSUME NEW c \in Calls, NEW k \in Calls,
             NEW recovered \in {{}} \union {{r} : r \in Calls}, NEW allowed \in Gates,
             Decide(c, k, recovered, allowed)
      PROVE  IInv'
  <2> DEFINE v == verification[c].result
             m == classification[k].result
             d == decideProviderRuntimeResponse(
                    v, m, {intakes[r].recovery : r \in recovered}, allowed)
  <2>1. Shapes' /\ IntakesOwn' /\ IncompleteSeen' /\ IncompleteClassed'
    BY <1>5 DEF Decide, Shapes, IntakesOwn, IncompleteSeen, IncompleteClassed
  <2>2. IncompleteNeverRetried'
    <3> SUFFICES ASSUME Response' \in {"NO_ACTION", "RETRY", "FAILOVER", "STOP"},
                        Incomplete(integration'[verification'[decision'.of].factsOf])
                 PROVE  FALSE
      BY DEF IncompleteNeverRetried
    <3>1. decision' # None /\ decision'.response \in {"NO_ACTION", "RETRY", "FAILOVER", "STOP"}
      BY NoneAssumption DEF Response
    <3>2. CASE d.status # "DECIDED"
      <4>1. decision' = d
        BY <1>5, <3>2 DEF Decide
      <4>2. d.response = None
        BY <3>2 DEF decideProviderRuntimeResponse, DecisionDenied, NoAction, NotDecided, Decided
      <4> QED
        BY <3>1, <4>1, <4>2, NoneAssumption
    <3>3. CASE d.status = "DECIDED"
      <4>1. decision' = [status |-> d.status, response |-> d.response,
                         of |-> c, classified |-> k, recovered |-> recovered]
        BY <1>5, <3>3 DEF Decide
      <4>2. Incomplete(integration[verification[c].factsOf])
        <5>1. decision'.of = c
          BY <4>1
        <5>2. integration' = integration /\ verification' = verification
          BY <1>5 DEF Decide
        <5> QED
          BY <5>1, <5>2
      <4>3. v.status # "DENIED"
        BY <3>3 DEF decideProviderRuntimeResponse, DecisionDenied, DecisionRefused
      <4>4. v.status = "NOT_VERIFIED" /\ v.reason = "NOT_COMPLETED"
        BY <1>5, <4>2, <4>3 DEF Decide, IncompleteSeen
      <4>5. m.status = "CLASSIFIED" /\ m.verificationReason = "NOT_COMPLETED"
              => m.class = "EXECUTION_INCOMPLETE"
        BY <1>5 DEF Decide, IncompleteClassed
      <4>6. d.response \in {"RECOVER", "ESCALATE"}
        BY <3>3, <4>4, <4>5, DecideIncomplete DEF Gates
      <4> QED
        BY <3>1, <4>1, <4>6
    <3> QED
      BY <3>2, <3>3
  <2>3. SilentStages'
    BY <1>5 DEF Decide, SilentStages, Silent
  <2>4. SilentDecision'
    <3> SUFFICES ASSUME Response' = "NO_ACTION"
                 PROVE  /\ decision'.of \in Calls /\ decision'.classified \in Calls
                        /\ verification[decision'.of] # None
                        /\ verification[decision'.of].result.status = "VERIFIED"
                        /\ classification[decision'.classified] # None
                        /\ classification[decision'.classified].result.status = "NOT_REQUIRED"
      BY <1>5 DEF Decide, SilentDecision
    <3>1. decision'.response = "NO_ACTION" /\ None # "NO_ACTION"
      BY NoneAssumption DEF Response
    <3>2. d.status = "DECIDED" \/ d.response = None
      BY DEF decideProviderRuntimeResponse, DecisionDenied, NoAction, NotDecided, Decided
    <3>3. d.status = "DECIDED"
      BY <1>5, <3>1, <3>2 DEF Decide
    <3>4. decision' = [status |-> d.status, response |-> d.response,
                       of |-> c, classified |-> k, recovered |-> recovered]
      BY <1>5, <3>3 DEF Decide
    <3>5. v.status = "VERIFIED" /\ m.status = "NOT_REQUIRED"
      BY <3>1, <3>4, NoActionSilent DEF Gates
    <3> QED
      BY <1>5, <3>4, <3>5 DEF Decide
  <2>5. DecidedVerified'
    <3> SUFFICES ASSUME decision' # None, decision'.response # None
                 PROVE  decision'.of \in Calls /\ verification'[decision'.of] # None
      BY DEF DecidedVerified, Response
    <3>1. d.status = "DECIDED" \/ d.response = None
      BY DEF decideProviderRuntimeResponse, DecisionDenied, NoAction, NotDecided, Decided
    <3>2. decision' = [status |-> d.status, response |-> d.response,
                       of |-> c, classified |-> k, recovered |-> recovered]
      BY <1>5, <3>1 DEF Decide
    <3>3. decision'.of = c
      BY <3>2
    <3> QED
      BY <1>5, <3>3 DEF Decide
  <2> QED
    BY <2>1, <2>2, <2>3, <2>4, <2>5
<1> QED
  BY <1>1, <1>2, <1>3, <1>4, <1>5 DEF Next

THEOREM Invariance == Spec => []IInv
<1> QED
  BY InitIInv, NextIInv, PTL DEF Spec

(* A call whose facts say that it was attempted and did not complete is    *)
(* answered by recovery or escalation only, whichever other results the    *)
(* caller mixes in.                                                        *)
THEOREM IncompleteNotRepeated == Spec => []IncompleteNeverRetried
<1>1. IInv => IncompleteNeverRetried
  BY DEF IInv
<1> QED
  BY Invariance, <1>1, PTL

(* A failure is answered by no action only if its intake was not           *)
(* translated or reached neither P9L nor P9M.                              *)
THEOREM SilenceHasReason == Spec => []SilenceExplained
<1>1. IInv => SilenceExplained
  <2> SUFFICES ASSUME IInv, Response = "NO_ACTION",
                      integration[decision.of].surface # None,
                      intakes[decision.of].failure.translated
               PROVE  /\ verification[decision.of].surfaceOf # decision.of
                      /\ classification[decision.classified].surfaceOf # decision.of
    BY DEF SilenceExplained
  <2>1. /\ decision.of \in Calls /\ decision.classified \in Calls
        /\ Silent(verification[decision.of].surfaceOf)
        /\ Silent(classification[decision.classified].surfaceOf)
    BY DEF IInv, SilentStages, SilentDecision
  <2>2. ~Silent(decision.of)
    <3> SUFFICES ASSUME intakes[decision.of] # None PROVE ~Silent(decision.of)
      BY DEF Silent
    <3>1. PICK allowed \in Gates :
            intakes[decision.of].failure
              = translateProviderRuntimeFailureIntake(integration[decision.of], allowed)
      BY <2>1 DEF IInv, IntakesOwn
    <3>2. integration[decision.of] \in Integrations
      BY <2>1 DEF IInv, Shapes
    <3> QED
      BY <3>1, <3>2, TranslatedHasSurface DEF Silent, Gates
  <2> QED
    BY <2>1, <2>2
<1> QED
  BY Invariance, <1>1, PTL

----------------------------------------------------------------------------
(* Where results come from.                                                *)

(* What a call's intakes are.                                              *)
IntakeOf(c) ==
  \E verify, fail, recover \in Gates :
    intakes[c] =
      [verification |-> translateProviderRuntimeVerificationIntake(integration[c], verify),
       failure      |-> translateProviderRuntimeFailureIntake(integration[c], fail),
       recovery     |-> assessProviderRuntimeRecoveryIntake(integration[c], recover)]

VerificationOf(c) ==
  /\ verification[c].factsOf \in Calls /\ intakes[verification[c].factsOf] # None
  /\ verification[c].surfaceOf \in Calls /\ intakes[verification[c].surfaceOf] # None
  /\ \E allowed \in Gates :
       verification[c].result =
         verifyProviderRuntimeOutcome(integration[c],
           intakes[verification[c].factsOf].verification,
           intakes[verification[c].surfaceOf].failure, allowed)

ClassificationOf(c) ==
  /\ classification[c].verificationOf \in Calls
  /\ verification[classification[c].verificationOf] # None
  /\ classification[c].surfaceOf \in Calls /\ intakes[classification[c].surfaceOf] # None
  /\ \E allowed \in Gates :
       classification[c].result =
         classifyProviderRuntimeFailure(integration[c],
           verification[classification[c].verificationOf].result,
           intakes[classification[c].surfaceOf].failure, allowed)

DecisionOf(c, k, recovered) ==
  /\ c \in Calls /\ k \in Calls /\ recovered \subseteq Calls
  /\ verification[c] # None /\ classification[k] # None
  /\ \A r \in recovered : intakes[r] # None
  /\ \E allowed \in Gates :
       LET d == decideProviderRuntimeResponse(
                  verification[c].result, classification[k].result,
                  {intakes[r].recovery : r \in recovered}, allowed)
       IN  d.status = "DECIDED" /\ d.response = decision.response

(* Every result is what its stage makes of results that still stand.       *)
Accounted ==
  /\ \A c \in Calls :
       /\ intakes[c] # None => IntakeOf(c)
       /\ verification[c] # None => VerificationOf(c)
       /\ classification[c] # None => ClassificationOf(c)
  /\ Response # None => DecisionOf(decision.of, decision.classified, decision.recovered)

(* At the start nothing has to be accounted for.                           *)
LEMMA InitAccounted == Init => Accounted
BY DEF Init, Accounted, Response

(* A step that leaves what stood leaves it accounted for.                  *)
LEMMA AccountStands ==
  ASSUME Accounted, UNCHANGED integration,
         \A c \in Calls :
           /\ intakes[c] # None => intakes'[c] = intakes[c]
           /\ verification[c] # None => verification'[c] = verification[c]
           /\ classification[c] # None => classification'[c] = classification[c]
  PROVE  /\ \A c \in Calls :
              /\ intakes[c] # None => IntakeOf(c)'
              /\ verification[c] # None => VerificationOf(c)'
              /\ classification[c] # None => ClassificationOf(c)'
         /\ (UNCHANGED decision /\ Response # None)
              => DecisionOf(decision.of, decision.classified, decision.recovered)'
<1>1. ASSUME NEW c \in Calls, intakes[c] # None PROVE IntakeOf(c)'
  BY <1>1 DEF Accounted, IntakeOf
<1>2. ASSUME NEW c \in Calls, verification[c] # None PROVE VerificationOf(c)'
  <2>1. VerificationOf(c)
    BY <1>2 DEF Accounted
  <2> QED
    BY <1>2, <2>1 DEF VerificationOf
<1>3. ASSUME NEW c \in Calls, classification[c] # None PROVE ClassificationOf(c)'
  <2>1. ClassificationOf(c)
    BY <1>3 DEF Accounted
  <2> QED
    BY <1>3, <2>1 DEF ClassificationOf
<1>4. ASSUME UNCHANGED decision, Response # None
      PROVE  DecisionOf(decision.of, decision.classified, decision.recovered)'
  <2>1. DecisionOf(decision.of, decision.classified, decision.recovered)
    BY <1>4 DEF Accounted
  <2>2. PICK c, k, R : c = decision.of /\ k = decision.classified /\ R = decision.recovered
    OBVIOUS
  <2>3. \A r \in R : intakes'[r] = intakes[r]
    BY <2>1, <2>2 DEF DecisionOf
  <2>4. {intakes'[r].recovery : r \in R} = {intakes[r].recovery : r \in R}
    BY <2>3
  <2>5. verification'[c] = verification[c] /\ classification'[k] = classification[k]
    BY <2>1, <2>2 DEF DecisionOf
  <2>6. decision'.of = c /\ decision'.classified = k /\ decision'.recovered = R
    BY <1>4, <2>2
  <2>7. DecisionOf(c, k, R)
    BY <2>1, <2>2
  <2>8. DecisionOf(c, k, R)'
    BY <1>4, <2>3, <2>4, <2>5, <2>7 DEF DecisionOf
  <2> QED
    BY <2>6, <2>8
<1> QED
  BY <1>1, <1>2, <1>3, <1>4

(* Every step accounts for what it adds, and leaves the rest accounted     *)
(* for.                                                                    *)
LEMMA NextAccounted == Shapes /\ Accounted /\ [Next]_vars => Accounted'
<1> SUFFICES ASSUME Shapes, Accounted, [Next]_vars PROVE Accounted'
  OBVIOUS
<1>1. CASE UNCHANGED vars
  <2>1. Response' = Response
    BY <1>1 DEF vars, Response
  <2> QED
    BY <1>1, <2>1, AccountStands DEF vars, Accounted
<1>2. ASSUME NEW c \in Calls, NEW verify \in Gates, NEW fail \in Gates, NEW recover \in Gates,
             TakeIn(c, verify, fail, recover)
      PROVE  Accounted'
  <2>1. IntakeOf(c)'
    BY <1>2 DEF TakeIn, IntakeOf, Shapes
  <2>2. Response' = Response
    BY <1>2 DEF TakeIn, Response
  <2>3. \A x \in Calls : x # c => intakes'[x] = intakes[x]
    BY <1>2 DEF TakeIn, Shapes
  <2>4. intakes[c] = None /\ UNCHANGED <<integration, verification, classification, decision>>
    BY <1>2 DEF TakeIn
  <2> QED
    BY <2>1, <2>2, <2>3, <2>4, AccountStands DEF Accounted
<1>3. ASSUME NEW c \in Calls, NEW w \in Calls, NEW f \in Calls, NEW allowed \in Gates,
             Verify(c, w, f, allowed)
      PROVE  Accounted'
  <2>1. VerificationOf(c)'
    BY <1>3 DEF Verify, VerificationOf, Shapes
  <2>2. Response' = Response
    BY <1>3 DEF Verify, Response
  <2>3. \A x \in Calls : x # c => verification'[x] = verification[x]
    BY <1>3 DEF Verify, Shapes
  <2>4. verification[c] = None /\ UNCHANGED <<integration, intakes, classification, decision>>
    BY <1>3 DEF Verify
  <2> QED
    BY <2>1, <2>2, <2>3, <2>4, AccountStands DEF Accounted
<1>4. ASSUME NEW c \in Calls, NEW w \in Calls, NEW f \in Calls, NEW allowed \in Gates,
             Classify(c, w, f, allowed)
      PROVE  Accounted'
  <2>1. ClassificationOf(c)'
    BY <1>4 DEF Classify, ClassificationOf, Shapes
  <2>2. Response' = Response
    BY <1>4 DEF Classify, Response
  <2>3. \A x \in Calls : x # c => classification'[x] = classification[x]
    BY <1>4 DEF Classify, Shapes
  <2>4. classification[c] = None /\ UNCHANGED <<integration, intakes, verification, decision>>
    BY <1>4 DEF Classify
  <2> QED
    BY <2>1, <2>2, <2>3, <2>4, AccountStands DEF Accounted
<1>5. ASSUME NEW c \in Calls, NEW k \in Calls,
             NEW recovered \in {{}} \union {{r} : r \in Calls}, NEW allowed \in Gates,
             Decide(c, k, recovered, allowed)
      PROVE  Accounted'
  <2>1. UNCHANGED <<integration, intakes, verification, classification>> /\ decision = None
    BY <1>5 DEF Decide
  <2>2. \A x \in Calls :
          /\ intakes'[x] # None => IntakeOf(x)'
          /\ verification'[x] # None => VerificationOf(x)'
          /\ classification'[x] # None => ClassificationOf(x)'
    BY <2>1, AccountStands
  <2>3. ASSUME Response' # None
        PROVE  DecisionOf(decision.of, decision.classified, decision.recovered)'
    <3> DEFINE d == decideProviderRuntimeResponse(
                      verification[c].result, classification[k].result,
                      {intakes[r].recovery : r \in recovered}, allowed)
    <3>1. d.status = "DECIDED" \/ d.response = None
      BY DEF decideProviderRuntimeResponse, DecisionDenied, NoAction, NotDecided, Decided
    <3>2. decision' = IF d.status # "DECIDED" THEN d
                      ELSE [status |-> d.status, response |-> d.response,
                            of |-> c, classified |-> k, recovered |-> recovered]
      BY <1>5 DEF Decide
    <3>3. d.status = "DECIDED"
      BY <2>3, <3>1, <3>2 DEF Response
    <3>4. decision' = [status |-> d.status, response |-> d.response,
                       of |-> c, classified |-> k, recovered |-> recovered]
      BY <3>2, <3>3
    <3>5. /\ verification[c] # None /\ classification[k] # None
          /\ \A r \in recovered : intakes[r] # None
          /\ recovered \subseteq Calls
      BY <1>5 DEF Decide
    <3> QED
      BY <2>1, <3>3, <3>4, <3>5 DEF DecisionOf
  <2> QED
    BY <2>2, <2>3 DEF Accounted
<1> QED
  BY <1>1, <1>2, <1>3, <1>4, <1>5 DEF Next

----------------------------------------------------------------------------
(* An integration result has the types of its contract.                    *)
LEMMA IntegrationTyped ==
  ASSUME NEW i \in Integrations
  PROVE  /\ i.ready \in BOOLEAN /\ i.facts \in BOOLEAN /\ i.attempted \in BOOLEAN
         /\ i.completed \in BOOLEAN /\ i.failureRequired \in BOOLEAN
         /\ i.recoveryRequired \in BOOLEAN
         /\ i.surface # None => i.surface.retryable \in BOOLEAN
BY IntegrationsAssumption DEF IntegrationShape, FailureSurface

(* What a call's own intakes say is true of its integration result.        *)
LEMMA OwnIntake ==
  ASSUME NEW c \in Calls, IntakeOf(c), integration[c] \in Integrations
  PROVE  LET i == integration[c]
             vi == intakes[c].verification
             fi == intakes[c].failure
             ri == intakes[c].recovery
         IN  /\ vi.observed \in BOOLEAN /\ vi.completed \in BOOLEAN
             /\ vi.translated \in BOOLEAN
             /\ vi.translated => i.ready /\ i.facts
             /\ vi.observed => i.attempted
             /\ vi.completed => i.completed
             /\ vi.translated /\ ~vi.completed => ~i.completed
             /\ hasFailureSurface(fi) => i.surface # None /\ fi.surface = i.surface
             /\ ri.ready \in BOOLEAN
             /\ ri.ready => i.recovery = "READY"
             /\ ri.ctx = i.ctx
<1> PICK i : i = integration[c]
  OBVIOUS
<1> PICK verify \in Gates, fail \in Gates, recover \in Gates :
      intakes[c] =
        [verification |-> translateProviderRuntimeVerificationIntake(i, verify),
         failure      |-> translateProviderRuntimeFailureIntake(i, fail),
         recovery     |-> assessProviderRuntimeRecoveryIntake(i, recover)]
  BY DEF IntakeOf
<1>1. /\ i.ready \in BOOLEAN /\ i.facts \in BOOLEAN /\ i.attempted \in BOOLEAN
      /\ i.completed \in BOOLEAN /\ i.failureRequired \in BOOLEAN
      /\ i.recoveryRequired \in BOOLEAN
  BY IntegrationTyped
<1>2. PICK t \in BOOLEAN, o \in BOOLEAN, d \in BOOLEAN :
        /\ translateProviderRuntimeVerificationIntake(i, verify)
             = [translated |-> t, observed |-> o, completed |-> d]
        /\ t => i.ready /\ i.facts
        /\ o => i.attempted
        /\ d => i.completed
        /\ t /\ ~d => ~i.completed
  <2> DEFINE t == ~VerificationIntakeRefused(i, verify)
             o == i.ready /\ i.facts /\ i.attempted
             d == i.ready /\ i.facts /\ i.completed
  <2>1. t \in BOOLEAN /\ o \in BOOLEAN /\ d \in BOOLEAN
    BY <1>1 DEF VerificationIntakeRefused
  <2>2. translateProviderRuntimeVerificationIntake(i, verify)
          = [translated |-> t, observed |-> o, completed |-> d]
    BY DEF translateProviderRuntimeVerificationIntake
  <2>3. /\ t => i.ready /\ i.facts
        /\ o => i.attempted
        /\ d => i.completed
        /\ t /\ ~d => ~i.completed
    BY <1>1 DEF VerificationIntakeRefused
  <2> HIDE DEF t, o, d
  <2> QED
    BY <2>1, <2>2, <2>3
<1>3. PICK y \in BOOLEAN :
        /\ assessProviderRuntimeRecoveryIntake(i, recover)
             = [ctx |-> i.ctx, required |-> i.recoveryRequired, ready |-> y]
        /\ y => i.recovery = "READY"
  <2> DEFINE y == ~RecoveryIntakeRefused(i, recover) /\ i.recovery = "READY"
  <2>1. y \in BOOLEAN
    BY DEF RecoveryIntakeRefused
  <2>2. assessProviderRuntimeRecoveryIntake(i, recover)
          = [ctx |-> i.ctx, required |-> i.recoveryRequired, ready |-> y]
    BY DEF assessProviderRuntimeRecoveryIntake
  <2>3. y => i.recovery = "READY"
    OBVIOUS
  <2> HIDE DEF y
  <2> QED
    BY <2>1, <2>2, <2>3
<1>4. LET fi == translateProviderRuntimeFailureIntake(i, fail)
      IN  hasFailureSurface(fi) => i.surface # None /\ fi.surface = i.surface
  BY DEF translateProviderRuntimeFailureIntake, FailureIntakeRefused, hasFailureSurface
<1>5. /\ intakes[c].verification = translateProviderRuntimeVerificationIntake(i, verify)
      /\ intakes[c].failure = translateProviderRuntimeFailureIntake(i, fail)
      /\ intakes[c].recovery = assessProviderRuntimeRecoveryIntake(i, recover)
  OBVIOUS
<1>6. hasFailureSurface(intakes[c].failure)
        => i.surface # None /\ intakes[c].failure.surface = i.surface
  BY <1>4, <1>5
<1>7. /\ intakes[c].verification = [translated |-> t, observed |-> o, completed |-> d]
      /\ intakes[c].recovery = [ctx |-> i.ctx, required |-> i.recoveryRequired, ready |-> y]
  BY <1>2, <1>3, <1>5
<1> QED
  BY <1>2, <1>3, <1>6, <1>7

(* P9L verifies what was observed and completed, and gives incompleteness  *)
(* as the reason only of what was observed and did not complete.           *)
LEMMA VerifiedOutcome ==
  ASSUME NEW i, NEW vi, NEW fi, NEW allowed \in BOOLEAN,
         vi.observed \in BOOLEAN, vi.completed \in BOOLEAN, vi.translated \in BOOLEAN,
         NEW v, v = verifyProviderRuntimeOutcome(i, vi, fi, allowed)
  PROVE  /\ v.ctx = i.ctx
         /\ v.status = "VERIFIED" => vi.observed /\ vi.completed
         /\ v.status # "DENIED" /\ v.reason = "NOT_COMPLETED" =>
              vi.translated /\ vi.observed /\ ~vi.completed
BY NoneAssumption
DEF verifyProviderRuntimeOutcome, VerificationRefused, VerificationDenied, Verification

(* P9M classifies only what has a surface, by that surface.                *)
LEMMA ClassifiedOutcome ==
  ASSUME NEW i, NEW v, NEW fi, NEW allowed \in BOOLEAN,
         NEW k, k = classifyProviderRuntimeFailure(i, v, fi, allowed)
  PROVE  /\ k.ctx = i.ctx
         /\ k.status = "CLASSIFIED" =>
              /\ hasFailureSurface(fi)
              /\ k.class = classifyFailureSurface(fi.surface, v)
              /\ k.retryable = fi.surface.retryable
              /\ k.verificationReason = v.reason
BY DEF classifyProviderRuntimeFailure, ClassificationDenied, ClassificationNotRequired,
       Classified, Classification

(* What a class says of the codes on the surface: of the classes the codes *)
(* name it is the first in the order.                                      *)
LEMMA ClassTells ==
  ASSUME NEW s, NEW v, NEW class, class = classifyFailureSurface(s, v)
  PROVE  /\ class = "EXECUTION_INCOMPLETE" => v.reason = "NOT_COMPLETED"
         /\ class = "RATE_LIMIT" =>
              /\ s.providerRawErrorCode \notin {"ValidationException", "AccessDeniedException"}
              /\ s.failureCode = "THROTTLED" \/ s.providerRawErrorCode \in
                                       {"ThrottlingException", "TooManyRequestsException"}
         /\ class = "TIMEOUT" =>
              /\ s.providerRawErrorCode \notin {"ValidationException", "AccessDeniedException"}
              /\ s.failureCode = "TIMEOUT" \/ s.providerRawErrorCode = "TimeoutException"
         /\ class = "UNAVAILABLE" =>
              s.providerRawErrorCode \in {"ServiceUnavailable", "InternalServiceError"}
         /\ class = "DEPENDENCY" =>
              s.providerRawErrorCode \in {"DependencyFailure", "UpstreamFailure"}
         /\ class \in {"CONFIGURATION", "INVALID_REQUEST", "CONTRACT"} =>
              s.providerRawErrorCode \in
                {"InvalidKeyState", "InvalidConfiguration", "InvalidRequestException",
                 "ValidationException", "ContractMismatch", "AdapterIncompatible"}
<1> DEFINE named == {n \in DOMAIN ClassOrder : Names(n, s)}
<1>1. CASE v.reason = "NOT_COMPLETED"
  BY <1>1 DEF classifyFailureSurface
<1>2. CASE v.reason # "NOT_COMPLETED" /\ named = {}
  BY <1>2 DEF classifyFailureSurface
<1>3. CASE v.reason # "NOT_COMPLETED" /\ named # {}
  <2>1. DOMAIN ClassOrder = 1..9
    BY DEF ClassOrder
  <2>2. \E n \in named : \A m \in named : n <= m
    <3>1. named \subseteq 1..9
      BY <2>1
    <3> HIDE DEF named
    <3> SUFFICES ASSUME \A n \in named : \E m \in named : m < n PROVE FALSE
      BY <3>1
    <3>2. 1 \notin named
      BY <3>1
    <3>3. 2 \notin named
      BY <3>1, <3>2
    <3>4. 3 \notin named
      BY <3>1, <3>2, <3>3
    <3>5. 4 \notin named
      BY <3>1, <3>2, <3>3, <3>4
    <3>6. 5 \notin named
      BY <3>1, <3>2, <3>3, <3>4, <3>5
    <3>7. 6 \notin named
      BY <3>1, <3>2, <3>3, <3>4, <3>5, <3>6
    <3>8. 7 \notin named
      BY <3>1, <3>2, <3>3, <3>4, <3>5, <3>6, <3>7
    <3>9. 8 \notin named
      BY <3>1, <3>2, <3>3, <3>4, <3>5, <3>6, <3>7, <3>8
    <3>10. 9 \notin named
      BY <3>1, <3>2, <3>3, <3>4, <3>5, <3>6, <3>7, <3>8, <3>9
    <3>11. ASSUME NEW n \in named PROVE FALSE
      <4>1. n \in 1..9
        BY <3>1
      <4> QED
        BY <4>1, <3>2, <3>3, <3>4, <3>5, <3>6, <3>7, <3>8, <3>9, <3>10
    <3> QED
      BY <1>3, <3>11
  <2>3. PICK n \in named : (\A m \in named : n <= m) /\ class = ClassOrder[n].class
    <3> DEFINE n == CHOOSE n \in named : \A m \in named : n <= m
    <3>1. n \in named /\ \A m \in named : n <= m
      BY <2>2
    <3>2. class = ClassOrder[n].class
      BY <1>3 DEF classifyFailureSurface
    <3> QED
      BY <3>1, <3>2
  <2>4. n \in 1..9 /\ Names(n, s) /\ \A m \in 1..9 : m < n => ~Names(m, s)
    BY <2>1, <2>3
  <2>5. n \in {1, 2, 3, 4, 5, 6, 7, 8, 9}
    BY <2>4
  <2>6. n > 4 => ~Names(4, s) /\ ~Names(1, s)
    BY <2>4
  <2> HIDE DEF named
  <2> QED
    BY <2>3, <2>4, <2>5, <2>6 DEF ClassOrder, Names
<1> QED
  BY <1>1, <1>2, <1>3

(* A response that is accounted for fits its call.                         *)
LEMMA FitsWhenAccounted == Shapes /\ Accounted => ResponseFits
<1> SUFFICES ASSUME Shapes, Accounted, Response # None, OwnMaterial,
                    \A x, y \in Calls : x # y => integration[x].ctx # integration[y].ctx
             PROVE  Warrants(integration[decision.of], Response)
  BY DEF ResponseFits
<1> PICK c, k, recovered, resp :
      /\ c = decision.of /\ k = decision.classified /\ recovered = decision.recovered
      /\ resp = decision.response
  OBVIOUS
<1>1. DecisionOf(c, k, recovered)
  BY DEF Accounted
<1>2. Response = resp
  BY DEF Response
<1> PICK i, v, m, r : /\ i = integration[c]
                      /\ v = verification[c].result
                      /\ m = classification[k].result
                      /\ r = {intakes[x].recovery : x \in recovered}
  OBVIOUS
<1>3. PICK allowed \in Gates :
        LET d == decideProviderRuntimeResponse(v, m, r, allowed)
        IN  d.status = "DECIDED" /\ d.response = resp
  BY <1>1 DEF DecisionOf
<1>4. /\ c \in Calls /\ k \in Calls /\ recovered \subseteq Calls
      /\ VerificationOf(c) /\ ClassificationOf(k) /\ IntakeOf(c)
      /\ \A x \in recovered : IntakeOf(x)
  <2>1. verification[c].factsOf = c
    BY DEF OwnMaterial
  <2> QED
    BY <1>1, <2>1 DEF DecisionOf, Accounted, VerificationOf
<1>5. /\ verification[c].factsOf = c /\ verification[c].surfaceOf = c
      /\ classification[k].verificationOf = k /\ classification[k].surfaceOf = k
  BY DEF OwnMaterial
<1>6. i \in Integrations
  BY <1>4 DEF Shapes
<1> PICK vi, fi, ri : /\ vi = intakes[c].verification /\ fi = intakes[c].failure
                      /\ ri = intakes[c].recovery
  OBVIOUS
<1>7. /\ vi.observed \in BOOLEAN /\ vi.completed \in BOOLEAN
      /\ vi.translated \in BOOLEAN
      /\ vi.translated => i.ready /\ i.facts
      /\ vi.observed => i.attempted
      /\ vi.completed => i.completed
      /\ vi.translated /\ ~vi.completed => ~i.completed
      /\ hasFailureSurface(fi) => i.surface # None /\ fi.surface = i.surface
      /\ ri.ready => i.recovery = "READY"
  BY <1>4, <1>6, OwnIntake
<1>8. PICK a \in Gates : v = verifyProviderRuntimeOutcome(i, vi, fi, a)
  BY <1>4, <1>5 DEF VerificationOf
<1>9. /\ v.ctx = i.ctx
      /\ v.status = "VERIFIED" => vi.observed /\ vi.completed
      /\ v.status # "DENIED" /\ v.reason = "NOT_COMPLETED" =>
           vi.translated /\ vi.observed /\ ~vi.completed
  BY <1>7, <1>8, VerifiedOutcome DEF Gates
<1>10. PICK b \in Gates :
         m = classifyProviderRuntimeFailure(integration[k], verification[k].result,
                                            intakes[k].failure, b)
  BY <1>4, <1>5 DEF ClassificationOf
<1>11. m.ctx = integration[k].ctx
  BY <1>10, ClassifiedOutcome DEF Gates
<1>12. /\ v.status # "DENIED" /\ Coherent(v, m, r)
       /\ \/ v.status = "VERIFIED" /\ resp = "NO_ACTION"
          \/ m.status = "CLASSIFIED" /\ resp = decideResponseForFailure(m, r)
  BY <1>3 DEF decideProviderRuntimeResponse, DecisionRefused, DecisionDenied, NoAction,
     NotDecided, Decided
<1>13. k = c
  BY <1>4, <1>9, <1>11, <1>12 DEF Coherent, runtimeContextsMatch
<1>14. \A x \in r : x = ri
  <2> SUFFICES ASSUME NEW y \in recovered PROVE y = c
    OBVIOUS
  <2>1. intakes[y].recovery.ctx = v.ctx
    BY <1>12 DEF Coherent, recoveryIntakeContextMatches, runtimeContextsMatch
  <2>2. y \in Calls /\ integration[y] \in Integrations /\ IntakeOf(y)
    BY <1>4 DEF Shapes
  <2>3. intakes[y].recovery.ctx = integration[y].ctx
    BY <2>2, OwnIntake
  <2> QED
    BY <1>4, <1>9, <2>1, <2>2, <2>3
<1>15. CASE v.status = "VERIFIED" /\ resp = "NO_ACTION"
  BY <1>2, <1>7, <1>9, <1>15 DEF Warrants
<1>16. CASE m.status = "CLASSIFIED" /\ resp = decideResponseForFailure(m, r)
  <2> PICK s : s = i.surface
    OBVIOUS
  <2>1. /\ hasFailureSurface(fi)
        /\ m.class = classifyFailureSurface(fi.surface, v)
        /\ m.retryable = fi.surface.retryable
    BY <1>10, <1>13, <1>16, ClassifiedOutcome DEF Gates
  <2>2. s # None /\ fi.surface = s /\ s.retryable \in BOOLEAN
    BY <1>6, <1>7, <2>1, IntegrationTyped
  <2>3. m.class = "EXECUTION_INCOMPLETE" => Incomplete(i)
    <3> SUFFICES ASSUME m.class = "EXECUTION_INCOMPLETE" PROVE Incomplete(i)
      OBVIOUS
    <3>1. v.reason = "NOT_COMPLETED"
      BY <2>1, ClassTells
    <3>2. vi.translated /\ vi.observed /\ ~vi.completed
      BY <1>9, <1>12, <3>1
    <3> QED
      BY <1>7, <3>2 DEF Incomplete
  <2>4. (\E x \in r : x.ready) => i.recovery = "READY"
    BY <1>7, <1>14
  <2>5. resp \in {"RETRY", "FAILOVER", "RECOVER", "STOP", "ESCALATE"}
    BY <1>16 DEF decideResponseForFailure
  <2>6. CASE resp = "RETRY"
    <3>1. m.class \in {"RATE_LIMIT", "TIMEOUT"} /\ m.retryable
      BY <1>16, <2>6 DEF decideResponseForFailure
    <3> QED
      BY <1>2, <2>1, <2>2, <2>6, <3>1, ClassTells DEF Warrants
  <2>7. CASE resp = "FAILOVER"
    <3>1. m.class = "UNAVAILABLE" /\ \E x \in r : x.ready
      BY <1>16, <2>7 DEF decideResponseForFailure
    <3> QED
      BY <1>2, <2>1, <2>2, <2>4, <2>7, <3>1, ClassTells DEF Warrants
  <2>8. CASE resp = "RECOVER"
    <3>1. m.class \in {"DEPENDENCY", "EXECUTION_INCOMPLETE"} /\ \E x \in r : x.ready
      BY <1>16, <2>8 DEF decideResponseForFailure
    <3> QED
      BY <1>2, <2>1, <2>2, <2>3, <2>4, <2>8, <3>1, ClassTells DEF Warrants
  <2>9. CASE resp = "STOP"
    <3>1. m.class \in {"CONFIGURATION", "INVALID_REQUEST", "CONTRACT"}
      BY <1>16, <2>9 DEF decideResponseForFailure
    <3> QED
      BY <1>2, <2>1, <2>2, <2>9, <3>1, ClassTells DEF Warrants
  <2>10. CASE resp = "ESCALATE"
    BY <1>2, <2>2, <2>10 DEF Warrants
  <2> QED
    BY <2>5, <2>6, <2>7, <2>8, <2>9, <2>10
<1> QED
  BY <1>12, <1>15, <1>16

(* The response decided for a call is one its own facts call for, for any  *)
(* number of calls whose results are handed over crosswise.                *)
THEOREM ResponseFitsCall == Spec => []ResponseFits
<1>1. Init => Shapes /\ Accounted
  BY InitAccounted, InitIInv DEF IInv
<1>2. IInv /\ Accounted /\ [Next]_vars => Accounted'
  BY NextAccounted DEF IInv
<1>3. IInv /\ Accounted => ResponseFits
  BY FitsWhenAccounted DEF IInv
<1> QED
  BY Invariance, <1>1, <1>2, <1>3, PTL DEF Spec
=============================================================================
