----------------------------- MODULE Emergence -----------------------------
(***************************************************************************)
(* How governance pressure is observed over time: AI-assisted workflows    *)
(* are observed and remembered (core/src/cognitive-observability), a       *)
(* bridge turns what is remembered into signals, and a governance cycle    *)
(* (core/src/governance/emergence) adds the signals of its own evidence,   *)
(* recommends a review from the cycles recorded before if its caller hands *)
(* it their timeline, states a posture, by the caller's review if there is *)
(* one, and is recorded.                                                   *)
(*                                                                         *)
(* The memories belong to the isolate.  A cycle is timed when it begins    *)
(* and recorded when its caller gets to it: overlapping cycles may be      *)
(* recorded out of order.  Who runs the cycles is external.  Rates and     *)
(* scores are in thousandths; the weighted sums of a cycle's evidence are  *)
(* its inputs, what is done with them is not.                              *)
(***************************************************************************)
EXTENDS Integers, FiniteSets, FiniteSetsExt, Sequences, SequencesExt

CONSTANTS
  Levels,      \* the levels of authority cycles are run for
  Workflows,   \* evidence of AI-assisted workflows
  Evidence,    \* evidence of governance cycles, each with the workflow it is
               \* bridged with, or NoWorkflow
  Overrides,   \* reviews a caller may hand over in place of the cycle's own
  Cycles,      \* cycles in progress at a time
  MaxEntries,  \* bound: observations remembered
  MaxCycles    \* bound: cycles begun

AuthorityLevel == {"VISION", "GRADUATE", "JUNIOR", "SENIOR", "PRINCIPAL", "CHARTER"}

GovernanceReviewDomain ==
  {"NONE", "GRADUATE_REVIEW", "JUNIOR_REVIEW", "SENIOR_REVIEW", "PRINCIPAL_REVIEW",
   "CHARTER_REVIEW"}

(* No review: of a cycle without a timeline, or of a caller that has none. *)
Undefined == "UNDEFINED"

ASSUME EmergenceBounds ==
  /\ MaxEntries \in Nat /\ MaxCycles \in Nat
  /\ Levels \subseteq AuthorityLevel /\ Overrides \subseteq GovernanceReviewDomain

NoWorkflow == [none |-> TRUE]

WorkflowEvidence ==
  [promptPatterns : Nat, prompts : Nat, artifacts : Nat, instructions : Nat, recoveries : Nat,
   reconciliations : Nat, dependencyRate : Nat, slowdown : BOOLEAN, shadow : BOOLEAN,
   tools : Nat]

ASSUME EvidenceAssumption ==
  /\ Workflows \subseteq WorkflowEvidence
  /\ \A e \in Evidence :
       e.confidence \in Nat /\ e.workflow \in WorkflowEvidence \union {NoWorkflow}

VARIABLES
  authority,         \* the level the cycles are run for
  cognitive,         \* cognitiveWorkflowMemory, as the counts that are read of it
  emergenceMemory,   \* the recorded cycles
  cycle,             \* per caller: a cycle begun and not yet recorded
  clock,
  latest             \* the state the last cycle stated, and what it was stated from

emergenceVars == <<authority, cognitive, emergenceMemory, cycle, clock, latest>>

EmergenceSeverity == <<"LOW", "MEDIUM", "HIGH", "CRITICAL">>

severityRank(s) == CHOOSE k \in DOMAIN EmergenceSeverity : EmergenceSeverity[k] = s

Clamp(score) == IF score > 1000 THEN 1000 ELSE IF score < 0 THEN 0 ELSE score

Normalize(count, target) == Clamp((count * 1000) \div target)

----------------------------------------------------------------------------
(* cognitive.workflow.observer.ts: five kinds of workflow.                 *)

Weighted(a, x, b, y) == Clamp((a * x + b * y) \div 10)

Flag(b) == IF b THEN 1000 ELSE 0

Observed(e) ==
  <<[type |-> "PROMPT_DRIVEN_OPERATION", present |-> e.promptPatterns > 0 \/ e.prompts > 0,
     recurring |-> e.promptPatterns >= 3,
     confidence |-> Weighted(5, Normalize(e.promptPatterns, 10), 5, Normalize(e.prompts, 20))],
    [type |-> "AI_GENERATED_ARTIFACT", present |-> e.artifacts > 0 \/ e.instructions > 0,
     recurring |-> e.artifacts >= 3,
     confidence |-> Weighted(6, Normalize(e.artifacts, 20), 4, Normalize(e.instructions, 20))],
    [type |-> "AI_ASSISTED_RECOVERY", present |-> e.recoveries > 0 \/ e.reconciliations > 0,
     recurring |-> e.recoveries >= 3,
     confidence |-> Weighted(5, Normalize(e.recoveries, 10), 5, Normalize(e.reconciliations, 10))],
    [type |-> "EXTERNAL_AI_DEPENDENCY", present |-> e.dependencyRate >= 500 \/ e.slowdown,
     recurring |-> TRUE, confidence |-> Weighted(7, e.dependencyRate, 3, Flag(e.slowdown))],
    [type |-> "SHADOW_AI_USAGE", present |-> e.shadow \/ e.tools > 0,
     recurring |-> e.tools >= 2,
     confidence |-> Weighted(6, Flag(e.shadow), 4, Normalize(e.tools, 5))]>>

(* Those of the five candidates that are there, and their confidence.      *)
There(five) == {k \in 1..5 : five[k].present}

Present(five) == {five[k] : k \in There(five)}

Average(five) ==
  LET Score(k) == IF five[k].present THEN five[k].confidence ELSE 0
      n == Cardinality(There(five))
  IN  IF n = 0 THEN 0 ELSE (Score(1) + Score(2) + Score(3) + Score(4) + Score(5)) \div n

observabilityLevel(confidence) ==
  CASE confidence >= 900 -> "CRITICAL"
    [] confidence \in 750..899 -> "HIGH"
    [] confidence \in 500..749 -> "MEDIUM"
    [] confidence \in 250..499 -> "LOW"
    [] OTHER -> "NONE"

observeCognitiveWorkflows(e) ==
  LET workflows == Present(Observed(e))
      confidence == Average(Observed(e))
      Sees(type) == \E w \in workflows : w.type = type
  IN  [recurring |-> \E w \in workflows : w.recurring,
       dependency |-> Sees("EXTERNAL_AI_DEPENDENCY"),
       shadow |-> Sees("SHADOW_AI_USAGE"),
       level |-> observabilityLevel(confidence),
       confidence |-> confidence]

----------------------------------------------------------------------------
(* cognitive.workflow.memory.ts.                                           *)

Count(b) == IF b THEN 1 ELSE 0

Remembered(memory, o) ==
  [entries |-> memory.entries + 1,
   recurring |-> memory.recurring + Count(o.recurring),
   dependency |-> memory.dependency + Count(o.dependency),
   shadow |-> memory.shadow + Count(o.shadow)]

buildMemorySnapshot(memory) ==
  LET recurring == Normalize(memory.recurring, 10)
      dependency == Normalize(memory.dependency, 10)
      shadow == Normalize(memory.shadow, 10)
      stability == IF memory.recurring >= 3 THEN 800 ELSE recurring \div 2
  IN  [recurring |-> recurring, dependency |-> dependency, shadow |-> shadow,
       stability |-> stability,
       cross |-> (6 * dependency + 4 * recurring) \div 10,
       maturity |-> (4 * stability + 3 * dependency + 3 * shadow) \div 10]

----------------------------------------------------------------------------
(* cognitive.governance.bridge.ts.                                         *)

Above(score, high, critical) ==
  IF score >= critical THEN "CRITICAL" ELSE IF score >= high THEN "HIGH" ELSE "MEDIUM"

BridgeSignals(o, m) ==
  <<[present |-> o.shadow \/ m.shadow >= 500,
     pressure |-> "AI_GOVERNANCE_PRESSURE", domain |-> "GRADUATE",
     severity |-> Above(m.shadow, 500, 750),
     confidence |-> Weighted(5, o.confidence, 5, m.shadow)],
    [present |-> o.dependency \/ m.dependency >= 500,
     pressure |-> "ADVISORY_PRESSURE", domain |-> "JUNIOR",
     severity |-> Above(m.dependency, 600, 800),
     confidence |-> Weighted(4, o.confidence, 6, m.dependency)],
    [present |-> m.recurring >= 700 /\ m.stability >= 700,
     pressure |-> "DELEGATION_PRESSURE", domain |-> "SENIOR",
     severity |-> IF m.stability >= 850 THEN "HIGH" ELSE "MEDIUM",
     confidence |-> Weighted(5, m.recurring, 5, m.stability)],
    [present |-> m.cross >= 750,
     pressure |-> "EXECUTION_PRESSURE", domain |-> "PRINCIPAL",
     severity |-> "HIGH", confidence |-> m.cross],
    [present |-> o.level = "CRITICAL" /\ m.maturity >= 800,
     pressure |-> "CONSTITUTIONAL_PRESSURE", domain |-> "CHARTER",
     severity |-> "CRITICAL", confidence |-> Weighted(5, o.confidence, 5, m.maturity)]>>

deriveConstitutionalRisk(signals) ==
  LET Severities == {s.severity : s \in signals}
  IN  IF "CRITICAL" \in Severities THEN "HIGH"
      ELSE IF "HIGH" \in Severities THEN "MEDIUM"
      ELSE IF signals # {} THEN "LOW" ELSE "NONE"

buildCognitiveGovernanceBridge(o, memory) ==
  LET five == BridgeSignals(o, buildMemorySnapshot(memory))
  IN  [signals |-> Present(five),
       constitutionalRisk |-> deriveConstitutionalRisk(Present(five)),
       confidence |-> Average(five)]

(* A cycle may be run without a bridge.                                    *)
NoBridge == [signals |-> {}, constitutionalRisk |-> "NONE", confidence |-> 0]

----------------------------------------------------------------------------
(* governance.emergence.engine.ts: the signals of a cycle.                 *)

severityFromScore(score) ==
  CASE score >= 900 -> "CRITICAL"
    [] score \in 750..899 -> "HIGH"
    [] score \in 550..749 -> "MEDIUM"
    [] OTHER -> "LOW"

Signal(pressure, domain, authorityLevel, severity) ==
  [pressure |-> pressure, domain |-> domain, recommendedAuthority |-> authorityLevel,
   severity |-> severity]

evaluateAiGovernancePressure(e) ==
  IF e.shadow \/ e.ai >= 450
  THEN {Signal("AI_GOVERNANCE_PRESSURE", "COGNITIVE_OBSERVABILITY", "GRADUATE",
               severityFromScore(e.ai))}
  ELSE {}

evaluateAdvisoryPressure(e) ==
  IF e.advisory >= 650
  THEN {Signal("ADVISORY_PRESSURE", "ADVISORY_TRUST", "JUNIOR", severityFromScore(e.advisory))}
  ELSE {}

evaluateExecutionPressure(e) ==
  IF e.execution >= 650
  THEN {Signal("EXECUTION_PRESSURE", "APPROVED_EXECUTION_TRUST", "JUNIOR",
               severityFromScore(e.execution))}
  ELSE {}

evaluateDelegationPressure(e) ==
  IF e.delegation >= 750
  THEN {Signal("DELEGATION_PRESSURE", "DELEGATED_PROCESS_STEWARDSHIP", "SENIOR",
               severityFromScore(e.delegation))}
  ELSE {}

evaluateImprovementPressure(e) ==
  IF e.improvement >= 700
  THEN {Signal("IMPROVEMENT_PRESSURE", "STRUCTURAL_IMPROVEMENT", "PRINCIPAL",
               severityFromScore(e.improvement))}
  ELSE {}

(* flags: policy, goal, resource and role pressures that are observed.     *)
evaluateConstitutionalPressure(e) ==
  IF e.flags > 0
  THEN {Signal("CONSTITUTIONAL_PRESSURE", "CONSTITUTIONAL_BOUNDARY", "CHARTER", "CRITICAL")}
  ELSE {}

mapBridgeDomain ==
  [GRADUATE |-> "COGNITIVE_OBSERVABILITY", JUNIOR |-> "ADVISORY_TRUST",
   SENIOR |-> "DELEGATED_PROCESS_STEWARDSHIP", PRINCIPAL |-> "STRUCTURAL_IMPROVEMENT",
   CHARTER |-> "CONSTITUTIONAL_BOUNDARY"]

mapCognitiveBridgeToEmergenceSignals(bridge) ==
  {Signal(s.pressure, mapBridgeDomain[s.domain], s.domain, s.severity) : s \in bridge.signals}

(* One signal for each pressure, domain and level: the severest.           *)
dedupePressures(signals) ==
  {s \in signals : \A t \in signals :
     [t EXCEPT !.severity = s.severity] = s => severityRank(t.severity) <= severityRank(s.severity)}

(* Mutant of DominanceOrder: a boundary question comes after improvement.  *)
ImprovementFirst ==
  <<"IMPROVEMENT_PRESSURE", "CONSTITUTIONAL_PRESSURE", "DELEGATION_PRESSURE",
    "AI_GOVERNANCE_PRESSURE", "EXECUTION_PRESSURE", "ADVISORY_PRESSURE">>

DominanceOrder ==
  <<"CONSTITUTIONAL_PRESSURE", "IMPROVEMENT_PRESSURE", "DELEGATION_PRESSURE",
    "AI_GOVERNANCE_PRESSURE", "EXECUTION_PRESSURE", "ADVISORY_PRESSURE">>

Pressures(signals) == {s.pressure : s \in signals}

resolveDominantPressure(signals) ==
  IF signals = {} THEN "NONE"
  ELSE DominanceOrder[Min({k \in DOMAIN DominanceOrder :
                             DominanceOrder[k] \in Pressures(signals)})]

computeTrustDomains(e, bridge) ==
  [advisory |-> e.advisory, execution |-> e.execution, delegation |-> e.delegation,
   improvement |-> e.improvement,
   constitutional |->
     Clamp(200 * e.flags + CASE bridge.constitutionalRisk = "HIGH" -> 500
                             [] bridge.constitutionalRisk = "MEDIUM" -> 300
                             [] OTHER -> 0)]

computeGovernanceMaturity(timeline, trust) ==
  LET maxTrust == Max({trust[d] : d \in DOMAIN trust})
      recurring == Cardinality(timeline.recurringPressures)
  IN  [emerging |-> recurring > 0 \/ maxTrust >= 550,
       stable |-> \/ timeline.stableDelegationDetected
                  \/ timeline.governanceConfidenceTrend = "INCREASING"
                  \/ maxTrust >= 750,
       structural |-> \/ trust.constitutional >= 700
                      \/ trust.improvement >= 800
                      \/ timeline.stableDelegationDetected /\ recurring >= 2]

(* Mutant of computeGovernanceConfidence: not normalised.                  *)
ConfidenceAsSummed(e, bridge) == e.confidence + (15 * bridge.confidence) \div 100

computeGovernanceConfidence(e, bridge) ==
  Clamp(e.confidence + (15 * bridge.confidence) \div 100)

----------------------------------------------------------------------------
(* governance.emergence.memory.ts.                                         *)

(* Mutant of appendGovernanceEmergenceMemory: in the order of arrival.     *)
AppendAsItArrives(memory, record) == Append(memory, record)

(* Sorted by time of issue: a record comes before the first issued later.  *)
PlaceOf(memory, record) ==
  Min({Len(memory) + 1}
        \union {k \in DOMAIN memory : memory[k].issued_at > record.issued_at})

appendGovernanceEmergenceMemory(memory, record) ==
  LET place == PlaceOf(memory, record)
  IN  [k \in 1..(Len(memory) + 1) |->
         IF k < place THEN memory[k] ELSE IF k = place THEN record ELSE memory[k - 1]]

Frequency(memory, pressure) ==
  Cardinality({k \in DOMAIN memory : memory[k].dominantPressure = pressure})

resolveConfidenceTrend(memory) ==
  IF Len(memory) < 2 THEN "STABLE"
  ELSE LET delta == memory[Len(memory)].confidence - memory[1].confidence
       IN  IF delta > 100 THEN "INCREASING" ELSE IF delta < -100 THEN "DECREASING" ELSE "STABLE"

Recurring(memory, pressure) == Frequency(memory, pressure) >= 3

buildGovernanceEmergenceTimeline(memory) ==
  [recurringPressures |->
     {p \in {memory[k].dominantPressure : k \in DOMAIN memory} : Recurring(memory, p)},
   stableDelegationDetected |-> Frequency(memory, "DELEGATION_PRESSURE") >= 5,
   constitutionalPressureDetected |-> Frequency(memory, "CONSTITUTIONAL_PRESSURE") > 0,
   governanceConfidenceTrend |-> resolveConfidenceTrend(memory)]

(* What a cycle reads of a timeline it was not handed.                     *)
NoTimeline ==
  [recurringPressures |-> {}, stableDelegationDetected |-> FALSE,
   constitutionalPressureDetected |-> FALSE, governanceConfidenceTrend |-> "UNKNOWN"]

----------------------------------------------------------------------------
(* governance.review.engine.ts.                                            *)

evaluateGovernanceReview(level, timeline) ==
  CASE timeline.constitutionalPressureDetected -> "CHARTER_REVIEW"
    [] /\ ~timeline.constitutionalPressureDetected
       /\ level = "SENIOR"
       /\ timeline.stableDelegationDetected
       /\ timeline.governanceConfidenceTrend = "INCREASING" -> "PRINCIPAL_REVIEW"
    [] /\ ~timeline.constitutionalPressureDetected
       /\ level = "JUNIOR"
       /\ timeline.stableDelegationDetected -> "SENIOR_REVIEW"
    [] /\ ~timeline.constitutionalPressureDetected
       /\ level = "VISION"
       /\ "ADVISORY_PRESSURE" \in timeline.recurringPressures -> "JUNIOR_REVIEW"
    [] /\ ~timeline.constitutionalPressureDetected
       /\ level = "VISION"
       /\ "ADVISORY_PRESSURE" \notin timeline.recurringPressures
       /\ "AI_GOVERNANCE_PRESSURE" \in timeline.recurringPressures -> "GRADUATE_REVIEW"
    [] OTHER -> "NONE"

EmergenceSignals(e, bridge) ==
  evaluateAiGovernancePressure(e) \union evaluateAdvisoryPressure(e)
    \union evaluateExecutionPressure(e) \union evaluateDelegationPressure(e)
    \union evaluateImprovementPressure(e) \union evaluateConstitutionalPressure(e)
    \union mapCognitiveBridgeToEmergenceSignals(bridge)

evaluateGovernanceEmergence(level, timeline, e, bridge) ==
  LET signals == EmergenceSignals(e, bridge)
  IN  [pressures |-> dedupePressures(signals),
       dominantPressure |-> resolveDominantPressure(signals),
       maturity |-> computeGovernanceMaturity(timeline, computeTrustDomains(e, bridge)),
       confidence |-> computeGovernanceConfidence(e, bridge),
       review |-> IF timeline = NoTimeline THEN Undefined
                  ELSE evaluateGovernanceReview(level, timeline)]

----------------------------------------------------------------------------
(* governance.runtime.integrator.ts.                                       *)

resolveConstitutionalRisk(bridge, emergence) ==
  CASE \/ bridge.constitutionalRisk = "HIGH"
       \/ emergence.dominantPressure = "CONSTITUTIONAL_PRESSURE"
       \/ emergence.maturity.structural -> "HIGH"
    [] OTHER ->
       IF bridge.constitutionalRisk = "MEDIUM" \/ emergence.maturity.stable THEN "MEDIUM"
       ELSE IF bridge.constitutionalRisk = "LOW" \/ emergence.maturity.emerging THEN "LOW"
       ELSE "NONE"

resolveRuntimePosture(emergence, risk, bridge, review) ==
  CASE \/ review = "CHARTER_REVIEW"
       \/ risk = "HIGH"
       \/ emergence.dominantPressure = "CONSTITUTIONAL_PRESSURE" ->
         "CONSTITUTIONAL_REVIEW_REQUIRED"
    [] OTHER ->
       IF review \notin {"NONE", Undefined} \/ emergence.pressures # {} THEN "REVIEW_RECOMMENDED"
       ELSE IF bridge.signals # {} THEN "PRESSURE_EMERGING" ELSE "OBSERVING"

(* override: the review the caller hands over, or Undefined.               *)
integrateGovernanceRuntime(emergence, bridge, override) ==
  LET review == IF override # Undefined THEN override ELSE emergence.review
      risk == resolveConstitutionalRisk(bridge, emergence)
  IN  [review |-> IF review = Undefined THEN "NONE" ELSE review,
       posture |-> resolveRuntimePosture(emergence, risk, bridge, review)]

----------------------------------------------------------------------------
Nothing == [pc |-> "none"]

EmergenceInit ==
  /\ authority \in Levels
  /\ cognitive = [entries |-> 0, recurring |-> 0, dependency |-> 0, shadow |-> 0]
  /\ emergenceMemory = <<>>
  /\ cycle = [c \in Cycles |-> Nothing]
  /\ clock = 0
  /\ latest = Nothing

(* observeCognitiveWorkflows and appendCognitiveWorkflowMemory.            *)
Observe(e) ==
  /\ cognitive.entries < MaxEntries
  /\ cognitive' = Remembered(cognitive, observeCognitiveWorkflows(e))
  /\ UNCHANGED <<authority, emergenceMemory, cycle, clock, latest>>

(* timed: the caller hands over the timeline of what is recorded.          *)
Begin(c, e, timed, override) ==
  /\ cycle[c] = Nothing
  /\ clock < MaxCycles
  /\ clock' = clock + 1
  /\ LET bridge == IF e.workflow = NoWorkflow THEN NoBridge
                   ELSE buildCognitiveGovernanceBridge(
                          observeCognitiveWorkflows(e.workflow), cognitive)
         timeline == IF timed THEN buildGovernanceEmergenceTimeline(emergenceMemory)
                     ELSE NoTimeline
         emergence == evaluateGovernanceEmergence(authority, timeline, e, bridge)
         runtime == integrateGovernanceRuntime(emergence, bridge, override)
     IN  /\ cycle' = [cycle EXCEPT ![c] =
               [issued_at |-> clock', dominantPressure |-> emergence.dominantPressure,
                confidence |-> emergence.confidence,
                pressures |-> Pressures(emergence.pressures)]]
         /\ latest' = [pc |-> "stated", timed |-> timed, override |-> override,
                       found |-> emergence.review,
                       alarmed |-> "CONSTITUTIONAL_PRESSURE" \in Pressures(emergence.pressures),
                       posture |-> runtime.posture, review |-> runtime.review]
  /\ UNCHANGED <<authority, cognitive, emergenceMemory>>

Record(c) ==
  /\ cycle[c] # Nothing
  /\ emergenceMemory' = appendGovernanceEmergenceMemory(emergenceMemory, cycle[c])
  /\ cycle' = [cycle EXCEPT ![c] = Nothing]
  /\ latest' = Nothing
  /\ UNCHANGED <<authority, cognitive, clock>>

EmergenceNext ==
  \/ \E e \in Workflows : Observe(e)
  \/ \E c \in Cycles :
       \/ \E e \in Evidence, timed \in BOOLEAN, override \in Overrides \union {Undefined} :
            Begin(c, e, timed, override)
       \/ Record(c)

----------------------------------------------------------------------------
(* Properties.                                                             *)

EmergenceTypeOK ==
  /\ authority \in AuthorityLevel
  /\ \A count \in {"entries", "recurring", "dependency", "shadow"} :
       cognitive[count] \in 0..MaxEntries
  /\ \A k \in DOMAIN emergenceMemory :
       /\ emergenceMemory[k].issued_at \in 1..clock
       /\ emergenceMemory[k].confidence \in 0..1000
       /\ emergenceMemory[k].pressures \subseteq ToSet(DominanceOrder)
  /\ clock \in 0..MaxCycles

Recorded == {emergenceMemory[k] : k \in DOMAIN emergenceMemory}

SawConstitutional(r) == "CONSTITUTIONAL_PRESSURE" \in r.pressures

(* A boundary question is not forgotten by those who are told of it: once  *)
(* any recorded cycle saw a constitutional pressure, be it one of many and *)
(* from its evidence or from the bridge, every later cycle handed the      *)
(* timeline calls for a charter review, however quiet it is itself, and    *)
(* states it, with the constitutional posture, unless its caller hands     *)
(* over another review.  Such a review is called for only then; and a      *)
(* cycle that sees the pressure itself takes the posture whatever it was   *)
(* handed.                                                                 *)
ConstitutionalNotForgotten ==
  latest # Nothing =>
    /\ latest.timed /\ (\E r \in Recorded : SawConstitutional(r)) =>
         /\ latest.found = "CHARTER_REVIEW"
         /\ latest.override = Undefined =>
              /\ latest.review = "CHARTER_REVIEW"
              /\ latest.posture = "CONSTITUTIONAL_REVIEW_REQUIRED"
    /\ latest.found = "CHARTER_REVIEW" =>
         \E r \in Recorded : r.dominantPressure = "CONSTITUTIONAL_PRESSURE"
    /\ latest.alarmed => latest.posture = "CONSTITUTIONAL_REVIEW_REQUIRED"

(* Cycles may be recorded in another order than they were issued in: the   *)
(* confidence is INCREASING, which is what the reviews read of the trend,  *)
(* whenever it is from the first to the last issued.                       *)
TrendInOrderOfIssue ==
  \A r, s \in Recorded :
    /\ \A t \in Recorded : r.issued_at <= t.issued_at /\ t.issued_at <= s.issued_at
    /\ r.confidence + 100 < s.confidence
    => resolveConfidenceTrend(emergenceMemory) = "INCREASING"
=============================================================================
