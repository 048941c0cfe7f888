------------------------------ MODULE Sandbox ------------------------------
(***************************************************************************)
(* The decision orchestrator (sandbox/orchestrator.v2.ts) behind its three *)
(* routes (worker.ts, sandbox/routes.voice.ts, routes.snapshot.ts), for    *)
(* requests of several companies served by one isolate.  An action is the  *)
(* code between two awaits; what the requests share is the isolate's       *)
(* decision history and its capability memory.                             *)
(*                                                                         *)
(* What the pure analysis finds in a tenant's orders, stock and movements  *)
(* is the request's situation, with its scores in hundredths.              *)
(***************************************************************************)
EXTENDS Capabilities

CONSTANTS Requests,   \* the requests in flight
          Cases       \* what a request may carry: a call and its situation

VARIABLES stage,             \* where each request is, between two awaits
          input,             \* what it carries
          decision,          \* what governance decided for it
          trace,             \* its capabilityTrace
          chosen,            \* the capability resolved for its next action
          answer,            \* what the caller got
          history,           \* decision memory of the isolate, in order
          capabilityMemory   \* capability memory of the isolate

vars == <<stage, input, decision, trace, chosen, answer, history, capabilityMemory>>

When(condition, entry) == IF condition THEN <<entry>> ELSE <<>>

\* The entries of rows at some of its positions, in their order.
Nth(positions, k) == CHOOSE p \in positions : Cardinality({q \in positions : q <= p}) = k

Entries(rows, positions) == [k \in 1..Cardinality(positions) |-> rows[Nth(positions, k)]]

-----------------------------------------------------------------------------
(* What a request carries.                                                 *)

Plans == {"VISION", "GRADUATE", "JUNIOR", "SENIOR", "PRINCIPAL", "CHARTER"}

SandboxCall ==
  [ route : {"worker", "voice", "snapshot"}, plan : Plans, intent : STRING,
    override : STRING \union {NoValue},
    company : STRING, complete : BOOLEAN, database : BOOLEAN, snapshot : STRING ]

\* What an optimizer's plan is made of, and what the correction engine asks for.
ActionKind == {"RESCHEDULE_DELIVERY", "EXPEDITE_SUPPLIER", "SHORT_TERM_PRODUCTION_ADJUST"}

CorrectionCode ==
  { "POST_PRODUCTION_RECEIPT", "POST_COMPONENT_CONSUMPTION", "POST_SUPPLIER_RECEIPT",
    "POST_CUSTOMER_SHIPMENT", "POST_INVENTORY_ADJUSTMENT", "INVESTIGATE_MISSING_CONSUMPTION",
    "INVESTIGATE_OVERCONSUMPTION", "VERIFY_BOM_OR_SCRAP", "INVESTIGATE_INVENTORY_MISMATCH" }

OptimizerPlan ==
  [ kinds : Seq(ActionKind), shortage : BOOLEAN, shortfall : Nat, hardBlock : BOOLEAN,
    assumedSupply : BOOLEAN ]

Situation ==
  [ validTenths : 0..10, flow : BOOLEAN, topology : 0..100, reality : 0..100, alignment : 0..100,
    planExists : BOOLEAN, coherent : BOOLEAN, orderEdges : BOOLEAN, bomDrift : BOOLEAN,
    orderBomDrift : BOOLEAN, missingConsumption : BOOLEAN, unexpectedConsumption : BOOLEAN,
    blockingMismatch : BOOLEAN, delta : Nat, executionGaps : SUBSET STRING,
    corrections : Seq([action : CorrectionCode, blocking : BOOLEAN]), dlHealthy : BOOLEAN,
    dlSignals : BOOLEAN, stockoutRisk : 0..100, baselineShortage : BOOLEAN,
    optimizerThrows : BOOLEAN, builtActions : Seq(ActionKind), best : OptimizerPlan,
    candidates : SUBSET OptimizerPlan ]

ASSUME CasesAssumption ==
  \A case \in Cases : case.call \in SandboxCall /\ case.situation \in Situation

-----------------------------------------------------------------------------
(* The routes.                                                             *)

PlanIntents ==
  [ VISION  |-> {"INFORM", "WARN"}, GRADUATE |-> {"INFORM", "WARN"},
    JUNIOR  |-> {"ADVISE", "EXECUTE", "WARN"}, SENIOR |-> {"ADVISE", "EXECUTE", "WARN"},
    PRINCIPAL |-> {"ADVISE", "EXECUTE", "WARN"}, CHARTER |-> {"INFORM", "WARN"} ]

validateOagAndBuildProof(call) == call.intent \in PlanIntents[call.plan]

\* The worker signs the snapshot it hands over; the voice route passes on the
\* caller's; the snapshot route never passes one.
Snapshot(call) == IF call.route = "worker" THEN "SIGNED" ELSE call.snapshot

VoiceIntent(plan) ==
  CASE plan = "VISION" -> "INFORM"
    [] plan \in {"JUNIOR", "GRADUATE"} -> "ADVISE"
    [] OTHER -> "EXECUTE"

Intent(call) == IF call.route = "voice" THEN VoiceIntent(call.plan) ELSE call.intent

\* The voice route passes no behaviour override on.
Override(call) == IF call.route = "voice" THEN NoValue ELSE call.override

RouteGates(call) ==
  << <<call.route # "snapshot", "INVALID_CORE_REQUEST">>,
     <<call.route = "worker" => call.complete, "MISSING_FIELD">>,
     <<call.route = "worker" => validateOagAndBuildProof(call), "INTENT_NOT_ALLOWED_FOR_PLAN">> >>

verifyRuntimeSnapshot(call) ==
  << <<Snapshot(call) # "UNSIGNED", "MISSING_SIGNATURE">>,
     <<Snapshot(call) # "OTHER_COMPANY", "COMPANY_MISMATCH">>,
     <<Snapshot(call) # "ALTERED", "INVALID_SIGNATURE">>,
     <<Snapshot(call) # "OLD", "EXPIRED">> >>

\* Both routes that get this far fill in the identifiers and a snapshot object.
EntryGates(call) ==
  RouteGates(call) \o << <<call.database, "DB_NOT_CONFIGURED">> >> \o verifyRuntimeSnapshot(call)

-----------------------------------------------------------------------------
(* What the analysis says of a situation.                                  *)

movementQuality(s) == (70 * s.validTenths) \div 10 + (IF s.flow THEN 30 ELSE 15)

strongReality(s) ==
  s.validTenths > 0 /\ movementQuality(s) > 60 /\ s.topology > 70 /\ s.reality > 70

PlanState(s) ==
  IF ~s.planExists THEN "MISSING" ELSE IF ~s.coherent THEN "BROKEN" ELSE "VALID"

classifyProblemType(s) ==
  LET severe == s.alignment < 50 \/ s.bomDrift \/ s.orderBomDrift
  IN  IF PlanState(s) = "BROKEN" THEN "PLAN"
      ELSE IF PlanState(s) = "MISSING" \/ severe
        THEN IF strongReality(s) THEN "REALITY" ELSE "PLAN"
      ELSE IF s.blockingMismatch THEN "REALITY"
      ELSE "NONE"

isPlanRepairMode(s) == classifyProblemType(s) = "PLAN"

\* The reconciliation after the corrections is written with every mismatch at
\* zero, so the corrections always count as fully effective.
deriveCorrectionEffect(postMajorMismatches, delta, postDelta) ==
  IF postMajorMismatches = 0 THEN "FULL" ELSE IF postDelta < delta THEN "PARTIAL" ELSE "NONE"

correctionEffect(s) == deriveCorrectionEffect(0, s.delta, 0)

-----------------------------------------------------------------------------
(* The policy: inferred from the isolate's history, overlaid by the        *)
(* request's override.                                                     *)

RiskProfiles == <<"CONSERVATIVE", "BALANCED", "AGGRESSIVE">>

Risks == {RiskProfiles[n] : n \in 1..3}

\* Of a history, the positions that are trusted, and how many of them a profile has.

(* Mutant of filterTrustedHistory: an anomalous decision is trusted too. *)
SuccessfulHistory(rows) == {n \in DOMAIN rows : rows[n].outcome = "SUCCESS"}

filterTrustedHistory(rows) ==
  {n \in DOMAIN rows : rows[n].outcome = "SUCCESS" /\ ~rows[n].anomaly}

RiskCount(rows, positions, risk) == Cardinality({n \in positions : rows[n].risk = risk})

dominantKey(rows, positions) ==
  LET Leads(n) == \A m \in 1..3 :
        LET mine == RiskCount(rows, positions, RiskProfiles[n])
            its  == RiskCount(rows, positions, RiskProfiles[m])
        IN  its < mine \/ (its = mine /\ n <= m)
  IN  RiskProfiles[CHOOSE n \in 1..3 : Leads(n)]

resolvePolicy(rows) ==
  LET trusted == filterTrustedHistory(rows)
  IN  IF trusted = {} THEN "BALANCED" ELSE dominantKey(rows, trusted)

overlayPolicyWithManagerBehavior(risk, override) ==
  CASE override = "SAFE" -> "CONSERVATIVE"
    [] override = "AGGRESSIVE" -> "AGGRESSIVE"
    [] OTHER -> risk

-----------------------------------------------------------------------------
(* The plan chosen among the optimizer's.                                  *)

OptimizerBest(s) ==
  LET best == IF s.blockingMismatch THEN [s.best EXCEPT !.kinds = <<>>, !.shortage = FALSE,
                                                        !.shortfall = 0] ELSE s.best
  IN  [best EXCEPT !.kinds = IF @ = <<>> THEN s.builtActions ELSE @]

OptimizerCandidates(s) == IF s.blockingMismatch THEN {} ELSE s.candidates

hardFiltered(c, risk, s) ==
  /\ ~c.hardBlock
  /\ ~(c.shortage /\ (risk = "CONSERVATIVE" \/ ~s.baselineShortage))
  /\ c.shortfall < 100
  /\ ~(risk = "CONSERVATIVE" /\ c.assumedSupply)

BeforeInOrder(a, b) ==
  (~a.shortage /\ b.shortage) \/ (a.shortage = b.shortage /\ a.shortfall < b.shortfall)

\* The plans that may come first after the policy; none when the optimizer threw.
SelectableBest(s, risk) ==
  LET kept  == {c \in OptimizerCandidates(s) : hardFiltered(c, risk, s)}
      first == {c \in kept : \A o \in kept : ~BeforeInOrder(o, c)}
  IN  IF s.optimizerThrows /\ ~s.blockingMismatch THEN {}
      ELSE IF first # {} THEN first
      ELSE IF OptimizerCandidates(s) = {} \/ OptimizerBest(s).kinds # <<>> THEN {OptimizerBest(s)}
      ELSE {}

validateDecisionOutcome(best) ==
  IF best.shortage \/ best.shortfall > 0 \/ best.hardBlock \/ best.kinds = <<>>
    THEN "FAIL" ELSE "SUCCESS"

-----------------------------------------------------------------------------
(* Governance: what is to be done, and whether it may be executed.         *)

\* An action of the optimizer has a kind; one of governance an action code.
OptimizerAction(kind) ==
  [action |-> NoValue, kind |-> kind, priority |-> NoValue, blocking |-> FALSE]

EnrichedAction(action, priority, blocking) ==
  [action |-> action, kind |-> NoValue, priority |-> priority, blocking |-> blocking]

ActionType(a) == IF a.action # NoValue THEN a.action ELSE a.kind

\* The key is the action code, not the type: all the optimizer's actions share one.
dedupeRequiredActions(actions) ==
  LET Key(a) == <<a.action, a.priority, a.blocking>>
  IN  Entries(actions, {n \in DOMAIN actions :
                          \A m \in DOMAIN actions : m < n => Key(actions[m]) # Key(actions[n])})

mapExecutionType(action) ==
  CASE action \in { "POST_PRODUCTION_RECEIPT", "POST_COMPONENT_CONSUMPTION",
                    "INVESTIGATE_MISSING_CONSUMPTION", "VERIFY_COMPONENT_CONSUMPTION",
                    "RESTORE_MOVEMENT_CHAIN" } -> "DATA_REPAIR"
    [] action \in { "REBUILD_PLAN_STRUCTURE", "REBUILD_BOM_GRAPH", "DEFINE_PLAN_STRUCTURE",
                    "ALIGN_BOM_AND_ORDERS" } -> "PLAN_REPAIR"
    [] OTHER -> "OPERATIONAL_EXECUTION"

repairActions(s) ==
  When(s.topology < 60, EnrichedAction("REBUILD_BOM_GRAPH", "HIGH", TRUE))
    \o When(s.executionGaps # {}, EnrichedAction("RESTORE_MOVEMENT_CHAIN", "HIGH", TRUE))
    \o When(~s.orderEdges, EnrichedAction("RECONSTRUCT_ORDER_FLOW", "HIGH", TRUE))
    \o When(s.bomDrift \/ s.orderBomDrift, EnrichedAction("ALIGN_BOM_AND_ORDERS", "HIGH", TRUE))
    \o When(PlanState(s) = "MISSING", EnrichedAction("DEFINE_PLAN_STRUCTURE", "MEDIUM", FALSE))
    \o << EnrichedAction("REBUILD_PLAN_STRUCTURE", "HIGH", TRUE) >>

hasExecutionGap(s) == s.executionGaps \cap {"UNDERCONSUMPTION", "OVERCONSUMPTION"} # {}

\* The KPI outliers of a plan (churn, cost, number of actions) are left out.
detectDecisionAnomalyV2(s, best, risk) ==
  When(best.kinds = <<>>, "NO_ACTIONS")
    \o When(~best.shortage /\ best.shortfall > 0, "KPI_INCONSISTENT")
    \o When(s.dlSignals, "DL_SIGNAL_ANOMALY")
    \o When(s.stockoutRisk > 90, "HIGH_SYSTEM_RISK")
    \o When(s.topology < 40, "LOW_TOPOLOGY_CONFIDENCE")
    \o When(s.bomDrift, "BOM_DRIFT")
    \o When(s.orderBomDrift, "ORDER_BOM_OUTDATED")
    \o When(s.missingConsumption, "MISSING_CONSUMPTION_FLOW")
    \o When(s.unexpectedConsumption, "UNEXPECTED_CONSUMPTION_FLOW")
    \o When(s.alignment < 60, "LOW_TOPOLOGY_ALIGNMENT")
    \o When(s.bomDrift /\ risk = "CONSERVATIVE", "TOPOLOGY_UNSAFE_FOR_EXECUTION")

anomalyReasons(s, best, risk) ==
  IF isPlanRepairMode(s) THEN <<"PLAN_INCOHERENT", "STRUCTURAL_REPAIR_REQUIRED">>
  ELSE When(hasExecutionGap(s), "EXECUTION_MISMATCH") \o detectDecisionAnomalyV2(s, best, risk)

\* Every anomaly reason becomes an action, in place of what was required before.
enrichAnomalyActions(reasons) ==
  [n \in DOMAIN reasons |-> EnrichedAction(reasons[n], "LOW", FALSE)]

requiredActions(s, best, risk) ==
  LET reasons == anomalyReasons(s, best, risk)
      defined == When(PlanState(s) = "MISSING",
                      EnrichedAction("DEFINE_PLAN_STRUCTURE", "MEDIUM", FALSE))
      Correction(c) == EnrichedAction(c.action, IF c.blocking THEN "HIGH" ELSE "MEDIUM", c.blocking)
  IN  dedupeRequiredActions(
        (IF reasons # <<>> THEN enrichAnomalyActions(reasons) ELSE defined)
          \o [n \in DOMAIN s.corrections |-> Correction(s.corrections[n])]
          \o When(s.bomDrift, EnrichedAction("ALIGN_BOM_AND_ORDERS", "HIGH", TRUE))
          \o When(s.missingConsumption,
                  EnrichedAction("VERIFY_COMPONENT_CONSUMPTION", "HIGH", TRUE))
          \o When(s.unexpectedConsumption,
                  EnrichedAction("VERIFY_UNEXPECTED_COMPONENT_USAGE", "HIGH", TRUE)))

GovernedActions(s, best, risk) ==
  IF isPlanRepairMode(s) THEN dedupeRequiredActions(repairActions(s))
  ELSE dedupeRequiredActions(
         [n \in DOMAIN best.kinds |-> OptimizerAction(best.kinds[n])]
           \o requiredActions(s, best, risk))

executionAllowedByPlan(plan, intent) ==
  intent = "EXECUTE" /\ plan \in {"JUNIOR", "SENIOR", "PRINCIPAL"}

\* Whether execution is allowed, why, and of which types: for lack of data any
\* plan may repair data, otherwise the plan and the intent decide.  The reason
\* of a refused plan repair is worded by plan; IMPROVE passes no route.
ExecutionAuthority(s, plan, intent) ==
  IF movementQuality(s) < 50
    THEN [allowed |-> TRUE, reason |-> "DATA_REPAIR_ONLY", types |-> {"DATA_REPAIR"}]
  ELSE IF isPlanRepairMode(s)
    THEN IF plan = "SENIOR" /\ intent = "EXECUTE"
           THEN [allowed |-> TRUE, reason |-> "PLAN_REPAIR_DELEGATED_EXECUTION",
                 types |-> {"PLAN_REPAIR"}]
           ELSE [allowed |-> FALSE, reason |-> "PLAN_REPAIR_REQUIRED", types |-> {"PLAN_REPAIR"}]
  ELSE LET allowed == executionAllowedByPlan(plan, intent)
       IN  [allowed |-> allowed,
            reason |-> IF allowed THEN "DELEGATED_OR_BUDGETED_AUTHORITY" ELSE "ADVISORY_ONLY",
            types |-> {"DATA_REPAIR", "PLAN_REPAIR", "OPERATIONAL_EXECUTION"}]

(* Mutant of allowedActions: the types are not looked at. *)
AllActions(actions, authority) == actions

allowedActions(actions, authority) ==
  IF ~authority.allowed THEN actions
  ELSE Entries(actions, {n \in DOMAIN actions :
                           mapExecutionType(ActionType(actions[n])) \in authority.types})

hasInventoryBlocking(s) == \E n \in DOMAIN s.corrections : s.corrections[n].blocking

hasCriticalAnomaly(s, best, risk) ==
  \E n \in DOMAIN anomalyReasons(s, best, risk) :
    anomalyReasons(s, best, risk)[n] = "LOW_TOPOLOGY_CONFIDENCE"

HardBlocks(s, best, risk) ==
  LET effect == correctionEffect(s)
  IN  << <<~(hasInventoryBlocking(s) /\ effect = "NONE"), "BLOCKED_BY_INVENTORY_MISMATCH">>,
         <<~hasCriticalAnomaly(s, best, risk), "BLOCKED_BY_SYSTEM_UNCERTAINTY">>,
         <<~(s.bomDrift /\ risk = "CONSERVATIVE"), "BLOCKED_BY_BOM_DRIFT">>,
         <<~(s.reality < 50 /\ effect = "NONE"), "BLOCKED_BY_LOW_REALITY_SCORE">>,
         <<effect # "PARTIAL", "EXECUTION_WITH_WARNINGS">> >>

Governed(s, call, best, risk) ==
  LET authority == ExecutionAuthority(s, call.plan, Intent(call))
      actions   == allowedActions(GovernedActions(s, best, risk), authority)
      blocks    == HardBlocks(s, best, risk)
      idle      == authority.allowed /\ actions = <<>>
  IN  [executionAllowed |-> authority.allowed /\ ~idle /\ AllOpen(blocks),
       reason  |-> ReasonOr(blocks, IF idle THEN "NO_ALLOWED_ACTIONS" ELSE authority.reason),
       actions |-> actions, risk |-> risk, anomaly |-> anomalyReasons(s, best, risk) # <<>>]

\* No plan survived: nothing to govern, nothing recorded.
Ungoverned(s, risk) ==
  [executionAllowed |-> FALSE,
   reason |-> IF classifyProblemType(s) = "PLAN" THEN "ADVISORY_ONLY" ELSE "NO_ACTIONABLE_PLAN",
   actions |-> <<>>, risk |-> risk, anomaly |-> FALSE]

\* What may be decided of a case under a policy, with the outcome recorded.
Governing(case, risk) ==
  LET s == case.situation
      plans == SelectableBest(s, risk)
  IN  IF plans = {} THEN {[outcome |-> NoValue, decision |-> Ungoverned(s, risk)]}
      ELSE { [outcome |-> validateDecisionOutcome(best),
              decision |-> Governed(s, case.call, best, risk)] : best \in plans }

Governance == [case \in Cases |-> [risk \in Risks |-> Governing(case, risk)]]

-----------------------------------------------------------------------------
(* The steps of a request.                                                 *)

\* What governance decides, and what a caller may get.
AnomalyReason ==
  { "PLAN_INCOHERENT", "STRUCTURAL_REPAIR_REQUIRED", "EXECUTION_MISMATCH", "NO_ACTIONS",
    "KPI_INCONSISTENT", "DL_SIGNAL_ANOMALY", "HIGH_SYSTEM_RISK", "LOW_TOPOLOGY_CONFIDENCE",
    "BOM_DRIFT", "ORDER_BOM_OUTDATED", "MISSING_CONSUMPTION_FLOW",
    "UNEXPECTED_CONSUMPTION_FLOW", "LOW_TOPOLOGY_ALIGNMENT", "TOPOLOGY_UNSAFE_FOR_EXECUTION" }

RepairCode ==
  { "REBUILD_BOM_GRAPH", "RESTORE_MOVEMENT_CHAIN", "RECONSTRUCT_ORDER_FLOW",
    "ALIGN_BOM_AND_ORDERS", "DEFINE_PLAN_STRUCTURE", "REBUILD_PLAN_STRUCTURE",
    "VERIFY_COMPONENT_CONSUMPTION", "VERIFY_UNEXPECTED_COMPONENT_USAGE" }

GovernedAction ==
  [ action : AnomalyReason \union RepairCode \union CorrectionCode \union {NoValue},
    kind : ActionKind \union {NoValue}, priority : {"LOW", "MEDIUM", "HIGH", NoValue},
    blocking : BOOLEAN ]

GovernanceReason ==
  { "DATA_REPAIR_ONLY", "PLAN_REPAIR_DELEGATED_EXECUTION", "PLAN_REPAIR_REQUIRED",
    "DELEGATED_OR_BUDGETED_AUTHORITY", "ADVISORY_ONLY", "NO_ALLOWED_ACTIONS",
    "NO_ACTIONABLE_PLAN", "BLOCKED_BY_INVENTORY_MISMATCH", "BLOCKED_BY_SYSTEM_UNCERTAINTY",
    "BLOCKED_BY_BOM_DRIFT", "BLOCKED_BY_LOW_REALITY_SCORE", "EXECUTION_WITH_WARNINGS" }

Decision ==
  [ executionAllowed : BOOLEAN, reason : GovernanceReason, actions : Seq(GovernedAction),
    risk : Risks, anomaly : BOOLEAN ]

RefusalReason ==
  { "INVALID_CORE_REQUEST", "MISSING_FIELD", "INTENT_NOT_ALLOWED_FOR_PLAN", "DB_NOT_CONFIGURED",
    "MISSING_SIGNATURE", "COMPANY_MISMATCH", "INVALID_SIGNATURE", "EXPIRED", "DL_FAILED",
    "DATABASE_ERROR" }

SpokenWords ==
  {"OBSERVATION_ONLY", "APPROVAL_REQUIRED", "DELEGATED_SCOPE", "BUDGET_AUTHORITY", "UNKNOWN"}

Answer ==
  [ok : {FALSE}, reason : RefusalReason]
    \union [ok : {TRUE}, governance : SpokenWords \union {NoValue}, executionAllowed : BOOLEAN,
            reason : GovernanceReason, outcome : {"BLOCKED", "SUCCESS", "PARTIAL", "FAILED"}]

ASSUME NoValueAssumption == NoValue \notin Decision \union Answer

Init ==
  /\ stage = [r \in Requests |-> "IDLE"]
  /\ input = [r \in Requests |-> NoValue]
  /\ decision = [r \in Requests |-> NoValue]
  /\ trace = [r \in Requests |-> <<>>]
  /\ chosen = [r \in Requests |-> NoValue]
  /\ answer = [r \in Requests |-> NoValue]
  /\ history = <<>>
  /\ capabilityMemory = {}

Goto(r, next) == stage' = [stage EXCEPT ![r] = next]

Refuse(r, reason) ==
  /\ Goto(r, "ANSWERED")
  /\ answer' = [answer EXCEPT ![r] = [ok |-> FALSE, reason |-> reason]]

\* The route, and the orchestrator up to a verified snapshot.
Receive(r) ==
  /\ stage[r] = "IDLE"
  /\ \E case \in Cases :
       /\ input' = [input EXCEPT ![r] = case]
       /\ LET gates == EntryGates(case.call)
          IN  IF AllOpen(gates) THEN Goto(r, "VERIFIED") /\ UNCHANGED answer
              ELSE Refuse(r, FirstClosed(gates))
  /\ UNCHANGED <<decision, trace, chosen, history, capabilityMemory>>

\* The analysis and the DL evidence.
Analyse(r) ==
  /\ stage[r] = "VERIFIED"
  /\ IF input[r].situation.dlHealthy THEN Goto(r, "ANALYSED") /\ UNCHANGED answer
     ELSE Refuse(r, "DL_FAILED")
  /\ UNCHANGED <<input, decision, trace, chosen, history, capabilityMemory>>

recordDecision(r, g) ==
  history' = IF g.outcome = NoValue THEN history
             ELSE Append(history, [decision_id |-> r, risk |-> g.decision.risk,
                                   outcome |-> g.outcome, anomaly |-> g.decision.anomaly])

\* Policy, plan and governance, in one stretch after the optimizer; the decision
\* is recorded with its outcome before anything is executed.
Govern(r) ==
  /\ stage[r] = "ANALYSED"
  /\ LET risk == overlayPolicyWithManagerBehavior(resolvePolicy(history), Override(input[r].call))
     IN  \E g \in Governance[input[r]][risk] :
           /\ decision' = [decision EXCEPT ![r] = g.decision]
           /\ Goto(r, IF g.decision.executionAllowed THEN "EXECUTING" ELSE "CONCLUDING")
           /\ recordDecision(r, g)
  /\ UNCHANGED <<input, trace, chosen, answer, capabilityMemory>>

NextAction(r) == decision[r].actions[Len(trace[r]) + 1]

HasNextAction(r) == Len(trace[r]) < Len(decision[r].actions)

(* Mutant of Traced: every entry is about the first action. *)
TracedFirst(r, id, status) ==
  trace' = [trace EXCEPT ![r] =
    Append(@, [action |-> decision[r].actions[1], capability |-> id, status |-> status])]

Traced(r, id, status) ==
  trace' = [trace EXCEPT ![r] =
    Append(@, [action |-> NextAction(r), capability |-> id, status |-> status])]

InformationalActions == {"EXECUTION_MISMATCH", "NO_ACTIONS", "DL_SIGNAL_ANOMALY"}

StatusWithoutCapability(type) ==
  IF type \in InformationalActions THEN "SKIPPED"
  ELSE IF mapExecutionType(type) = "DATA_REPAIR" THEN "FAILED"
  ELSE "FALLBACK_TO_RUNTIME"

\* await resolveCapabilityFinal
Resolve(r) ==
  /\ stage[r] = "EXECUTING" /\ HasNextAction(r)
  /\ LET type == ActionType(NextAction(r))
     IN  \E id \in resolveCapabilityFinal(capabilityMemory, type, input[r].call.plan) :
           IF id = NoValue
             THEN Traced(r, NoValue, StatusWithoutCapability(type)) /\ UNCHANGED <<stage, chosen>>
             ELSE Goto(r, "RESOLVED") /\ chosen' = [chosen EXCEPT ![r] = id] /\ UNCHANGED trace
  /\ UNCHANGED <<input, decision, answer, history, capabilityMemory>>

\* Neither the payload of a capability nor the environment of the batch names a region.
Payload(r) == [tenantId |-> input[r].call.company, source_region |-> NoValue]

(* Mutant of Perform: what throws is tried again. *)
PerformUntilDone(r) ==
  /\ stage[r] = "RESOLVED"
  /\ LET result == executeCapability(chosen[r], input[r].call.plan, Payload(r))
     IN  IF result = "THREW" THEN UNCHANGED trace ELSE Traced(r, chosen[r], result)
  /\ Goto(r, "EXECUTING")
  /\ chosen' = [chosen EXCEPT ![r] = NoValue]
  /\ UNCHANGED <<input, decision, answer, history, capabilityMemory>>

\* await executeCapability; what returns is learned, what throws falls back.
Perform(r) ==
  /\ stage[r] = "RESOLVED"
  /\ LET type   == ActionType(NextAction(r))
         result == executeCapability(chosen[r], input[r].call.plan, Payload(r))
     IN  IF result = "THREW"
           THEN Traced(r, NoValue, "FALLBACK_TO_RUNTIME") /\ UNCHANGED capabilityMemory
           ELSE /\ Traced(r, chosen[r], result)
                /\ capabilityMemory' =
                     learnCapability(capabilityMemory, type, chosen[r], result = "EXECUTED")
  /\ Goto(r, "EXECUTING")
  /\ chosen' = [chosen EXCEPT ![r] = NoValue]
  /\ UNCHANGED <<input, decision, answer, history>>

\* The actions left to the runtime go as one batch: one that cannot be mapped,
\* or an executor that throws, and all of them have failed.
Left(r) == {n \in DOMAIN trace[r] : trace[r][n].status = "FALLBACK_TO_RUNTIME"}

FallbackActions(r) == Entries(trace[r], Left(r))

RuntimeBatch(r) ==
  LET intents == [n \in DOMAIN FallbackActions(r) |->
                    mapActionToExecutionIntent(FallbackActions(r)[n].action)]
  IN  IF \E n \in DOMAIN intents : intents[n] = NoValue
        THEN [threw |-> TRUE, acted |-> 0]
        ELSE executeRuntimeV1(intents, Payload(r))

ExecuteBatch(r) ==
  /\ stage[r] = "EXECUTING" /\ ~HasNextAction(r)
  /\ trace' = [trace EXCEPT ![r] = [n \in DOMAIN @ |->
       IF RuntimeBatch(r).threw /\ @[n].status = "FALLBACK_TO_RUNTIME"
         THEN [@[n] EXCEPT !.status = "FAILED"] ELSE @[n]]]
  /\ Goto(r, "CONCLUDING")
  /\ UNCHANGED <<input, decision, chosen, answer, history, capabilityMemory>>

Executed(r) == {n \in DOMAIN trace[r] : trace[r][n].status = "EXECUTED"}

executionOutcome(r) ==
  IF ~decision[r].executionAllowed THEN "BLOCKED"
  ELSE IF trace[r] # <<>> /\ Executed(r) = DOMAIN trace[r] THEN "SUCCESS"
  ELSE IF Executed(r) # {} THEN "PARTIAL"
  ELSE "FAILED"

translateGovernance(plan) ==
  CASE plan = "VISION" -> "OBSERVATION_ONLY"
    [] plan \in {"JUNIOR", "GRADUATE"} -> "APPROVAL_REQUIRED"
    [] plan = "SENIOR" -> "DELEGATED_SCOPE"
    [] plan = "PRINCIPAL" -> "BUDGET_AUTHORITY"
    [] OTHER -> "UNKNOWN"

SpokenGovernance(call) == IF call.route = "voice" THEN translateGovernance(call.plan) ELSE NoValue

\* The last snapshot is read outside the try of the memory write: when the
\* database fails here, the caller is told of an error after the execution.
Conclude(r) ==
  /\ stage[r] = "CONCLUDING"
  /\ \/ Refuse(r, "DATABASE_ERROR")
     \/ /\ Goto(r, "ANSWERED")
        /\ answer' = [answer EXCEPT ![r] =
             [ok |-> TRUE, governance |-> SpokenGovernance(input[r].call),
              executionAllowed |-> decision[r].executionAllowed,
              reason |-> decision[r].reason, outcome |-> executionOutcome(r)]]
  /\ UNCHANGED <<input, decision, trace, chosen, history, capabilityMemory>>

Advance(r) ==
  \/ Analyse(r) \/ Govern(r) \/ Resolve(r) \/ Perform(r) \/ ExecuteBatch(r) \/ Conclude(r)

Next == \E r \in Requests : Receive(r) \/ Advance(r)

\* Each await of a request the isolate has taken in resumes.
Fairness == \A r \in Requests : WF_vars(Advance(r))

Spec == Init /\ [][Next]_vars /\ Fairness

-----------------------------------------------------------------------------
(* Properties.                                                             *)

Statuses == {"EXECUTED", "PENDING_APPROVAL", "SKIPPED", "FALLBACK_TO_RUNTIME", "FAILED"}

\* Every request is at one of the awaits, with a decision and an answer of the
\* kinds the code makes; its trace never runs past the actions decided for it;
\* the decisions on record are of governed requests.
TypeOK ==
  /\ stage \in [Requests -> {"IDLE", "VERIFIED", "ANALYSED", "EXECUTING", "RESOLVED",
                             "CONCLUDING", "ANSWERED"}]
  /\ \A r \in Requests :
       /\ input[r] \in Cases \union {NoValue}
       /\ decision[r] \in Decision \union {NoValue}
       /\ answer[r] \in Answer \union {NoValue}
       /\ \A n \in DOMAIN trace[r] : trace[r][n].status \in Statuses
       /\ decision[r] = NoValue => trace[r] = <<>>
       /\ decision[r] # NoValue =>
            /\ Len(trace[r]) <= Len(decision[r].actions)
            /\ \A n \in DOMAIN trace[r] : trace[r][n].action = decision[r].actions[n]
       /\ (stage[r] = "RESOLVED") <=> (chosen[r] # NoValue)
       /\ (stage[r] = "ANSWERED") <=> (answer[r] # NoValue)
  /\ \A n \in DOMAIN history : decision[history[n].decision_id] # NoValue

\* What was attempted for a request never exceeds what its plan, its intent and
\* the quality of its data allow: on poor data only data repairs, on an incoherent
\* plan only a senior's delegated plan repairs, otherwise a delegated execution.
ActedWithinAuthority ==
  \A r \in Requests : trace[r] # <<>> =>
    LET s    == input[r].situation
        call == input[r].call
        Only(type) == \A n \in DOMAIN trace[r] :
                        mapExecutionType(ActionType(trace[r][n].action)) = type
    IN  /\ movementQuality(s) < 50 => Only("DATA_REPAIR")
        /\ movementQuality(s) >= 50 =>
             Intent(call) = "EXECUTE" /\ call.plan \in {"JUNIOR", "SENIOR", "PRINCIPAL"}
        /\ movementQuality(s) >= 50 /\ isPlanRepairMode(s) =>
             call.plan = "SENIOR" /\ Only("PLAN_REPAIR")
        /\ ~(s.bomDrift /\ decision[r].risk = "CONSERVATIVE")

AskedFor(override, risk) ==
  <<override, risk>> \in {<<"SAFE", "CONSERVATIVE">>, <<"AGGRESSIVE", "AGGRESSIVE">>}

\* A request is only ever governed conservatively or aggressively because it
\* asked for it, or an earlier request did and its decision was a success without
\* anomaly: nothing is inferred from an anomalous decision, however long the
\* chain of decisions that learned from one another.
PolicyHasOrigin ==
  \A r \in Requests :
    decision[r] # NoValue /\ decision[r].risk # "BALANCED" =>
      \/ AskedFor(Override(input[r].call), decision[r].risk)
      \/ \E n \in DOMAIN history :
           /\ history[n].decision_id # r
           /\ history[n].risk = decision[r].risk
           /\ history[n].outcome = "SUCCESS" /\ ~history[n].anomaly
           /\ AskedFor(Override(input[history[n].decision_id].call), decision[r].risk)

\* Every request the isolate takes in is answered, whatever its actions run into.
EveryRequestAnswered ==
  \A r \in Requests : stage[r] = "VERIFIED" ~> stage[r] = "ANSWERED"

\* What routes.voice.ts says aloud of a VISION plan, "Observation only. No
\* execution allowed.": the governance answered with it does not allow execution.
ObservationOnly ==
  \A r \in Requests :
    stage[r] = "ANSWERED" /\ answer[r].ok /\ answer[r].governance = "OBSERVATION_ONLY"
      => ~answer[r].executionAllowed
=============================================================================
