---------------------------- MODULE Capabilities ----------------------------
(***************************************************************************)
(* The capability lane of an execution: the registry of capabilities       *)
(* (execution/capability.registry.ts), the choice of one for an action     *)
(* (execution/resolveCapability.final.ts), the memory it learns from       *)
(* (execution/capability.memory.ts), its execution up to the provider      *)
(* (execution/execution.orchestrator.ts) and the executor batch behind it  *)
(* (execution/execution.bridge.v1.ts, executor/executor.runtime.v1.ts).    *)
(***************************************************************************)
EXTENDS Integers, Sequences, FiniteSets, Gates

CONSTANT NoValue   \* undefined: no capability, no region

\* The registry, by the plans a capability is allowed to and its approval.
RegistryGroups ==
  { [levels |-> {"JUNIOR"}, approval |-> TRUE, ids |->
      { "CREATE_PURCHASE_ORDER", "UPDATE_PURCHASE_ORDER", "CANCEL_PURCHASE_ORDER",
        "EXPEDITE_SINGLE_ORDER", "ALLOCATE_SINGLE_ORDER", "RESERVE_STOCK",
        "RESCHEDULE_SINGLE_ORDER", "SHORT_TERM_PRODUCTION_ADJUST",
        "SELECT_ROUTE_FOR_ORDER", "PROCESS_ORDER", "TRIGGER_QUALITY_CHECK" }],
    [levels |-> {"JUNIOR", "SENIOR"}, approval |-> TRUE, ids |->
      { "REBALANCE_PLAN", "POST_PRODUCTION_RECEIPT", "POST_COMPONENT_CONSUMPTION" }],
    [levels |-> {"JUNIOR"}, approval |-> FALSE, ids |-> {"FORECAST_DEMAND"}],
    [levels |-> {"JUNIOR", "SENIOR"}, approval |-> FALSE, ids |-> {"GENERATE_SCENARIOS"}],
    [levels |-> {"VISION", "JUNIOR"}, approval |-> FALSE, ids |->
      { "DETECT_DEMAND_DRIFT", "DETECT_PERFORMANCE_DRIFT", "SUMMARIZE_CONTEXT",
        "ANOMALY_EXPLANATION" }],
    [levels |-> {"VISION", "JUNIOR", "SENIOR"}, approval |-> FALSE, ids |->
      { "INVESTIGATE_MISSING_CONSUMPTION", "TRACK_KPI" }],
    [levels |-> {"SENIOR"}, approval |-> FALSE, ids |->
      { "REDEFINE_DEMAND_PLAN", "FREEZE_PLAN", "UNFREEZE_PLAN", "EXPEDITE_SUPPLIER_SYSTEM",
        "EVALUATE_SUPPLIER", "RANK_SUPPLIERS", "MANAGE_SUPPLIER_RELATION",
        "REALLOCATE_INVENTORY_SYSTEM", "CORRECT_INVENTORY", "OPTIMIZE_STOCK_POSITION",
        "RESCHEDULE_PRODUCTION_SYSTEM", "OPTIMIZE_CAPACITY", "OPTIMIZE_ROUTING_SYSTEM",
        "MANAGE_WAREHOUSE", "BLOCK_BATCH", "RELEASE_BATCH" }],
    [levels |-> {"SENIOR", "PRINCIPAL"}, approval |-> FALSE, ids |->
      { "SET_SAFETY_STOCK_POLICY", "ANALYZE_COST" }],
    [levels |-> {"PRINCIPAL"}, approval |-> FALSE, ids |->
      { "SELECT_SUPPLIER_STRATEGY", "OPTIMIZE_DISTRIBUTION_NETWORK" }] }

CAPABILITY_REGISTRY ==
  UNION { {[id |-> id, allowedLevels |-> g.levels, requiresApproval |-> g.approval] : id \in g.ids}
          : g \in RegistryGroups }

Registered(id) == \E c \in CAPABILITY_REGISTRY : c.id = id

Capability(id) == CHOOSE c \in CAPABILITY_REGISTRY : c.id = id

\* Actions whose capability is fixed, whatever the plan; one of them is not registered.
actionCapabilityMap ==
  [ RESTORE_MOVEMENT_CHAIN          |-> "RESTORE_MOVEMENT_CHAIN",
    VERIFY_COMPONENT_CONSUMPTION    |-> "POST_COMPONENT_CONSUMPTION",
    POST_PRODUCTION_RECEIPT         |-> "POST_PRODUCTION_RECEIPT",
    POST_COMPONENT_CONSUMPTION      |-> "POST_COMPONENT_CONSUMPTION",
    INVESTIGATE_MISSING_CONSUMPTION |-> "INVESTIGATE_MISSING_CONSUMPTION" ]

\* What the token affinity leaves for an action, plan by plan: the capabilities
\* allowed to the plan whose words are closest to those of the action.
OrderCapabilities ==
  { "CREATE_PURCHASE_ORDER", "UPDATE_PURCHASE_ORDER", "CANCEL_PURCHASE_ORDER",
    "EXPEDITE_SINGLE_ORDER", "ALLOCATE_SINGLE_ORDER", "RESCHEDULE_SINGLE_ORDER",
    "PROCESS_ORDER", "SELECT_ROUTE_FOR_ORDER" }

PlanCapabilities == {"REDEFINE_DEMAND_PLAN", "REBALANCE_PLAN", "FREEZE_PLAN", "UNFREEZE_PLAN"}

SystemCapabilities ==
  { "RESCHEDULE_PRODUCTION_SYSTEM", "REALLOCATE_INVENTORY_SYSTEM",
    "OPTIMIZE_ROUTING_SYSTEM", "EXPEDITE_SUPPLIER_SYSTEM" }

ForVision(action) ==
  CASE action = "DL_SIGNAL_ANOMALY" -> {"ANOMALY_EXPLANATION"}
    [] action = "HIGH_SYSTEM_RISK" -> {"DETECT_PERFORMANCE_DRIFT"}
    [] action = "BOM_DRIFT" -> {"DETECT_PERFORMANCE_DRIFT", "DETECT_DEMAND_DRIFT"}
    [] action \in { "MISSING_CONSUMPTION_FLOW", "UNEXPECTED_CONSUMPTION_FLOW",
                    "VERIFY_UNEXPECTED_COMPONENT_USAGE" } -> {"INVESTIGATE_MISSING_CONSUMPTION"}
    [] OTHER -> {}

ForJunior(action) ==
  CASE action = "EXPEDITE_SUPPLIER" -> {"EXPEDITE_SINGLE_ORDER"}
    [] action = "SHORT_TERM_PRODUCTION_ADJUST" -> {"SHORT_TERM_PRODUCTION_ADJUST"}
    [] action = "RESCHEDULE_DELIVERY" -> {"RESCHEDULE_SINGLE_ORDER"}
    [] action \in {"REBUILD_PLAN_STRUCTURE", "DEFINE_PLAN_STRUCTURE"} -> {"REBALANCE_PLAN"}
    [] action \in {"RECONSTRUCT_ORDER_FLOW", "ORDER_BOM_OUTDATED"} -> OrderCapabilities
    [] action = "TOPOLOGY_UNSAFE_FOR_EXECUTION" -> {"SELECT_ROUTE_FOR_ORDER"}
    [] action = "UNEXPECTED_CONSUMPTION_FLOW" ->
         {"POST_COMPONENT_CONSUMPTION", "INVESTIGATE_MISSING_CONSUMPTION"}
    [] action = "VERIFY_UNEXPECTED_COMPONENT_USAGE" -> {"POST_COMPONENT_CONSUMPTION"}
    [] OTHER -> ForVision(action)

ForSenior(action) ==
  CASE action = "EXPEDITE_SUPPLIER" -> {"EXPEDITE_SUPPLIER_SYSTEM"}
    [] action = "SHORT_TERM_PRODUCTION_ADJUST" ->
         {"RESCHEDULE_PRODUCTION_SYSTEM", "POST_PRODUCTION_RECEIPT"}
    [] action = "RESCHEDULE_DELIVERY" -> {"RESCHEDULE_PRODUCTION_SYSTEM"}
    [] action \in {"REBUILD_PLAN_STRUCTURE", "DEFINE_PLAN_STRUCTURE"} -> PlanCapabilities
    [] action = "HIGH_SYSTEM_RISK" -> SystemCapabilities
    [] action \in { "MISSING_CONSUMPTION_FLOW", "UNEXPECTED_CONSUMPTION_FLOW",
                    "VERIFY_UNEXPECTED_COMPONENT_USAGE" } -> ForJunior(action)
    [] OTHER -> {}

ForPrincipal(action) ==
  CASE action \in {"EXPEDITE_SUPPLIER", "DEFINE_PLAN_STRUCTURE"} -> {"SELECT_SUPPLIER_STRATEGY"}
    [] action = "SHORT_TERM_PRODUCTION_ADJUST" -> {"SET_SAFETY_STOCK_POLICY"}
    [] OTHER -> {}

resolveCandidates(action, plan) ==
  CASE plan = "VISION" -> ForVision(action)
    [] plan = "JUNIOR" -> ForJunior(action)
    [] plan = "SENIOR" -> ForSenior(action)
    [] plan = "PRINCIPAL" -> ForPrincipal(action)
    [] OTHER -> {}   \* no capability is allowed to the other plans

\* What the isolate has learned: one count of successes and one of failures
\* for each action and capability, whichever company's request taught it.
score(record) == record.success - 2 * record.failure

getCapabilityFromMemory(memory, action) ==
  LET known == {m \in memory : m.action = action}
      best  == {m \in known : \A o \in known : score(o) <= score(m)}
  IN  {m.capabilityId : m \in {b \in best : score(b) > 0}}

learnCapability(memory, action, id, success) ==
  LET old == {m \in memory : m.action = action /\ m.capabilityId = id}
      Count(m) == [m EXCEPT !.success = @ + (IF success THEN 1 ELSE 0),
                            !.failure = @ + (IF success THEN 0 ELSE 1)]
      new == [action |-> action, capabilityId |-> id, success |-> 0, failure |-> 0]
  IN  (memory \ old) \union {Count(m) : m \in IF old = {} THEN {new} ELSE old}

\* Memory first, then the fixed map, then any of the candidates: their score
\* depends on pressure, risk and behaviour, which stay outside the model.
resolveCapabilityFinal(memory, action, plan) ==
  LET remembered == getCapabilityFromMemory(memory, action)
      candidates == resolveCandidates(action, plan)
  IN  IF remembered # {} THEN remembered
      ELSE IF action \in DOMAIN actionCapabilityMap THEN {actionCapabilityMap[action]}
      ELSE IF candidates # {} THEN candidates
      ELSE {NoValue}

\* "THREW": not registered, or no tenant or source region in the payload.
executeCapability(id, plan, payload) ==
  IF ~Registered(id) THEN "THREW"
  ELSE IF plan \notin Capability(id).allowedLevels THEN "SKIPPED"
  ELSE IF Capability(id).requiresApproval /\ plan # "SENIOR" THEN "PENDING_APPROVAL"
  ELSE IF NoValue \in {payload.tenantId, payload.source_region} THEN "THREW"
  ELSE "EXECUTED"

\* Only the optimizer's own actions have a kind the bridge knows.
mapActionToExecutionIntent(action) ==
  CASE action.kind = "EXPEDITE_SUPPLIER" -> "notify_supplier"
    [] action.kind = "SHORT_TERM_PRODUCTION_ADJUST" -> "adjust_production"
    [] action.kind = "RESCHEDULE_DELIVERY" -> "update_order"
    [] OTHER -> NoValue

\* Every intent of a batch passes the guard (its mode is AGENT or DIRECT, it has
\* a payload and a capability), then needs the tenant and the region.
executeRuntimeV1(intents, env) ==
  IF intents # <<>> /\ NoValue \in {env.tenantId, env.source_region}
    THEN [threw |-> TRUE, acted |-> 0]
    ELSE [threw |-> FALSE, acted |-> Len(intents)]
=============================================================================
